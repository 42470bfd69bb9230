-------------------------- MODULE JobManagerProofs --------------------------
(***************************************************************************)
(* Proofs about JobManager, for any number of workers, submitters, jobs    *)
(* and slots: its threads use the queue as SyncQProofs assumes, and leave  *)
(* it alone once job_manager_cleanup has destroyed it; every job runs,     *)
(* once, before job_manager_wait returns the number of failures.           *)
(***************************************************************************)
EXTENDS JobManager, SyncQProofs

(* A leaf goes to Zenon first, and to the SMT solver when Zenon does not   *)
(* find its proof.                                                         *)
USE ZenonT(20), SMTT(60)

Submitted == todo \subseteq Jobs

(* A step of the manager is a call of the queue, a step inside one, or     *)
(* leaves the queue alone.                                                 *)
LEMMA StepUsesQueue ==
  ASSUME Submitted, NEW t \in Threads, Step(t)
  PROVE  QCall(t) \/ QStep(t) \/ UNCHANGED syncq
<1>1. JM \in Queues /\ NULL \in Value /\ todo \subseteq Value
  BY SyncQAssumption, JobAssumption DEF JM, Submitted
<1>2. CASE Submit(t)
  BY <1>1, <1>2 DEF Submit, QCall
<1>3. CASE Get(t)
  BY <1>1, <1>3 DEF Get, QCall
<1>4. CASE t = Main /\ Pill
  BY <1>1, <1>4 DEF Pill, QCall
<1>5. CASE GotNull(t) \/ Run(t) \/ PostDone(t) \/ Exit(t)
  BY <1>5 DEF GotNull, Run, PostDone, Exit
<1>6. CASE Create \/ Wait \/ Ack \/ Join \/ Cleanup
  BY <1>6 DEF Create, Wait, Ack, Join, Cleanup
<1> QED  BY <1>2, <1>3, <1>4, <1>5, <1>6 DEF Step

(* What is left to submit are jobs. *)
LEMMA SubmittedStep == Submitted /\ [Next]_vars => Submitted'
<1>1. ASSUME Submitted, NEW t \in Threads, Step(t) PROVE Submitted'
  <2>1. CASE Submit(t)
    BY <1>1, <2>1 DEF Submit, Submitted
  <2>2. CASE QStep(t) /\ UNCHANGED jm
    BY <1>1, <2>2 DEF jm, Submitted
  <2>3. CASE Get(t) \/ GotNull(t) \/ Run(t) \/ PostDone(t) \/ Exit(t)
    BY <1>1, <2>3 DEF Get, GotNull, Run, PostDone, Exit, Submitted
  <2>4. CASE Create \/ Wait \/ Pill \/ Ack \/ Join \/ Cleanup
    BY <1>1, <2>4 DEF Create, Wait, Pill, Ack, Join, Cleanup, Submitted
  <2> QED  BY <1>1, <2>1, <2>2, <2>3, <2>4 DEF Step
<1> QED  BY <1>1 DEF Next, vars, jm, Submitted

(* The manager uses its queue only through SYNCQ_ENQ and SYNCQ_DEQ, so     *)
(* everything SyncQProofs shows holds of it.                               *)
LEMMA UsesQueue == Spec => QSpec
<1>1. Init => QInit /\ Submitted
  BY DEF Init, Submitted
<1>2. Submitted /\ [Next]_vars => [QNext]_syncq
  <2>1. ASSUME Submitted, NEW t \in Threads, Step(t) PROVE [QNext]_syncq
    BY <2>1, StepUsesQueue DEF QNext
  <2> QED  BY <2>1 DEF Next, vars
<1> QED  BY <1>1, <1>2, SubmittedStep, PTL DEF Spec, QSpec

(* The queue of the job manager hands every job and every stop request to  *)
(* exactly one worker, in the order in which they were stored.             *)
THEOREM JobsFifo == Spec => FifoSpec
  BY UsesQueue, QImplementsFifo, PTL
-----------------------------------------------------------------------------
WorkerAt == {"new", "loop", "got", "post", "wake", "exited"}
MainAt == {"create", "failed", "submit", "pill", "ack", "join", "cleanup", "gone"}

(* Where the threads are, and who can be inside a queue operation. *)
Phases ==
  /\ at \in [Threads -> WorkerAt \cup MainAt] /\ DOMAIN pc = Threads /\ i \in Nat
  /\ at[Main] \in MainAt /\ \A w \in Workers : at[w] \in WorkerAt
  /\ \A t \in Submitters \ {Main} : at[t] = "submit"
  /\ \A w \in Workers : at[w] # "got" => pc[w] = "out"
  /\ at[Main] # "submit" => \A t \in Submitters \ {Main} : pc[t] = "out"
  /\ at[Main] \notin {"submit", "ack"} => pc[Main] = "out"
  /\ at[Main] = "create" => i \in Workers /\ \A w \in i .. NThreads : at[w] = "new"
  /\ at[Main] \in {"pill", "ack"} => i = 1
  /\ at[Main] = "join" => i \in Workers /\ \A w \in 1 .. i - 1 : at[w] = "exited"
  /\ at[Main] \in {"cleanup", "gone"} => \A w \in Workers : at[w] = "exited"
  /\ ~ alive => at[Main] = "gone"

(* Every step of the manager keeps to the phases. *)
LEMMA PhasesStep == ASSUME Phases, NEW t \in Threads, Step(t) PROVE Phases'
<1> USE JobAssumption
<1>1. CASE QStep(t) /\ UNCHANGED jm
  <2>1. PICK l : pc[t] # "out" /\ pc' = [pc EXCEPT ![t] = l]
    BY <1>1, QStepMoves DEF Goto
  <2> QED  BY <1>1, <2>1 DEF Phases, jm
<1>2. CASE t \in Workers /\ Get(t)
  BY <1>2, SMTT(60) DEF Get, DeqCall, Goto, Move, Phases, WorkerAt, MainAt
<1>3. CASE t \in Workers /\ GotNull(t)
  BY <1>3, SMTT(60) DEF GotNull, Move, Phases, syncq, WorkerAt, MainAt
<1>4. CASE t \in Workers /\ Run(t)
  BY <1>4, SMTT(60) DEF Run, Move, Phases, syncq, WorkerAt, MainAt
<1>5. CASE t \in Workers /\ PostDone(t)
  BY <1>5, SMTT(60) DEF PostDone, Move, Phases, syncq, WorkerAt, MainAt
<1>6. CASE t \in Workers /\ Exit(t)
  BY <1>6, SMTT(60) DEF Exit, Move, Phases, syncq, WorkerAt, MainAt
<1>7. CASE t \in Submitters \cup {Main} /\ Submit(t)
  BY <1>7, SMTT(60) DEF Submit, EnqCall, Goto, Phases, WorkerAt, MainAt
<1>8. CASE Create
  <2>1. /\ at[Main] = "create" /\ i \in Workers /\ i \in Nat /\ at[i] = "new" /\ Main \in Threads
        /\ UNCHANGED <<pc, alive>> /\ alive /\ \A w \in i + 1 .. NThreads : at[w] = "new" /\ w \in Workers
    BY <1>8, SMTT(60) DEF Create, Phases, syncq, Workers
  <2>2. CASE at' = [at EXCEPT ![i] = "loop", ![Main] = IF i = NThreads THEN "submit" ELSE "create"] /\ i' = i + 1
    <3>1. /\ at'[Main] = IF i = NThreads THEN "submit" ELSE "create"
          /\ \A w \in Workers : at'[w] = IF w = i THEN "loop" ELSE at[w]
          /\ \A u \in Submitters \ {Main} : at'[u] = at[u]
          /\ at' \in [Threads -> WorkerAt \cup MainAt]
      BY <2>1, <2>2 DEF Phases, WorkerAt, MainAt
    <3>2. i # NThreads => i' \in Workers /\ \A w \in i' .. NThreads : at'[w] = "new"
      BY <2>1, <2>2, <3>1, SMTT(60) DEF Workers
    <3>3. at'[Main] \in {"submit", "create"} /\ (at'[Main] = "create" => i # NThreads)
      BY <3>1
    <3>4. at'[Main] \in MainAt /\ i' \in Nat /\ DOMAIN pc' = Threads /\ pc'[Main] = "out"
      BY <2>1, <2>2, <3>3, SMTT(60) DEF Phases, MainAt
    <3>5. \A w \in Workers : at'[w] \in WorkerAt /\ (at'[w] # "got" => pc'[w] = "out")
      <4>1. pc[i] = "out"
        BY <2>1 DEF Phases
      <4> QED  BY <2>1, <3>1, <4>1 DEF Phases, WorkerAt
    <3>6. \A u \in Submitters \ {Main} : at'[u] = "submit" /\ pc'[u] = "out"
      BY <2>1, <3>1 DEF Phases
    <3> QED  BY <2>1, <3>1, <3>2, <3>3, <3>4, <3>5, <3>6 DEF Phases
  <2>3. CASE Move(Main, "failed") /\ i' = i
    BY <2>1, <2>3 DEF Move, Phases, WorkerAt, MainAt
  <2> QED  BY <1>8, <2>2, <2>3 DEF Create
<1>9. CASE Wait
  BY <1>9 DEF Wait, Move, Phases, syncq, WorkerAt, MainAt
<1>10. CASE Pill
  BY <1>10 DEF Pill, EnqCall, Goto, Move, Phases, WorkerAt, MainAt
<1>11. CASE Ack
  BY <1>11, SMTT(60) DEF Ack, Move, Phases, syncq, WorkerAt, MainAt, Workers
<1>12. CASE Join
  BY <1>12, SMTT(60) DEF Join, Move, Phases, syncq, WorkerAt, MainAt, Workers
<1>13. CASE Cleanup
  BY <1>13 DEF Cleanup, Move, Phases, syncq, WorkerAt, MainAt
<1> QED  BY <1>1, <1>2, <1>3, <1>4, <1>5, <1>6, <1>7, <1>8, <1>9, <1>10, <1>11, <1>12, <1>13 DEF Step

(* The phases hold in every reachable state. *)
LEMMA PhasesKept == Spec => []Phases
<1>1. Init => Phases
  <2> SUFFICES ASSUME Init PROVE Phases
    OBVIOUS
  <2>1. /\ at = [t \in Threads |-> IF t = Main THEN "create" ELSE IF t \in Workers THEN "new" ELSE "submit"]
        /\ pc = [t \in Threads |-> "out"] /\ i = 1 /\ alive
        /\ Main \in Threads /\ Main \notin Workers /\ Workers \subseteq Threads
    BY JobAssumption DEF Init, QInit
  <2>2. at \in [Threads -> WorkerAt \cup MainAt] /\ at[Main] = "create" /\ \A w \in Workers : at[w] = "new"
    BY <2>1 DEF WorkerAt, MainAt
  <2>3. \A t \in Submitters \ {Main} : t \in Threads /\ at[t] = "submit" /\ pc[t] = "out"
    BY <2>1, JobAssumption
  <2>4. 1 \in Workers /\ \A w \in 1 .. NThreads : w \in Workers
    BY JobAssumption, SMTT(60) DEF Workers
  <2> QED  BY <2>1, <2>2, <2>3, <2>4 DEF Phases, WorkerAt, MainAt
<1>2. Phases /\ [Next]_vars => Phases'
  <2>1. ASSUME Phases, UNCHANGED vars PROVE Phases'
    BY <2>1 DEF Phases, vars, jm, syncq
  <2> QED  BY <2>1, PhasesStep DEF Next
<1> QED  BY <1>1, <1>2, PTL DEF Spec

(* Nobody touches the queue or its semaphores after job_manager_cleanup:   *)
(* the tail of the sem_post that released Main is over, because Main has   *)
(* also joined every worker.                                               *)
THEOREM CleanupIsLast == Spec => []NoUseAfterCleanup
<1>1. QTypeOK /\ Phases => NoUseAfterCleanup
  BY JobAssumption DEF Phases, NoUseAfterCleanup, QTypeOK
<1> QED  BY <1>1, UsesQueue, QTypeCorrect, PhasesKept, PTL
-----------------------------------------------------------------------------
(* t carries an element to the queue; w has one from the queue and has not *)
(* yet looked at it.                                                       *)
Carries(t) == pc[t] \in Bringing
Holds(w) == at[w] = "got" /\ pc[w] \in Handed \cup Leaving
Stopping == {"pill", "ack", "join", "cleanup", "gone"}    \* inside or after job_manager_wait

(* In the order s, no job that is still to do and no job twice, and no job *)
(* after a stop request.                                                   *)
WellStored(s, S) ==
  /\ \A a \in 1 .. Len(s) : s[a] \notin S
  /\ \A a, b \in 1 .. Len(s) : s[a] = s[b] /\ s[a] \in Jobs => a = b
  /\ \A a, b \in 1 .. Len(s) : s[a] = NULL /\ s[b] \in Jobs => b < a

(* Every job is still to be submitted, or on its way to the queue, or has  *)
(* been stored, once.                                                      *)
Inward ==
  /\ todo \subseteq Jobs
  /\ \A t \in Threads : on[t] = JM
  /\ \A w \in Workers : pc[w] \in Asking \cup Handed \cup Leaving
  /\ \A t \in Threads \ Workers : pc[t] \in Bringing \cup Brought \cup Leaving
  /\ \A t \in Threads : Carries(t) /\ val[t] = NULL => at[Main] \in Stopping
  /\ \A t \in Threads : Carries(t) => val[t] \notin todo /\ (val[t] \in Jobs => ~ Occurs(val[t], log[JM]))
  /\ \A t, u \in Threads : Carries(t) /\ Carries(u) /\ val[t] = val[u] /\ val[t] \in Jobs => t = u
  /\ WellStored(log[JM], todo)
  /\ \A j \in Jobs : j \in todo \/ Occurs(j, log[JM]) \/ \E t \in Threads : Carries(t) /\ val[t] = j
  /\ at[Main] \in Stopping => \A j \in Jobs : Occurs(j, log[JM])
  /\ Occurs(NULL, log[JM]) => at[Main] \in Stopping

(* A step that neither brings nor stores anything, nor starts              *)
(* job_manager_wait, keeps the way in.                                     *)
LEMMA InwardSame ==
  ASSUME Inward, UNCHANGED <<todo, log>>,
         \A t \in Threads : on'[t] = JM,
         \A w \in Workers : pc'[w] \in Asking \cup Handed \cup Leaving,
         \A t \in Threads \ Workers : pc'[t] \in Bringing \cup Brought \cup Leaving,
         \A t \in Threads : (Carries(t)' <=> Carries(t)) /\ (Carries(t) => val'[t] = val[t]),
         at'[Main] \in Stopping <=> at[Main] \in Stopping
  PROVE  Inward'
  BY DEF Inward

(* A thread that carries an element stores it. *)
LEMMA InwardStore ==
  ASSUME InOrder, Inward, NEW t \in Threads, Carries(t), Goto(t, "enqunlock"), UNCHANGED <<on, val, todo, at>>,
         log' = [log EXCEPT ![on[t]] = Append(@, val[t])]
  PROVE  Inward'
<1> DEFINE L == log[JM]
           v == val[t]
           M == Append(L, v)
<1>1. JM \in Queues /\ on[t] = JM /\ L \in Seq(Value) /\ v \in Value /\ log \in [Queues -> Seq(Value)]
  BY SyncQAssumption DEF InOrder, QTypeOK, Inward, JM, Carries, Bringing
<1>2. log'[JM] = M
  BY <1>1
<1>3. /\ Len(L) \in Nat /\ Len(M) = Len(L) + 1 /\ M[Len(L) + 1] = v
      /\ \A k \in 1 .. Len(L) : M[k] = L[k]
  BY <1>1, SMTT(60)
<1>4. \A x : Occurs(x, M) <=> Occurs(x, L) \/ x = v
  BY <1>1, OccursAppend
<1>5. /\ \A u \in Threads : Carries(u)' <=> Carries(u) /\ u # t
      /\ \A u \in Threads : pc'[u] = IF u = t THEN "enqunlock" ELSE pc[u]
  BY DEF Carries, Goto, InOrder, QTypeOK, Bringing
<1>6. t \notin Workers /\ v \notin todo /\ (v \in Jobs => ~ Occurs(v, L)) /\ (v = NULL => at[Main] \in Stopping)
  BY DEF Inward, Carries, Bringing, Asking, Handed, Leaving
<1>7. v \in Jobs \/ v = NULL
  BY <1>1, JobAssumption
<1>8. \A k \in 1 .. Len(M) : (k \in 1 .. Len(L) /\ M[k] = L[k]) \/ (k = Len(L) + 1 /\ M[k] = v)
  BY <1>3, SMTT(60)
<1> HIDE DEF L, M, v
<1>9. \A u \in Threads \ Workers : pc'[u] \in Bringing \cup Brought \cup Leaving
  BY <1>5, <1>6 DEF Inward, Brought
<1>10. \A w \in Workers : pc'[w] \in Asking \cup Handed \cup Leaving
  BY <1>5, <1>6, JobAssumption DEF Inward
<1>11. \A u \in Threads : Carries(u)' => val[u] \notin todo /\ (val[u] \in Jobs => ~ Occurs(val[u], M))
  BY <1>4, <1>5 DEF Inward, L, v
<1>12. \A a \in 1 .. Len(M) : M[a] \notin todo
  BY <1>6, <1>8 DEF Inward, WellStored, L
<1>13. \A a, b \in 1 .. Len(M) : M[a] = M[b] /\ M[a] \in Jobs => a = b
  <2>1. ASSUME v \in Jobs, NEW a \in 1 .. Len(L) PROVE L[a] # v
    BY <1>6, <2>1 DEF Occurs
  <2> QED  BY <1>8, <2>1, SMTT(60) DEF Inward, WellStored, L
<1>14. \A j \in Jobs : j \in todo \/ Occurs(j, M) \/ \E u \in Threads : Carries(u)' /\ val[u] = j
  BY <1>4, <1>5 DEF Inward, L, v
<1>15. at[Main] \in Stopping => \A j \in Jobs : Occurs(j, M)
  BY <1>4 DEF Inward, L
<1>16. Occurs(NULL, M) => at[Main] \in Stopping
  BY <1>4, <1>6 DEF Inward, L
<1>17. \A a, b \in 1 .. Len(M) : M[a] = NULL /\ M[b] \in Jobs => b < a
  <2>1. v \in Jobs => ~ Occurs(NULL, M)
    BY <1>4, <1>6, JobAssumption DEF Inward, L
  <2>2. v \in Jobs => \A a \in 1 .. Len(M) : M[a] # NULL
    BY <2>1 DEF Occurs
  <2>3. ASSUME v = NULL, NEW a \in 1 .. Len(M), NEW b \in 1 .. Len(M), M[a] = NULL, M[b] \in Jobs PROVE b < a
    <3>1. b \in 1 .. Len(L) /\ M[b] = L[b]
      BY <1>8, <2>3, JobAssumption
    <3>2. CASE a \in 1 .. Len(L) /\ M[a] = L[a]
      BY <2>3, <3>1, <3>2 DEF Inward, WellStored, L
    <3>3. CASE a = Len(L) + 1
      BY <1>3, <3>1, <3>3, SMTT(60)
    <3> QED  BY <1>8, <3>2, <3>3
  <2> QED  BY <1>7, <2>2, <2>3
<1>18. \A x : Occurs(x, log[JM])' <=> Occurs(x, M)
  BY <1>2 DEF Occurs
<1>19. /\ \A u \in Threads : Carries(u)' /\ val[u] = NULL => at[Main] \in Stopping
       /\ \A u, w \in Threads : Carries(u)' /\ Carries(w)' /\ val[u] = val[w] /\ val[u] \in Jobs => u = w
       /\ todo \subseteq Jobs /\ \A u \in Threads : on[u] = JM
  BY <1>5 DEF Inward
<1>20. UNCHANGED val /\ UNCHANGED todo /\ UNCHANGED at /\ UNCHANGED on
  OBVIOUS
<1>21. /\ todo' \subseteq Jobs /\ \A u \in Threads : on'[u] = JM
       /\ \A u \in Threads : Carries(u)' /\ val'[u] = NULL => at'[Main] \in Stopping
       /\ \A u, w \in Threads : Carries(u)' /\ Carries(w)' /\ val'[u] = val'[w] /\ val'[u] \in Jobs => u = w
  BY <1>19, <1>20
<1>22. WellStored(log[JM], todo)'
  <2>1. WellStored(M, todo)
    BY <1>12, <1>13, <1>17 DEF WellStored
  <2> QED  BY <1>2, <1>20, <2>1
<1>23. /\ \A u \in Threads : Carries(u)' => val'[u] \notin todo' /\ (val'[u] \in Jobs => ~ Occurs(val[u], log[JM])')
       /\ \A j \in Jobs : j \in todo' \/ Occurs(j, log[JM])' \/ \E u \in Threads : Carries(u)' /\ val'[u] = j
       /\ at'[Main] \in Stopping => \A j \in Jobs : Occurs(j, log[JM])'
       /\ Occurs(NULL, log[JM])' => at'[Main] \in Stopping
  BY <1>11, <1>14, <1>15, <1>16, <1>18, <1>20
<1> QED  BY <1>9, <1>10, <1>21, <1>22, <1>23, Zenon DEF Inward

(* A thread begins to carry a job or a stop request. *)
LEMMA InwardCall ==
  ASSUME InOrder, Inward, NEW t \in Threads \ Workers, NEW v, EnqCall(t, JM, v),
         \/ v \in todo /\ todo' = todo \ {v} /\ UNCHANGED at
         \/ v = NULL /\ UNCHANGED todo /\ at[Main] \in Stopping /\ at'[Main] \in Stopping
  PROVE  Inward'
<1>1. /\ \A u \in Threads : pc'[u] = IF u = t THEN "notfull" ELSE pc[u]
      /\ \A u \in Threads : val'[u] = IF u = t THEN v ELSE val[u]
      /\ \A u \in Threads : on'[u] = IF u = t THEN JM ELSE on[u]
      /\ UNCHANGED log /\ pc[t] = "out"
  BY DEF EnqCall, Goto, Set, hist, InOrder, QTypeOK
<1>2. \A u \in Threads : Carries(u)' <=> Carries(u) \/ u = t
  BY <1>1 DEF Carries, Bringing
<1>3. todo' \subseteq todo /\ v \notin todo' /\ (at'[Main] \in Stopping <=> at[Main] \in Stopping)
  BY JobAssumption DEF Inward
<1>4. WellStored(log[JM], todo)'
  BY <1>1, <1>3 DEF Inward, WellStored
<1>5. v \in Jobs => v \in todo /\ ~ Occurs(v, log[JM])
  BY JobAssumption, SMTT(60) DEF Inward, WellStored, Occurs
<1>6. /\ \A u \in Threads : on'[u] = JM
      /\ \A w \in Workers : pc'[w] \in Asking \cup Handed \cup Leaving
      /\ \A u \in Threads \ Workers : pc'[u] \in Bringing \cup Brought \cup Leaving
  BY <1>1, JobAssumption DEF Inward, Bringing
<1>7. \A u \in Threads : Carries(u)' /\ val'[u] = NULL => at'[Main] \in Stopping
  BY <1>1, <1>2, <1>3, JobAssumption, SMTT(60) DEF Inward
<1>8. \A u \in Threads : Carries(u)' => val'[u] \notin todo' /\ (val'[u] \in Jobs => ~ Occurs(val[u], log[JM])')
  BY <1>1, <1>2, <1>3, <1>5 DEF Inward
<1>9. \A u, w \in Threads : Carries(u)' /\ Carries(w)' /\ val'[u] = val'[w] /\ val'[u] \in Jobs => u = w
  BY <1>1, <1>2, <1>5, SMTT(60) DEF Inward
<1>10. \A j \in Jobs : j \in todo' \/ Occurs(j, log[JM])' \/ \E u \in Threads : Carries(u)' /\ val'[u] = j
  <2> SUFFICES ASSUME NEW j \in Jobs PROVE j \in todo' \/ Occurs(j, log[JM])' \/ \E u \in Threads : Carries(u)' /\ val'[u] = j
    OBVIOUS
  <2>1. CASE j \in todo
    BY <1>1, <1>2, <2>1
  <2>2. CASE Occurs(j, log[JM])
    BY <1>1, <2>2
  <2>3. ASSUME NEW u \in Threads, Carries(u), val[u] = j PROVE Carries(u)' /\ val'[u] = j
    BY <1>1, <1>2, <2>3 DEF Carries, Bringing
  <2> QED  BY <2>1, <2>2, <2>3 DEF Inward
<1>11. /\ at'[Main] \in Stopping => \A j \in Jobs : Occurs(j, log[JM])'
       /\ Occurs(NULL, log[JM])' => at'[Main] \in Stopping
  BY <1>1, <1>3 DEF Inward
<1>12. todo' \subseteq Jobs
  BY <1>3 DEF Inward
<1> QED  BY <1>4, <1>6, <1>7, <1>8, <1>9, <1>10, <1>11, <1>12, Zenon DEF Inward

(* Every step of the manager keeps the way in. *)
LEMMA InwardStep == ASSUME InOrder, Phases, Inward, NEW t \in Threads, Step(t), QStep(t) => Seen(t) PROVE Inward'
<1>0. /\ Main \in Threads \ Workers /\ Workers \subseteq Threads /\ NULL \notin Jobs
      /\ pc \in [Threads -> DOMAIN [l \in Bringing \cup Brought \cup Asking \cup Handed \cup Leaving |-> l]]
      /\ DOMAIN val = Threads /\ DOMAIN on = Threads /\ DOMAIN at = Threads
  BY JobAssumption DEF InOrder, QTypeOK, Phases, Bringing, Brought, Asking, Handed, Leaving
<1>1. CASE QStep(t) /\ UNCHANGED jm
  <2>0. UNCHANGED <<at, todo, on>>
    BY <1>1 DEF jm, Seen
  <2>1. ASSUME NEW l, Goto(t, l), Quietly(pc[t], l), UNCHANGED <<val, hist>> PROVE Inward'
    <3>1. \A u \in Threads : pc'[u] = IF u = t THEN l ELSE pc[u]
      BY <1>0, <2>1 DEF Goto
    <3>2. /\ pc[t] \in Bringing <=> l \in Bringing
          /\ pc[t] \in Asking \cup Handed \cup Leaving => l \in Asking \cup Handed \cup Leaving
          /\ pc[t] \in Bringing \cup Brought \cup Leaving => l \in Bringing \cup Brought \cup Leaving
      BY <2>1 DEF Quietly, Bringing, Brought, Asking, Handed, Leaving
    <3>3. \A u \in Threads : (Carries(u)' <=> Carries(u)) /\ (Carries(u) => val'[u] = val[u])
      BY <2>1, <3>1, <3>2 DEF Carries
    <3>4. /\ \A u \in Threads : on'[u] = JM
          /\ \A w \in Workers : pc'[w] \in Asking \cup Handed \cup Leaving
          /\ \A u \in Threads \ Workers : pc'[u] \in Bringing \cup Brought \cup Leaving
      BY <1>0, <2>0, <3>1, <3>2 DEF Inward
    <3>5. UNCHANGED <<todo, log>> /\ (at'[Main] \in Stopping <=> at[Main] \in Stopping)
      BY <2>0, <2>1 DEF hist
    <3> QED  BY <3>3, <3>4, <3>5, InwardSame, Zenon
  <2>2. ASSUME pc[t] \in Bringing, Goto(t, "enqunlock"), UNCHANGED <<val, out>>,
               log' = [log EXCEPT ![on[t]] = Append(@, val[t])]
        PROVE  Inward'
    BY <2>0, <2>2, InwardStore DEF Carries
  <2>3. ASSUME pc[t] \in Asking, Goto(t, "dequnlock"), UNCHANGED log, NEW v, val' = [val EXCEPT ![t] = v] PROVE Inward'
    <3>1. \A u \in Threads : pc'[u] = IF u = t THEN "dequnlock" ELSE pc[u]
      BY <1>0, <2>3 DEF Goto
    <3>2. \A u \in Threads : val'[u] = IF u = t THEN v ELSE val[u]
      BY <1>0, <2>3
    <3>3. t \in Workers /\ ~ Carries(t) /\ "dequnlock" \in Handed /\ "dequnlock" \notin Bringing
      BY <2>3 DEF Inward, Carries, Asking, Bringing, Brought, Leaving, Handed
    <3>4. \A u \in Threads : (Carries(u)' <=> Carries(u)) /\ (Carries(u) => val'[u] = val[u])
      BY <3>1, <3>2, <3>3 DEF Carries
    <3>5. /\ \A u \in Threads : on'[u] = JM
          /\ \A w \in Workers : pc'[w] \in Asking \cup Handed \cup Leaving
          /\ \A u \in Threads \ Workers : pc'[u] \in Bringing \cup Brought \cup Leaving
      BY <1>0, <2>0, <3>1, <3>3 DEF Inward
    <3>6. UNCHANGED <<todo, log>> /\ (at'[Main] \in Stopping <=> at[Main] \in Stopping)
      BY <2>0, <2>3
    <3> QED  BY <3>4, <3>5, <3>6, InwardSame, Zenon
  <2> QED  BY <1>1, <2>1, <2>2, <2>3 DEF Seen, hist
<1>2. CASE t \in Workers /\ Get(t)
  <2>1. /\ UNCHANGED <<todo, log>> /\ pc[t] = "out"
        /\ \A u \in Threads : pc'[u] = IF u = t THEN "notempty" ELSE pc[u]
        /\ \A u \in Threads : val'[u] = IF u = t THEN NoThread ELSE val[u]
        /\ \A u \in Threads : on'[u] = IF u = t THEN JM ELSE on[u]
        /\ at'[Main] = at[Main]
    BY <1>0, <1>2 DEF Get, DeqCall, Goto, Set, Move, hist
  <2>2. "notempty" \in Asking /\ "notempty" \notin Bringing /\ "out" \notin Bringing
    BY DEF Asking, Bringing
  <2>3. \A u \in Threads : (Carries(u)' <=> Carries(u)) /\ (Carries(u) => val'[u] = val[u])
    BY <2>1, <2>2 DEF Carries
  <2>4. /\ \A u \in Threads : on'[u] = JM
        /\ \A w \in Workers : pc'[w] \in Asking \cup Handed \cup Leaving
        /\ \A u \in Threads \ Workers : pc'[u] \in Bringing \cup Brought \cup Leaving
    BY <1>0, <1>2, <2>1, <2>2 DEF Inward
  <2>5. UNCHANGED <<todo, log>> /\ (at'[Main] \in Stopping <=> at[Main] \in Stopping)
    BY <2>1
  <2> QED  BY <2>3, <2>4, <2>5, InwardSame, Zenon
<1>3. CASE UNCHANGED syncq /\ UNCHANGED todo /\ (at'[Main] \in Stopping <=> at[Main] \in Stopping)
  <2>1. UNCHANGED <<todo, log, pc, val, on>>
    BY <1>3 DEF syncq
  <2> QED  BY <1>3, <2>1, InwardSame DEF Inward, Carries
<1>4. CASE t \in Workers /\ (GotNull(t) \/ Run(t) \/ PostDone(t) \/ Exit(t))
  <2>1. UNCHANGED syncq /\ UNCHANGED todo /\ at'[Main] = at[Main]
    BY <1>0, <1>4 DEF GotNull, Run, PostDone, Exit, Move
  <2> QED  BY <1>3, <2>1
<1>5. CASE t \in Submitters \cup {Main} /\ Submit(t)
  <2>1. PICK j \in todo : EnqCall(t, JM, j) /\ todo' = todo \ {j} /\ UNCHANGED at
    BY <1>5 DEF Submit
  <2> QED  BY <1>0, <1>5, <2>1, InwardCall, JobAssumption
<1>6. CASE Create
  BY <1>0, <1>3, <1>6, JobAssumption DEF Create, Move, Stopping, Phases
<1>7. CASE Pill
  BY <1>0, <1>7, InwardCall DEF Pill, Move, Stopping
<1>8. CASE Ack \/ Join \/ Cleanup
  BY <1>0, <1>3, <1>8 DEF Ack, Join, Cleanup, Move, Stopping
<1>9. CASE Wait
  <2>1. /\ UNCHANGED <<todo, log, pc, val, on>> /\ at'[Main] = "pill" /\ todo = {}
        /\ \A u \in Submitters \cup {Main} : pc[u] = "out"
    BY <1>0, <1>9 DEF Wait, Move, syncq
  <2>2. \A u \in Threads : ~ Carries(u)
    BY <2>1, JobAssumption DEF Carries, Inward, Bringing, Asking, Handed, Leaving
  <2>3. \A j \in Jobs : Occurs(j, log[JM])
    BY <2>1, <2>2 DEF Inward
  <2>4. at'[Main] \in Stopping /\ UNCHANGED <<Occurs(NULL, log[JM]), WellStored(log[JM], todo)>>
    BY <2>1 DEF Stopping
  <2>5. \A u \in Threads : ~ Carries(u)'
    BY <2>1, <2>2 DEF Carries
  <2>6. \A j \in Jobs : Occurs(j, log[JM])'
    BY <2>1, <2>3
  <2>7. /\ todo' \subseteq Jobs /\ \A u \in Threads : on'[u] = JM
        /\ \A w \in Workers : pc'[w] \in Asking \cup Handed \cup Leaving
        /\ \A u \in Threads \ Workers : pc'[u] \in Bringing \cup Brought \cup Leaving
        /\ WellStored(log[JM], todo)'
    BY <2>1 DEF Inward
  <2> QED  BY <2>4, <2>5, <2>6, <2>7, Zenon DEF Inward
<1> QED  BY <1>1, <1>2, <1>4, <1>5, <1>6, <1>7, <1>8, <1>9 DEF Step
-----------------------------------------------------------------------------
(* Every element taken is with one worker or, if it is a job, has been run *)
(* once; a worker that stops has been told to.                             *)
Outward ==
  /\ ran \in Seq(Jobs)
  /\ \A w \in Workers : Holds(w) => Occurs(val[w], out[JM]) /\ ~ Occurs(val[w], ran)
  /\ \A v, w \in Workers : Holds(v) /\ Holds(w) /\ val[v] = val[w] /\ val[v] \in Jobs => v = w
  /\ \A a \in 1 .. Len(ran) : Occurs(ran[a], out[JM])
  /\ \A a, b \in 1 .. Len(ran) : ran[a] = ran[b] => a = b
  /\ \A j \in Jobs : Occurs(j, out[JM]) => Occurs(j, ran) \/ \E w \in Workers : Holds(w) /\ val[w] = j
  /\ \A w \in Workers : at[w] \in {"post", "wake", "exited"} => Occurs(NULL, out[JM])

(* A step that takes nothing from the queue and runs no job. *)
LEMMA OutwardSame ==
  ASSUME Outward, ran' = ran, out'[JM] = out[JM],
         \A w \in Workers : (Holds(w)' <=> Holds(w)) /\ (Holds(w) => val'[w] = val[w]),
         \A w \in Workers : at'[w] \in {"post", "wake", "exited"} => at[w] \in {"post", "wake", "exited"}
  PROVE  Outward'
  BY DEF Outward

(* The oldest element left is not a job that was taken before. *)
LEMMA TakenAnew ==
  ASSUME InOrder, Inward, NEW n, n = Len(out[JM]) + 1, n \in 1 .. Len(log[JM]), log[JM][n] \in Jobs
  PROVE  ~ Occurs(log[JM][n], out[JM])
<1>1. JM \in Queues
  BY SyncQAssumption DEF JM
<1>2. Len(out[JM]) \in Nat
  BY <1>1, SMTT(60) DEF InOrder, QTypeOK
<1>3. ASSUME NEW k \in 1 .. Len(out[JM]), out[JM][k] = log[JM][n] PROVE FALSE
  <2>1. k <= Len(log[JM]) /\ log[JM][k] = log[JM][n]
    BY <1>1, <1>3 DEF InOrder
  <2>2. k \in 1 .. Len(log[JM]) /\ k # n
    BY <1>2, <2>1, SMTT(60)
  <2> QED  BY <2>1, <2>2 DEF Inward, WellStored
<1> QED  BY <1>3 DEF Occurs

(* A worker takes the oldest element left. *)
LEMMA OutwardFetch ==
  ASSUME InOrder, Inward, Outward, NEW t \in Workers, at[t] = "got", pc[t] \in Asking, Goto(t, "dequnlock"),
         NEW n, n = Len(out[JM]) + 1, n \in 1 .. Len(log[JM]), UNCHANGED <<at, ran>>,
         val' = [val EXCEPT ![t] = log[JM][n]], out' = [out EXCEPT ![JM] = Append(@, log[JM][n])]
  PROVE  Outward'
<1> DEFINE v == log[JM][n]
           M == Append(out[JM], v)
<1>1. JM \in Queues /\ Workers \subseteq Threads
  BY SyncQAssumption, JobAssumption DEF JM
<1>2. out[JM] \in Seq(Value) /\ v \in Value /\ DOMAIN val = Threads /\ DOMAIN pc = Threads
  BY <1>1, SMTT(60) DEF InOrder, QTypeOK
<1>3. out'[JM] = M
  BY <1>1 DEF InOrder, QTypeOK
<1>4. \A x : Occurs(x, M) <=> Occurs(x, out[JM]) \/ x = v
  BY <1>2, OccursAppend, SMTT(60)
<1>5. v \in Jobs => ~ Occurs(v, out[JM])
  BY TakenAnew
<1>6. ~ Occurs(v, ran)
  <2> SUFFICES ASSUME NEW a \in 1 .. Len(ran), ran[a] = v PROVE FALSE
    BY DEF Occurs
  <2>1. ran[a] \in Jobs /\ Occurs(ran[a], out[JM])
    BY SMTT(60) DEF Outward
  <2> QED  BY <1>5, <2>1
<1>7. /\ \A w \in Workers : Holds(w)' <=> Holds(w) \/ w = t
      /\ ~ Holds(t) /\ val'[t] = v /\ \A w \in Workers : w # t => val'[w] = val[w]
  BY <1>1, <1>2 DEF Holds, Goto, Asking, Handed, Leaving
<1> HIDE DEF v, M
<1>8. \A w \in Workers : Holds(w)' => Occurs(val'[w], M) /\ ~ Occurs(val'[w], ran)
  BY <1>4, <1>6, <1>7 DEF Outward
<1>9. \A u, w \in Workers : Holds(u)' /\ Holds(w)' /\ val'[u] = val'[w] /\ val'[u] \in Jobs => u = w
  BY <1>5, <1>7, SMTT(60) DEF Outward
<1>10. \A j \in Jobs : Occurs(j, M) => Occurs(j, ran) \/ \E w \in Workers : Holds(w)' /\ val'[w] = j
  <2> SUFFICES ASSUME NEW j \in Jobs, Occurs(j, M), ~ Occurs(j, ran)
               PROVE  \E w \in Workers : Holds(w)' /\ val'[w] = j
    OBVIOUS
  <2>1. CASE j = v
    BY <1>7, <2>1
  <2>2. CASE j # v
    <3>1. PICK w \in Workers : Holds(w) /\ val[w] = j
      BY <1>4, <2>2 DEF Outward
    <3> QED  BY <1>7, <3>1
  <2> QED  BY <2>1, <2>2
<1>11. /\ \A a \in 1 .. Len(ran) : Occurs(ran[a], M)
       /\ \A w \in Workers : at[w] \in {"post", "wake", "exited"} => Occurs(NULL, M)
  BY <1>4 DEF Outward
<1>12. ran \in Seq(Jobs) /\ \A a, b \in 1 .. Len(ran) : ran[a] = ran[b] => a = b
  BY DEF Outward
<1>13. ran' = ran /\ at' = at
  OBVIOUS
<1>14. \A w \in Workers : Holds(w)' => Occurs(val'[w], out'[JM]) /\ ~ Occurs(val'[w], ran')
  BY <1>3, <1>8, <1>13
<1>15. \A a \in 1 .. Len(ran') : Occurs(ran'[a], out'[JM])
  BY <1>3, <1>11, <1>13
<1>16. \A j \in Jobs : Occurs(j, out'[JM]) => Occurs(j, ran') \/ \E w \in Workers : Holds(w)' /\ val'[w] = j
  BY <1>3, <1>10, <1>13
<1>17. \A w \in Workers : at'[w] \in {"post", "wake", "exited"} => Occurs(NULL, out'[JM])
  BY <1>3, <1>11, <1>13
<1>18. ran' \in Seq(Jobs) /\ \A a, b \in 1 .. Len(ran') : ran'[a] = ran'[b] => a = b
  BY <1>12, <1>13
<1> QED  BY <1>9, <1>14, <1>15, <1>16, <1>17, <1>18 DEF Outward

(* A worker runs the job it holds. *)
LEMMA OutwardRun ==
  ASSUME InOrder, Outward, NEW t \in Workers, Run(t), Workers \subseteq DOMAIN at PROVE Outward'
<1> DEFINE v == val[t]
           M == Append(ran, v)
<1>0. /\ JM \in Queues /\ Workers \subseteq Threads
      /\ at[t] = "got" /\ pc[t] = "out" /\ v # NULL /\ ran' = M
      /\ UNCHANGED <<pc, val, out>> /\ at' = [at EXCEPT ![t] = "loop"]
  BY SyncQAssumption, JobAssumption DEF JM, Run, Move, syncq
<1>1. Holds(t) /\ \A w \in Workers : Holds(w)' <=> Holds(w) /\ w # t
  BY <1>0 DEF Holds, Leaving
<1>2. Occurs(v, out[JM]) /\ ~ Occurs(v, ran) /\ ran \in Seq(Jobs)
  BY <1>1 DEF Outward
<1>3. v \in Jobs
  <2>1. \A a \in 1 .. Len(out[JM]) : out[JM][a] \in Value
    BY <1>0, SMTT(60) DEF InOrder, QTypeOK
  <2> QED  BY <1>0, <1>2, <2>1, JobAssumption DEF Occurs
<1>4. /\ Len(ran) \in Nat /\ Len(M) = Len(ran) + 1 /\ M[Len(ran) + 1] = v /\ M \in Seq(Jobs)
      /\ \A k \in 1 .. Len(ran) : M[k] = ran[k]
  BY <1>2, <1>3, SMTT(60)
<1>5. \A x : Occurs(x, M) <=> Occurs(x, ran) \/ x = v
  BY <1>2, <1>3, OccursAppend
<1> HIDE DEF M
<1>6. \A k \in 1 .. Len(M) : (k \in 1 .. Len(ran) /\ M[k] = ran[k]) \/ (k = Len(ran) + 1 /\ M[k] = v)
  BY <1>4, SMTT(60)
<1> HIDE DEF v
<1>7. \A w \in Workers : Holds(w)' => Occurs(val[w], out[JM]) /\ ~ Occurs(val[w], M)
  BY <1>1, <1>3, <1>5 DEF Outward, v
<1>8. \A u, w \in Workers : Holds(u)' /\ Holds(w)' /\ val[u] = val[w] /\ val[u] \in Jobs => u = w
  BY <1>1 DEF Outward
<1>9. \A a \in 1 .. Len(M) : Occurs(M[a], out[JM])
  BY <1>2, <1>6 DEF Outward
<1>10. \A a, b \in 1 .. Len(M) : M[a] = M[b] => a = b
  <2>1. \A a \in 1 .. Len(ran) : ran[a] # v
    BY <1>2 DEF Occurs
  <2> QED  BY <1>6, <2>1 DEF Outward
<1>11. \A j \in Jobs : Occurs(j, out[JM]) => Occurs(j, M) \/ \E w \in Workers : Holds(w)' /\ val[w] = j
  BY <1>1, <1>5 DEF Outward, v
<1>12. \A w \in Workers : at'[w] \in {"post", "wake", "exited"} => Occurs(NULL, out[JM])
  <2>1. \A w \in Workers : at'[w] \in {"post", "wake", "exited"} => at[w] \in {"post", "wake", "exited"}
    BY <1>0
  <2> QED  BY <2>1 DEF Outward
<1>13. ran' = M /\ out' = out /\ val' = val
  BY <1>0
<1>14. /\ \A w \in Workers : Holds(w)' => Occurs(val'[w], out'[JM]) /\ ~ Occurs(val'[w], ran')
       /\ \A u, w \in Workers : Holds(u)' /\ Holds(w)' /\ val'[u] = val'[w] /\ val'[u] \in Jobs => u = w
       /\ \A w \in Workers : at'[w] \in {"post", "wake", "exited"} => Occurs(NULL, out'[JM])
  BY <1>7, <1>8, <1>12, <1>13
<1>15. /\ \A a \in 1 .. Len(ran') : Occurs(ran'[a], out'[JM])
       /\ \A a, b \in 1 .. Len(ran') : ran'[a] = ran'[b] => a = b
       /\ ran' \in Seq(Jobs)
  BY <1>4, <1>9, <1>10, <1>13
<1>16. \A j \in Jobs : Occurs(j, out'[JM]) => Occurs(j, ran') \/ \E w \in Workers : Holds(w)' /\ val'[w] = j
  BY <1>11, <1>13
<1> QED  BY <1>14, <1>15, <1>16 DEF Outward

(* A worker that holds a stop request goes on to acknowledge it. *)
LEMMA OutwardStop ==
  ASSUME Outward, NEW t \in Workers, GotNull(t), Workers \subseteq DOMAIN at PROVE Outward'
<1>1. /\ at[t] = "got" /\ pc[t] = "out" /\ val[t] = NULL /\ NULL \notin Jobs
      /\ UNCHANGED <<pc, val, out, ran>> /\ at' = [at EXCEPT ![t] = "post"]
  BY JobAssumption DEF GotNull, Move, syncq
<1>2. Holds(t) /\ \A w \in Workers : Holds(w)' <=> Holds(w) /\ w # t
  BY <1>1 DEF Holds, Leaving
<1>3. Occurs(NULL, out[JM])
  BY <1>1, <1>2 DEF Outward
<1>4. \A j \in Jobs : Occurs(j, out[JM]) => Occurs(j, ran) \/ \E w \in Workers : Holds(w)' /\ val[w] = j
  BY <1>1, <1>2 DEF Outward
<1>5. UNCHANGED <<val, out, ran>>
  BY <1>1
<1> QED  BY <1>2, <1>3, <1>4, <1>5 DEF Outward

(* Every step of the manager keeps the way out. *)
LEMMA OutwardStep ==
  ASSUME InOrder, Phases, Inward, Outward, NEW t \in Threads, Step(t), QStep(t) => Seen(t)
  PROVE  Outward'
<1>0. /\ Main \in Threads \ Workers /\ Workers \subseteq Threads /\ Workers \subseteq DOMAIN at
      /\ DOMAIN pc = Threads /\ DOMAIN val = Threads /\ DOMAIN at = Threads
  BY JobAssumption DEF InOrder, QTypeOK, Phases
<1>1. CASE QStep(t) /\ UNCHANGED jm
  <2>0. UNCHANGED <<at, ran>> /\ on[t] = JM
    BY <1>1 DEF jm, Inward
  <2>1. ASSUME NEW l, Goto(t, l), Quietly(pc[t], l), UNCHANGED <<val, hist>> PROVE Outward'
    <3>1. \A w \in Workers : pc'[w] = IF w = t THEN l ELSE pc[w]
      BY <1>0, <2>1 DEF Goto
    <3>2. t \in Workers => (pc[t] \in Handed \cup Leaving <=> l \in Handed \cup Leaving)
      BY <2>1 DEF Inward, Quietly, Bringing, Brought, Asking, Handed, Leaving
    <3>3. \A w \in Workers : Holds(w)' <=> Holds(w)
      BY <2>0, <3>1, <3>2 DEF Holds
    <3> QED  BY <2>0, <2>1, <3>3, OutwardSame DEF hist
  <2>2. ASSUME pc[t] \in Bringing, Goto(t, "enqunlock"), UNCHANGED <<val, out>> PROVE Outward'
    <3>1. t \notin Workers
      BY <2>2 DEF Inward, Bringing, Asking, Handed, Leaving
    <3>2. \A w \in Workers : pc'[w] = pc[w]
      BY <1>0, <2>2, <3>1 DEF Goto
    <3>3. \A w \in Workers : Holds(w)' <=> Holds(w)
      BY <2>0, <3>2 DEF Holds
    <3> QED  BY <2>0, <2>2, <3>3, OutwardSame
  <2>3. ASSUME pc[t] \in Asking, Goto(t, "dequnlock"),
               Len(out[JM]) + 1 \in 1 .. Len(log[JM]), val' = [val EXCEPT ![t] = log[JM][Len(out[JM]) + 1]],
               out' = [out EXCEPT ![JM] = Append(@, log[JM][Len(out[JM]) + 1])]
        PROVE  Outward'
    <3>1. t \in Workers /\ pc[t] # "out"
      BY <2>3 DEF Inward, Asking, Bringing, Brought, Leaving
    <3>2. at[t] = "got"
      BY <3>1 DEF Phases
    <3> QED  BY <2>0, <2>3, <3>1, <3>2, OutwardFetch
  <2> QED  BY <1>1, <2>0, <2>1, <2>2, <2>3 DEF Seen
<1>2. ASSUME UNCHANGED <<ran, out>>, \A w \in Workers : w # t => pc'[w] = pc[w] /\ val'[w] = val[w] /\ at'[w] = at[w],
             t \in Workers => ~ Holds(t) /\ ~ Holds(t)'
                              /\ (at'[t] \in {"post", "wake", "exited"} => at[t] \in {"post", "wake", "exited"})
      PROVE  Outward'
  <2>1. \A w \in Workers : (Holds(w)' <=> Holds(w)) /\ (Holds(w) => val'[w] = val[w])
    BY <1>2 DEF Holds
  <2>2. \A w \in Workers : at'[w] \in {"post", "wake", "exited"} => at[w] \in {"post", "wake", "exited"}
    BY <1>2
  <2> QED  BY <1>2, <2>1, <2>2, OutwardSame
<1>3. CASE t \in Workers /\ Get(t)
  BY <1>0, <1>2, <1>3 DEF Get, DeqCall, Goto, Set, Move, hist, Holds, Handed, Leaving
<1>4. CASE t \in Workers /\ (PostDone(t) \/ Exit(t))
  BY <1>0, <1>2, <1>4 DEF PostDone, Exit, Move, syncq, Holds
<1>5. CASE t \in Submitters \cup {Main} /\ Submit(t)
  BY <1>0, <1>2, <1>5, JobAssumption DEF Submit, EnqCall, Goto, Set, hist
<1>6. CASE t = Main /\ Pill
  BY <1>0, <1>2, <1>6 DEF Pill, EnqCall, Goto, Set, Move, hist
<1>7. CASE t = Main /\ (Wait \/ Ack \/ Join \/ Cleanup)
  BY <1>0, <1>2, <1>7 DEF Wait, Ack, Join, Cleanup, Move, syncq
<1>8. CASE Create
  <2>1. UNCHANGED <<ran, out, pc, val>> /\ i \in Workers /\ at[i] = "new"
    BY <1>8, SMTT(60) DEF Create, syncq, Phases, Workers
  <2>2. \A w \in Workers : at'[w] = at[w] \/ (w = i /\ at'[w] = "loop")
    BY <1>0, <1>8, <2>1 DEF Create, Move
  <2>3. \A w \in Workers : (Holds(w)' <=> Holds(w)) /\ (Holds(w) => val'[w] = val[w])
    BY <2>1, <2>2 DEF Holds
  <2>4. \A w \in Workers : at'[w] \in {"post", "wake", "exited"} => at[w] \in {"post", "wake", "exited"}
    BY <2>2
  <2> QED  BY <2>1, <2>3, <2>4, OutwardSame
<1> QED  BY <1>0, <1>1, <1>3, <1>4, <1>5, <1>6, <1>7, <1>8, OutwardRun, OutwardStop DEF Step
-----------------------------------------------------------------------------
(* The workers that have acknowledged a stop request: the semaphore done   *)
(* counts those that job_manager_wait has not yet counted off.             *)
Stopped == {w \in Workers : at[w] \in {"wake", "exited"}}
Acknowledged ==
  /\ done \in Nat /\ rem \in 0 .. NThreads
  /\ at[Main] \in {"pill", "ack"} => rem > 0
  /\ at[Main] \in {"join", "cleanup", "gone"} => rem = 0
  /\ Cardinality(Stopped) = done + (IF at[Main] \in Stopping THEN NThreads - rem ELSE 0)

(* There are NThreads workers, and some of them have stopped. *)
LEMMA StoppedCount ==
  /\ IsFiniteSet(Workers) /\ Cardinality(Workers) = NThreads
  /\ IsFiniteSet(Stopped) /\ Cardinality(Stopped) \in Nat
  /\ Cardinality(Stopped) >= NThreads => Stopped = Workers
<1>1. NThreads \in Nat /\ 1 \in Int /\ NThreads \in Int /\ ~ (1 > NThreads) /\ NThreads - 1 + 1 = NThreads
  BY JobAssumption, SMTT(60)
<1>2. IsFiniteSet(Workers) /\ Cardinality(Workers) = NThreads
  BY <1>1, FS_Interval DEF Workers
<1>3. Stopped \in SUBSET Workers
  BY DEF Stopped
<1>4. IsFiniteSet(Stopped) /\ Cardinality(Stopped) <= NThreads /\ (NThreads = Cardinality(Stopped) => Workers = Stopped)
  BY <1>2, <1>3, FS_Subset
<1>5. Cardinality(Stopped) \in Nat
  BY <1>4, FS_CardinalityType
<1>6. Cardinality(Stopped) >= NThreads => NThreads = Cardinality(Stopped)
  BY <1>1, <1>4, <1>5, SMTT(60)
<1> QED  BY <1>2, <1>4, <1>5, <1>6

(* Nobody stops, and job_manager_wait neither begins nor counts. *)
LEMMA AcknowledgedSame ==
  ASSUME Acknowledged, UNCHANGED <<done, rem>>, Stopped' = Stopped,
         \A S \in {Stopping, {"pill", "ack"}, {"join", "cleanup", "gone"}} : at'[Main] \in S <=> at[Main] \in S
  PROVE  Acknowledged'
  BY DEF Acknowledged

(* Every step of the manager keeps the count. *)
LEMMA AcknowledgedStep ==
  ASSUME Phases, Acknowledged, NEW t \in Threads, Step(t), QStep(t) => Seen(t) PROVE Acknowledged'
<1> DEFINE Sets == {Stopping, {"pill", "ack"}, {"join", "cleanup", "gone"}}
<1>0. /\ Main \in Threads \ Workers /\ Workers \subseteq Threads /\ DOMAIN at = Threads
      /\ NThreads \in Nat /\ done \in Nat /\ rem \in 0 .. NThreads
  BY JobAssumption DEF Phases, Acknowledged
<1>1. CASE QStep(t) /\ UNCHANGED jm
  BY <1>1, AcknowledgedSame DEF jm, Stopped
<1>2. CASE t \in Workers /\ (Get(t) \/ GotNull(t) \/ Run(t) \/ Exit(t))
  <2>1. UNCHANGED <<done, rem>> /\ at'[Main] = at[Main]
    BY <1>0, <1>2 DEF Get, GotNull, Run, Exit, Move
  <2>2. /\ \A w \in Workers : w # t => at'[w] = at[w]
        /\ at'[t] \in {"wake", "exited"} <=> at[t] \in {"wake", "exited"}
    BY <1>0, <1>2 DEF Get, GotNull, Run, Exit, Move
  <2>3. Stopped' = Stopped
    BY <2>2 DEF Stopped
  <2> QED  BY <2>1, <2>3, AcknowledgedSame
<1>3. CASE t \in Workers /\ PostDone(t)
  <2>1. /\ done' = done + 1 /\ rem' = rem /\ at[t] = "post"
        /\ \A u \in Threads : at'[u] = IF u = t THEN "wake" ELSE at[u]
    BY <1>0, <1>3 DEF PostDone, Move
  <2>2. Stopped' = Stopped \cup {t} /\ t \notin Stopped
    BY <1>0, <1>3, <2>1 DEF Stopped
  <2>3. Cardinality(Stopped') = Cardinality(Stopped) + 1
    BY <2>2, StoppedCount, FS_AddElement
  <2>4. at'[Main] = at[Main]
    BY <1>0, <1>3, <2>1
  <2>5. /\ Cardinality(Stopped) = done + (IF at[Main] \in Stopping THEN NThreads - rem ELSE 0)
        /\ at[Main] \in {"pill", "ack"} => rem > 0
        /\ at[Main] \in {"join", "cleanup", "gone"} => rem = 0
    BY DEF Acknowledged
  <2>6. done' \in Nat /\ Cardinality(Stopped') = done' + (IF at[Main] \in Stopping THEN NThreads - rem ELSE 0)
    BY <1>0, <2>1, <2>3, <2>5, SMTT(60)
  <2> QED  BY <1>0, <2>1, <2>4, <2>5, <2>6 DEF Acknowledged
<1>4. CASE t \in Submitters \cup {Main} /\ Submit(t)
  BY <1>4, AcknowledgedSame DEF Submit, Stopped
<1>5. ASSUME \A w \in Workers : at'[w] = at[w] PROVE Stopped' = Stopped
  BY <1>5 DEF Stopped
<1>6. CASE t = Main /\ (Pill \/ Join \/ Cleanup)
  <2>1. /\ UNCHANGED <<done, rem>> /\ \A w \in Workers : at'[w] = at[w]
        /\ \/ at[Main] = "pill" /\ at'[Main] = "ack"
           \/ at[Main] \in {"join", "cleanup"} /\ at'[Main] \in {"join", "cleanup", "gone"}
    BY <1>0, <1>6 DEF Pill, Join, Cleanup, Move
  <2>2. \A S \in Sets : at'[Main] \in S <=> at[Main] \in S
    BY <2>1 DEF Stopping
  <2> QED  BY <1>5, <2>1, <2>2, AcknowledgedSame
<1>7. CASE t = Main /\ Create
  <2>1. /\ UNCHANGED <<done, rem>> /\ i \in Workers /\ at[i] = "new" /\ at[Main] = "create"
    BY <1>7, SMTT(60) DEF Create, Phases, Workers
  <2>2. /\ \A w \in Workers : at'[w] = at[w] \/ (w = i /\ at'[w] = "loop")
        /\ at'[Main] \in {"create", "submit", "failed"}
    BY <1>0, <1>7, <2>1 DEF Create, Move
  <2>3. Stopped' = Stopped
    BY <2>1, <2>2 DEF Stopped
  <2>4. \A S \in Sets : at'[Main] \in S <=> at[Main] \in S
    BY <2>1, <2>2 DEF Stopping
  <2> QED  BY <2>1, <2>3, <2>4, AcknowledgedSame
<1>8. CASE t = Main /\ Wait
  <2>1. /\ done' = done /\ rem' = NThreads /\ at[Main] = "submit" /\ at'[Main] = "pill"
        /\ \A w \in Workers : at'[w] = at[w]
    BY <1>0, <1>8 DEF Wait, Move
  <2>2. Cardinality(Stopped) = done /\ NThreads > 0
    BY <1>0, <2>1, JobAssumption, SMTT(60) DEF Acknowledged, Stopping
  <2>3. Cardinality(Stopped') = done' + (NThreads - rem') /\ rem' \in 0 .. NThreads /\ rem' > 0
    BY <1>0, <1>5, <2>1, <2>2, SMTT(60)
  <2> QED  BY <1>0, <2>1, <2>3 DEF Acknowledged, Stopping
<1>9. CASE t = Main /\ Ack
  <2>1. /\ done' = done - 1 /\ done > 0 /\ rem' = rem - 1 /\ at[Main] = "ack"
        /\ at'[Main] = (IF rem = 1 THEN "join" ELSE "pill")
        /\ \A w \in Workers : at'[w] = at[w]
    BY <1>0, <1>9 DEF Ack, Move
  <2>2. Cardinality(Stopped) = done + (NThreads - rem) /\ rem > 0
    BY <2>1 DEF Acknowledged, Stopping
  <2>3. /\ Cardinality(Stopped') = done' + (NThreads - rem') /\ rem' \in 0 .. NThreads /\ done' \in Nat
        /\ rem = 1 => rem' = 0
        /\ rem # 1 => rem' > 0
    BY <1>0, <1>5, <2>1, <2>2, SMTT(60)
  <2> QED  BY <1>0, <2>1, <2>3 DEF Acknowledged, Stopping
<1> QED  BY <1>1, <1>2, <1>3, <1>4, <1>6, <1>7, <1>8, <1>9 DEF Step
-----------------------------------------------------------------------------
(* The jobs that failed in the workers S.  A worker's errors are its own   *)
(* failed jobs; Main's are those of the workers it has joined.             *)
FailedIn(S) == {j \in Jobs : failed[j] \in S}
Errors ==
  /\ failed \in [Jobs -> Workers \cup {NoThread}] /\ err \in [Threads -> Nat]
  /\ \A j \in Jobs : failed[j] # NoThread => Occurs(j, ran)
  /\ \A w \in Workers : err[w] = Cardinality(FailedIn({w}))
  /\ at[Main] \notin {"join", "cleanup", "gone"} => err[Main] = 0
  /\ at[Main] = "join" => err[Main] = Cardinality(FailedIn(1 .. i - 1))
  /\ at[Main] \in {"cleanup", "gone"} => err[Main] = Cardinality(FailedIn(Workers))

(* The jobs that failed in some workers can be counted. *)
LEMMA FailedFinite ==
  ASSUME NEW S PROVE IsFiniteSet(FailedIn(S)) /\ Cardinality(FailedIn(S)) \in Nat
<1>1. FailedIn(S) \in SUBSET Jobs /\ IsFiniteSet(Jobs)
  BY JobAssumption DEF FailedIn
<1>2. IsFiniteSet(FailedIn(S))
  BY <1>1, FS_Subset
<1> QED  BY <1>2, FS_CardinalityType

(* None failed in no workers; one more worker adds those that failed in it. *)
LEMMA FailedCount ==
  ASSUME NEW S, NEW w, w \notin S
  PROVE  /\ Cardinality(FailedIn({})) = 0
         /\ Cardinality(FailedIn(S \cup {w})) = Cardinality(FailedIn(S)) + Cardinality(FailedIn({w}))
<1>1. FailedIn({}) = {}
  BY DEF FailedIn
<1>2. FailedIn(S \cup {w}) = FailedIn(S) \cup FailedIn({w}) /\ FailedIn(S) \cap FailedIn({w}) = {}
  BY DEF FailedIn
<1>3. Cardinality(FailedIn(S) \cup FailedIn({w})) =
        Cardinality(FailedIn(S)) + Cardinality(FailedIn({w})) - Cardinality(FailedIn(S) \cap FailedIn({w}))
  BY FailedFinite, FS_Union
<1>4. Cardinality(FailedIn(S)) \in Nat /\ Cardinality(FailedIn({w})) \in Nat
  BY FailedFinite
<1>5. Cardinality(FailedIn({})) = 0 /\ Cardinality(FailedIn(S) \cap FailedIn({w})) = 0
  BY <1>1, <1>2, FS_EmptySet
<1>6. \A m, n \in Nat : m + n - 0 = m + n
  BY SMTT(60)
<1> QED  BY <1>2, <1>3, <1>4, <1>5, <1>6, Zenon

(* No job fails, nothing is summed up, and no job run is forgotten. *)
LEMMA ErrorsSame ==
  ASSUME Errors, UNCHANGED <<failed, err>>, \A j \in Jobs : Occurs(j, ran) => Occurs(j, ran'),
         at'[Main] = "join" => at[Main] = "join" /\ i' = i,
         \A S \in {{"join", "cleanup", "gone"}, {"cleanup", "gone"}} : at'[Main] \in S <=> at[Main] \in S
  PROVE  Errors'
<1>1. \A S : FailedIn(S)' = FailedIn(S)
  BY DEF FailedIn
<1> QED  BY <1>1 DEF Errors

(* The job that a worker runs fails. *)
LEMMA ErrorsRun ==
  ASSUME InOrder, Phases, Outward, Errors, NEW t \in Workers, Run(t),
         err' = [err EXCEPT ![t] = @ + 1], failed' = [failed EXCEPT ![val[t]] = t]
  PROVE  Errors'
<1> DEFINE v == val[t]
<1>0. /\ Main \in Threads /\ t # Main /\ Workers \subseteq Threads /\ DOMAIN at = Threads /\ NoThread \notin Workers
      /\ i \in Nat /\ NThreads \in Nat
  BY JobAssumption, SyncQAssumption DEF Phases
<1>1. /\ at[t] = "got" /\ pc[t] = "out" /\ v # NULL /\ ran' = Append(ran, v) /\ i' = i /\ at'[Main] = at[Main]
  BY <1>0 DEF Run, Move
<1>2. /\ Occurs(v, out[JM]) /\ ~ Occurs(v, ran) /\ ran \in Seq(Jobs)
  BY <1>1 DEF Outward, Holds, Leaving
<1>3. v \in Jobs
  <2>1. \A a \in 1 .. Len(out[JM]) : out[JM][a] \in Value
    BY SyncQAssumption, SMTT(60) DEF InOrder, QTypeOK, JM
  <2> QED  BY <1>1, <1>2, <2>1, JobAssumption DEF Occurs
<1>4. \A x : Occurs(x, ran') <=> Occurs(x, ran) \/ x = v
  BY <1>1, <1>2, <1>3, OccursAppend, SMTT(60)
<1>5. failed[v] = NoThread /\ \A j \in Jobs : failed'[j] = IF j = v THEN t ELSE failed[j]
  BY <1>2, <1>3 DEF Errors
<1>6. /\ FailedIn({t})' = FailedIn({t}) \cup {v} /\ v \notin FailedIn({t})
      /\ \A S \in SUBSET Workers : t \notin S => FailedIn(S)' = FailedIn(S)
  BY <1>0, <1>3, <1>5 DEF FailedIn
<1>7. Cardinality(FailedIn({t})') = Cardinality(FailedIn({t})) + 1
  BY <1>6, FailedFinite, FS_AddElement
<1>8. /\ err' \in [Threads -> Nat] /\ err'[t] = err[t] + 1 /\ \A u \in Threads : u # t => err'[u] = err[u]
  BY <1>0, SMTT(60) DEF Errors
<1>9. \A w \in Workers : err'[w] = Cardinality(FailedIn({w})')
  <2>1. err'[t] = Cardinality(FailedIn({t})')
    BY <1>7, <1>8 DEF Errors
  <2>2. ASSUME NEW w \in Workers, w # t PROVE err'[w] = Cardinality(FailedIn({w})')
    <3>1. FailedIn({w})' = FailedIn({w})
      BY <1>6, <2>2
    <3> QED  BY <1>0, <1>8, <2>2, <3>1 DEF Errors
  <2> QED  BY <2>1, <2>2
<1>10. at[Main] \notin {"cleanup", "gone"} /\ (at[Main] = "join" => t \notin 1 .. i - 1 /\ 1 .. i - 1 \in SUBSET Workers)
  BY <1>0, <1>1, SMTT(60) DEF Phases, Workers
<1>11. at'[Main] = "join" => err'[Main] = Cardinality(FailedIn(1 .. i - 1)')
  BY <1>0, <1>1, <1>6, <1>8, <1>10 DEF Errors
<1>12. failed' \in [Jobs -> Workers \cup {NoThread}] /\ \A j \in Jobs : failed'[j] # NoThread => Occurs(j, ran')
  BY <1>3, <1>4, <1>5 DEF Errors
<1>13. at'[Main] \notin {"join", "cleanup", "gone"} => err'[Main] = 0
  BY <1>0, <1>1, <1>8 DEF Errors
<1> QED  BY <1>1, <1>8, <1>9, <1>10, <1>11, <1>12, <1>13 DEF Errors, FailedIn

(* Main joins worker i and adds its errors. *)
LEMMA ErrorsJoin == ASSUME Phases, Errors, Join PROVE Errors'
<1>0. /\ Main \in Threads /\ Main \notin Workers /\ Workers \subseteq Threads /\ DOMAIN at = Threads /\ NThreads \in Nat
      /\ at[Main] = "join" /\ i \in 1 .. NThreads /\ i \in Workers
  BY JobAssumption DEF Phases, Join, Workers
<1>1. /\ err' = [err EXCEPT ![Main] = @ + err[i]] /\ i' = i + 1 /\ UNCHANGED <<ran, failed>>
      /\ at'[Main] = IF i = NThreads THEN "cleanup" ELSE "join"
  BY <1>0 DEF Join, Move
<1>2. \A S : FailedIn(S)' = FailedIn(S)
  BY <1>1 DEF FailedIn
<1>3. /\ 1 .. i = (1 .. i - 1) \cup {i} /\ i \notin 1 .. i - 1 /\ i' - 1 = i /\ (i = NThreads => Workers = 1 .. i)
  BY <1>0, <1>1, SMTT(60) DEF Workers
<1>4. Cardinality(FailedIn(1 .. i)) = Cardinality(FailedIn(1 .. i - 1)) + Cardinality(FailedIn({i}))
  BY <1>3, FailedCount, Zenon
<1>5. err[Main] = Cardinality(FailedIn(1 .. i - 1)) /\ err[i] = Cardinality(FailedIn({i})) /\ err \in [Threads -> Nat]
  BY <1>0 DEF Errors
<1>6. /\ err'[Main] = err[Main] + err[i] /\ \A w \in Workers : err'[w] = err[w]
      /\ err' \in [Threads -> Nat]
  BY <1>0, <1>1, <1>5, SMTT(60)
<1>7. err'[Main] = Cardinality(FailedIn(1 .. i))
  BY <1>4, <1>5, <1>6
<1>8. /\ at'[Main] = "join" => err'[Main] = Cardinality(FailedIn(1 .. i - 1))'
      /\ at'[Main] \in {"cleanup", "gone"} => err'[Main] = Cardinality(FailedIn(Workers))'
  <2>1. Cardinality(FailedIn(1 .. i - 1))' = Cardinality(FailedIn(1 .. i))
    <3>1. failed' = failed /\ 1 .. i' - 1 = 1 .. i
      BY <1>1, <1>3
    <3> QED  BY <3>1 DEF FailedIn
  <2>2. i = NThreads => Cardinality(FailedIn(Workers))' = Cardinality(FailedIn(1 .. i))
    BY <1>2, <1>3 DEF FailedIn
  <2> QED  BY <1>1, <1>7, <2>1, <2>2
<1>9. \A w \in Workers : err'[w] = Cardinality(FailedIn({w}))'
  BY <1>2, <1>6 DEF Errors
<1>10. at'[Main] \in {"join", "cleanup", "gone"}
  BY <1>1
<1>11. /\ failed' \in [Jobs -> Workers \cup {NoThread}]
       /\ \A j \in Jobs : failed'[j] # NoThread => Occurs(j, ran')
  BY <1>1 DEF Errors
<1> QED  BY <1>6, <1>8, <1>9, <1>10, <1>11 DEF Errors

(* Every step of the manager keeps the error counts. *)
LEMMA ErrorsStep ==
  ASSUME InOrder, Phases, Outward, Errors, NEW t \in Threads, Step(t) PROVE Errors'
<1> DEFINE Sets == {{"join", "cleanup", "gone"}, {"cleanup", "gone"}}
<1>0. /\ Main \in Threads \ Workers /\ Workers \subseteq Threads /\ DOMAIN at = Threads
  BY JobAssumption DEF Phases
<1>1. CASE QStep(t) /\ UNCHANGED jm
  BY <1>1, ErrorsSame DEF jm
<1>2. CASE t \in Workers /\ (Get(t) \/ GotNull(t) \/ PostDone(t) \/ Exit(t))
  <2>1. UNCHANGED <<failed, err, ran, i>> /\ at'[Main] = at[Main]
    BY <1>0, <1>2 DEF Get, GotNull, PostDone, Exit, Move
  <2> QED  BY <2>1, ErrorsSame
<1>3. CASE t \in Workers /\ Run(t)
  <2>1. CASE UNCHANGED <<err, failed>>
    <3>1. at'[Main] = at[Main] /\ i' = i /\ ran' = Append(ran, val[t])
      BY <1>0, <1>3 DEF Run, Move
    <3>2. \A j \in Jobs : Occurs(j, ran) => Occurs(j, ran')
      <4>1. ran \in Seq(Jobs)
        BY DEF Outward
      <4>2. Len(ran) \in Nat /\ Len(ran') = Len(ran) + 1 /\ \A k \in 1 .. Len(ran) : ran'[k] = ran[k]
        BY <3>1, <4>1, SMTT(60)
      <4>3. 1 .. Len(ran) \subseteq 1 .. Len(ran')
        BY <4>2, SMTT(60)
      <4> QED  BY <4>2, <4>3 DEF Occurs
    <3> QED  BY <2>1, <3>1, <3>2, ErrorsSame
  <2> QED  BY <1>3, <2>1, ErrorsRun DEF Run
<1>4. CASE t \in Submitters \cup {Main} /\ Submit(t)
  BY <1>4, ErrorsSame DEF Submit
<1>5. CASE t = Main /\ (Create \/ Wait \/ Pill)
  <2>1. /\ UNCHANGED <<failed, err, ran>>
        /\ {at[Main], at'[Main]} \cap {"join", "cleanup", "gone"} = {}
    BY <1>0, <1>5 DEF Create, Wait, Pill, Move, Phases
  <2> QED  BY <2>1, ErrorsSame
<1>6. CASE t = Main /\ Ack
  <2>1. /\ UNCHANGED <<failed, err, ran, i>> /\ i = 1 /\ at[Main] = "ack" /\ at'[Main] \in {"join", "pill"}
    BY <1>0, <1>6 DEF Ack, Move, Phases
  <2>2. FailedIn(1 .. i - 1)' = {} /\ \A S : FailedIn(S)' = FailedIn(S)
    BY <2>1, SMTT(60) DEF FailedIn
  <2>3. Cardinality(FailedIn(1 .. i - 1)') = 0
    BY <2>2, FS_EmptySet
  <2>4. err'[Main] = 0 /\ at'[Main] \notin {"cleanup", "gone"}
    BY <2>1 DEF Errors
  <2>5. \A w \in Workers : err'[w] = Cardinality(FailedIn({w}))'
    BY <2>1, <2>2 DEF Errors
  <2>6. /\ failed' \in [Jobs -> Workers \cup {NoThread}] /\ err' \in [Threads -> Nat]
        /\ \A j \in Jobs : failed'[j] # NoThread => Occurs(j, ran')
    BY <2>1 DEF Errors
  <2> QED  BY <2>3, <2>4, <2>5, <2>6 DEF Errors
<1>7. CASE t = Main /\ Join
  BY <1>7, ErrorsJoin
<1>8. CASE t = Main /\ Cleanup
  <2>1. UNCHANGED <<failed, err, ran>> /\ at[Main] = "cleanup" /\ at'[Main] = "gone"
    BY <1>0, <1>8 DEF Cleanup, Move
  <2> QED  BY <2>1, ErrorsSame
<1> QED  BY <1>1, <1>2, <1>3, <1>4, <1>5, <1>6, <1>7, <1>8 DEF Step
-----------------------------------------------------------------------------
(* The inductive invariant of the manager, on top of the queue's own. *)
Pool == InOrder /\ Phases /\ Inward /\ Outward /\ Acknowledged /\ Errors

(* Before the first worker is created. *)
LEMMA PoolInit == Init /\ InOrder /\ Phases => Pool
<1> SUFFICES ASSUME Init, InOrder, Phases PROVE Pool
  OBVIOUS
<1>1. /\ JM \in Queues /\ Main \in Threads /\ Main \notin Workers /\ Workers \subseteq Threads
      /\ NULL \notin Jobs /\ NThreads \in Nat
  BY SyncQAssumption, JobAssumption DEF JM
<1>2. /\ pc = [t \in Threads |-> "out"] /\ on \in [Threads -> {JM}]
      /\ log[JM] = <<>> /\ out[JM] = <<>> /\ todo = Jobs /\ ran = <<>>
      /\ at[Main] = "create" /\ \A w \in Workers : at[w] = "new"
      /\ done = 0 /\ rem = 0 /\ err = [t \in Threads |-> 0] /\ failed = [j \in Jobs |-> NoThread]
  BY <1>1 DEF Init, QInit, JM
<1>3. \A x : ~ Occurs(x, <<>>)
  BY SMTT(60) DEF Occurs
<1>4. Inward
  <2>1. \A t \in Threads : on[t] = JM /\ pc[t] \in Leaving /\ ~ Carries(t)
    BY <1>2 DEF Leaving, Carries, Bringing
  <2>2. WellStored(<<>>, Jobs)
    BY SMTT(60) DEF WellStored
  <2> QED  BY <1>1, <1>2, <1>3, <2>1, <2>2 DEF Inward, Stopping
<1>5. Outward
  <2>1. \A w \in Workers : ~ Holds(w)
    BY <1>2 DEF Holds
  <2>2. ran \in Seq(Jobs) /\ 1 .. Len(ran) = {}
    BY <1>2, SMTT(60)
  <2> QED  BY <1>2, <1>3, <2>1, <2>2 DEF Outward
<1>6. Acknowledged
  <2>1. Stopped = {}
    BY <1>2 DEF Stopped
  <2>2. Cardinality(Stopped) = 0
    BY <2>1, FS_EmptySet
  <2> QED  BY <1>1, <1>2, <2>2, SMTT(60) DEF Acknowledged, Stopping
<1>7. Errors
  <2>1. \A w \in Workers : FailedIn({w}) = {}
    BY <1>1, <1>2, SyncQAssumption DEF FailedIn
  <2>2. \A w \in Workers : Cardinality(FailedIn({w})) = 0
    BY <2>1, FS_EmptySet
  <2> QED  BY <1>1, <1>2, <2>2 DEF Errors
<1> QED  BY <1>4, <1>5, <1>6, <1>7 DEF Pool

(* Every step keeps it. *)
LEMMA PoolStep == ASSUME Pool, QInv, InOrder', Phases', [Next]_vars PROVE Pool'
<1>1. CASE UNCHANGED vars
  <2>1. UNCHANGED <<pc, on, val, log, out, at, todo, done, rem, i, err, ran, failed>>
    BY <1>1 DEF vars, syncq, jm
  <2>2. \A t \in Threads : UNCHANGED <<Carries(t), Holds(t)>>
    BY <2>1 DEF Carries, Holds
  <2>3. Inward' /\ Outward'
    BY <2>1, <2>2 DEF Pool, Inward, Outward, Carries, Holds
  <2>4. Acknowledged' /\ Errors'
    BY <2>1 DEF Pool, Acknowledged, Errors, Stopped, FailedIn
  <2> QED  BY <2>3, <2>4 DEF Pool
<1>2. ASSUME NEW t \in Threads, Step(t) PROVE Pool'
  <2>1. QStep(t) => Seen(t)
    BY InsideStep
  <2>2. InOrder /\ Phases /\ Inward /\ Outward /\ Acknowledged /\ Errors
    BY DEF Pool
  <2>3. Inward' /\ Outward'
    BY <1>2, <2>1, <2>2, InwardStep, OutwardStep
  <2>4. Acknowledged' /\ Errors'
    BY <1>2, <2>1, <2>2, AcknowledgedStep, ErrorsStep
  <2> QED  BY <2>3, <2>4 DEF Pool
<1> QED  BY <1>1, <1>2 DEF Next

(* When Main joins the workers, each of them has stopped, so nobody holds  *)
(* a job; a stop request has been taken, and with it every job before it.  *)
LEMMA AllRun ==
  ASSUME Pool, at[Main] \in {"join", "cleanup", "gone"}
  PROVE  {ran[a] : a \in 1 .. Len(ran)} = Jobs
<1>1. /\ JM \in Queues /\ NThreads \in Nat \ {0} /\ 1 \in Workers
      /\ InOrder /\ Phases /\ Inward /\ Outward /\ Acknowledged
  BY SyncQAssumption, JobAssumption, SMTT(60) DEF JM, Pool, Workers
<1>2. Stopped = Workers
  <2>1. Cardinality(Stopped) = done + (NThreads - rem) /\ rem = 0 /\ done \in Nat
    BY <1>1 DEF Acknowledged, Stopping
  <2>2. Cardinality(Stopped) >= NThreads
    BY <1>1, <2>1, SMTT(60)
  <2> QED  BY <2>2, StoppedCount
<1>3. \A w \in Workers : at[w] \in {"wake", "exited"}
  BY <1>2 DEF Stopped
<1>4. Occurs(NULL, out[JM]) /\ \A w \in Workers : ~ Holds(w)
  BY <1>1, <1>3 DEF Outward, Holds
<1>5. PICK a \in 1 .. Len(out[JM]) : out[JM][a] = NULL
  BY <1>4 DEF Occurs
<1>6. /\ Len(out[JM]) \in Nat /\ Len(log[JM]) \in Nat
      /\ \A k \in 1 .. Len(out[JM]) : k <= Len(log[JM]) /\ out[JM][k] = log[JM][k]
  BY <1>1, SMTT(60) DEF InOrder, QTypeOK
<1>7. a \in 1 .. Len(log[JM]) /\ log[JM][a] = NULL
  BY <1>5, <1>6, SMTT(60)
<1>8. ASSUME NEW j \in Jobs PROVE Occurs(j, ran)
  <2>1. PICK b \in 1 .. Len(log[JM]) : log[JM][b] = j
    BY <1>1 DEF Inward, Stopping, Occurs
  <2>2. b < a
    BY <1>1, <1>7, <2>1 DEF Inward, WellStored
  <2>3. b \in 1 .. Len(out[JM]) /\ out[JM][b] = j
    BY <1>5, <1>6, <2>1, <2>2, SMTT(60)
  <2>4. Occurs(j, out[JM])
    BY <2>3 DEF Occurs
  <2> QED  BY <1>1, <1>4, <2>4 DEF Outward
<1>9. \A b \in 1 .. Len(ran) : ran[b] \in Jobs
  BY <1>1, SMTT(60) DEF Outward
<1> QED  BY <1>8, <1>9 DEF Occurs

(* No job runs twice; when job_manager_wait returns, every job has run and *)
(* it returns the number of those that failed.  For any number of workers, *)
(* submitters, jobs and slots.                                             *)
THEOREM EveryJobRunsOnce == Spec => []RunsOnce
<1>1. Spec => []QInv
  BY UsesQueue, QInvariance, PTL
<1>2. Spec => []InOrder
  BY UsesQueue, QServes, PTL
<1>3. Init /\ InOrder /\ Phases => Pool
  BY PoolInit
<1>4. Pool /\ QInv /\ InOrder' /\ Phases' /\ [Next]_vars => Pool'
  BY PoolStep
<1>5. Pool => RunsOnce
  <2> SUFFICES ASSUME Pool PROVE RunsOnce
    OBVIOUS
  <2>1. {j \in Jobs : failed[j] # NoThread} = FailedIn(Workers)
    BY SyncQAssumption, JobAssumption DEF Pool, Errors, FailedIn
  <2>2. at[Main] \in {"cleanup", "gone"} => err[Main] = Cardinality(FailedIn(Workers))
    BY DEF Pool, Errors
  <2>3. \A a, b \in 1 .. Len(ran) : ran[a] = ran[b] => a = b
    BY DEF Pool, Outward
  <2> QED  BY <2>1, <2>2, <2>3, AllRun DEF RunsOnce
<1> QED  BY <1>1, <1>2, <1>3, <1>4, <1>5, PhasesKept, PTL DEF Spec
=============================================================================

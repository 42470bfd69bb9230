-------------------------- MODULE WorkManagerProofs --------------------------
(***************************************************************************)
(* Proofs about WorkManager, for any number of workers, submitters, pieces *)
(* of work and slots: its threads use the queues as SyncQProofs assumes;   *)
(* the round robin deals evenly; work sent by one thread to one worker     *)
(* runs in that order; all of it runs, once, before work_manager_wait      *)
(* returns the number of failures.                                         *)
(***************************************************************************)
EXTENDS WorkManager, SyncQProofs

(* A leaf goes to Zenon first, and to the SMT solver when Zenon does not   *)
(* find its proof.                                                         *)
USE ZenonT(20), SMTT(60)

(* The round robin: workers before next have been dealt one more than the  *)
(* others, and a thread about to deal owns wm->lock and read next under it. *)
RoundRobin ==
  /\ next \in Workers /\ dealt \in [Workers -> Nat] /\ DOMAIN at = Threads /\ DOMAIN pick = Threads
  /\ todo \subseteq Jobs /\ DOMAIN job = Threads /\ (at[Main] = "pill" => i \in Workers)
  /\ \A t \in Threads : at[t] = "deal" => holder = t /\ pick[t] = next /\ job[t] \in Jobs
  /\ \A v, w \in Workers : (v < next <=> w < next) => dealt[v] = dealt[w]
  /\ \A v, w \in Workers : v < next /\ next <= w => dealt[v] = dealt[w] + 1

(* (next + 1) % nthreads is the worker after next, or the first. *)
LEMMA NextWorker ==
  ASSUME NEW n \in Workers
  PROVE  (n + 1) % NThreads = IF n = NThreads - 1 THEN 0 ELSE n + 1
<1>1. NThreads \in Nat \ {0} /\ n \in Nat /\ n < NThreads
  BY WorkAssumption, SMTT(60) DEF Workers
<1>2. CASE n = NThreads - 1
  <2>1. n + 1 = NThreads
    BY <1>1, <1>2, SMTT(60)
  <2>2. NThreads % NThreads = 0
    BY <1>1, SMTT(60)
  <2> QED  BY <1>2, <2>1, <2>2
<1>3. CASE n # NThreads - 1
  <2>1. n + 1 \in 0 .. NThreads - 1
    BY <1>1, <1>3, SMTT(60)
  <2>2. \A m \in 0 .. NThreads - 1 : m % NThreads = m
    BY <1>1, SMTT(60)
  <2> QED  BY <1>3, <2>1, <2>2
<1> QED  BY <1>2, <1>3

(* Submission to the next worker keeps the round robin. *)
LEMMA DealStep == ASSUME RoundRobin, NEW t \in Threads, Deal(t) PROVE RoundRobin'
<1>1. /\ at[t] = "deal" /\ holder = t /\ pick[t] = next /\ next \in Workers /\ next \in Nat
      /\ dealt \in [Workers -> Nat] /\ NThreads \in Nat \ {0} /\ next < NThreads
      /\ dealt' = [dealt EXCEPT ![next] = @ + 1] /\ at' = [at EXCEPT ![t] = "submit"]
      /\ UNCHANGED <<pick, job, todo, i>> /\ Main \in Threads
  <2>1. /\ at[t] = "deal" /\ holder = t /\ pick[t] = next /\ next \in Workers /\ dealt \in [Workers -> Nat]
        /\ Main \in Threads
    BY WorkAssumption DEF Deal, RoundRobin
  <2>2. next \in Nat /\ next < NThreads /\ NThreads \in Nat \ {0}
    BY <2>1, WorkAssumption, SMTT(60) DEF Workers
  <2> QED  BY <2>1, <2>2 DEF Deal, Move
<1>2. next' = IF next = NThreads - 1 THEN 0 ELSE next + 1
  BY <1>1, NextWorker DEF Deal
<1>3. next' \in Workers /\ dealt' \in [Workers -> Nat]
  BY <1>1, <1>2, SMTT(60) DEF Workers
<1>4. \A u \in Threads : at'[u] # "deal"
  BY <1>1 DEF RoundRobin
<1>5. /\ \A v \in Workers : v \in Nat /\ v < NThreads /\ dealt[v] \in Nat
      /\ \A v \in Workers : dealt'[v] = IF v = next THEN dealt[v] + 1 ELSE dealt[v]
  BY <1>1, SMTT(60) DEF Workers
<1>6. \A v, w \in Workers : (v < next' <=> w < next') => dealt'[v] = dealt'[w]
  <2>1. CASE next = NThreads - 1
    <3>1. \A v \in Workers : v # next => v < next
      BY <1>1, <1>5, <2>1, SMTT(60)
    <3>2. \A v \in Workers : v # next => dealt[v] = dealt[next] + 1
      BY <1>1, <3>1, SMTT(60) DEF RoundRobin
    <3>3. \A v \in Workers : dealt'[v] = dealt[next] + 1
      BY <1>5, <3>2
    <3> QED  BY <3>3
  <2>2. CASE next # NThreads - 1
    <3> SUFFICES ASSUME NEW v \in Workers, NEW w \in Workers, v < next + 1 <=> w < next + 1
                 PROVE  dealt'[v] = dealt'[w]
      BY <1>2, <2>2
    <3>1. ASSUME NEW x \in Workers, NEW y \in Workers, x < next, y = next PROVE dealt'[x] = dealt'[y]
      BY <1>1, <1>5, <3>1, SMTT(60) DEF RoundRobin
    <3>2. CASE v < next /\ w < next
      BY <1>1, <1>5, <3>2, SMTT(60) DEF RoundRobin
    <3>3. CASE v > next /\ w > next
      BY <1>1, <1>5, <3>3, SMTT(60) DEF RoundRobin
    <3> QED  BY <1>1, <1>5, <3>1, <3>2, <3>3, SMTT(60)
  <2> QED  BY <2>1, <2>2
<1>7. \A v, w \in Workers : v < next' /\ next' <= w => dealt'[v] = dealt'[w] + 1
  <2> SUFFICES ASSUME NEW v \in Workers, NEW w \in Workers, v < next', next' <= w
               PROVE  dealt'[v] = dealt'[w] + 1
    OBVIOUS
  <2>1. next' = next + 1 /\ v <= next /\ next < w
    BY <1>1, <1>2, <1>5, SMTT(60)
  <2>2. dealt'[w] = dealt[w] /\ dealt[w] = dealt[next]
    BY <1>1, <1>5, <2>1, SMTT(60) DEF RoundRobin
  <2>3. CASE v = next
    BY <1>5, <2>2, <2>3
  <2>4. CASE v < next
    BY <1>1, <1>5, <2>2, <2>4, SMTT(60) DEF RoundRobin
  <2> QED  BY <1>1, <1>5, <2>1, <2>3, <2>4, SMTT(60)
<1>8. /\ DOMAIN at' = Threads /\ DOMAIN pick' = Threads /\ todo' \subseteq Jobs /\ DOMAIN job' = Threads
      /\ (at'[Main] = "pill" => i' \in Workers)
  BY <1>1 DEF RoundRobin
<1> QED  BY <1>3, <1>4, <1>6, <1>7, <1>8 DEF RoundRobin

(* So does every other step. *)
LEMMA RoundRobinStep == ASSUME RoundRobin, NEW t \in Threads, Step(t) PROVE RoundRobin'
<1>0. Main \in Threads /\ NoThread \notin Threads
  BY SyncQAssumption, WorkAssumption
<1>1. CASE Deal(t)
  BY <1>1, DealStep
<1>2. CASE SubmitAny(t)
  <2>1. PICK j \in todo : job' = [job EXCEPT ![t] = j] /\ todo' = todo \ {j}
    BY <1>2 DEF SubmitAny
  <2>2. /\ holder = NoThread /\ holder' = t /\ pick' = [pick EXCEPT ![t] = next] /\ at' = [at EXCEPT ![t] = "deal"]
        /\ UNCHANGED <<next, dealt, i>>
    BY <1>2 DEF SubmitAny, Move
  <2>3. \A u \in Threads : at[u] # "deal"
    BY <1>0, <2>2 DEF RoundRobin
  <2>4. \A u \in Threads : at'[u] = "deal" => u = t
    BY <2>2, <2>3 DEF RoundRobin
  <2>5. pick'[t] = next /\ job'[t] \in Jobs
    BY <2>1, <2>2 DEF RoundRobin
  <2> QED  BY <1>0, <2>1, <2>2, <2>4, <2>5 DEF RoundRobin
<1>3. CASE SubmitTo(t)
  <2>1. todo' \subseteq Jobs /\ UNCHANGED <<at, next, holder, pick, job, i, dealt>>
    BY <1>3 DEF SubmitTo, RoundRobin
  <2> QED  BY <2>1 DEF RoundRobin
<1>4. CASE QStep(t) /\ UNCHANGED wm
  BY <1>4 DEF wm, RoundRobin
<1>5. CASE t \in Workers /\ (Get(t) \/ GotNull(t) \/ Run(t) \/ PostDone(t) \/ Exit(t))
  <2>1. /\ UNCHANGED <<next, holder, pick, job, i, dealt, todo>> /\ t # Main
        /\ \E l : at' = [at EXCEPT ![t] = l] /\ l # "deal"
    BY <1>5, WorkAssumption DEF Get, GotNull, Run, PostDone, Exit, Move
  <2> QED  BY <1>0, <2>1 DEF RoundRobin
<1>6. CASE Create
  BY <1>0, <1>6 DEF Create, Move, RoundRobin
<1>7. CASE Wait
  BY <1>0, <1>7, WorkAssumption, SMTT(60) DEF Wait, Move, RoundRobin, Workers
<1>8. CASE Pill
  <2>1. /\ i \in Workers /\ i' = i + 1 /\ UNCHANGED <<next, holder, pick, job, dealt, todo>>
        /\ at' = [at EXCEPT ![Main] = IF i = NThreads - 1 THEN "ack" ELSE "pill"]
    BY <1>8 DEF Pill, Move, RoundRobin
  <2>2. i # NThreads - 1 => i' \in Workers
    BY <2>1, WorkAssumption, SMTT(60) DEF Workers
  <2> QED  BY <1>0, <2>1, <2>2 DEF RoundRobin
<1>9. CASE Ack \/ Join \/ Cleanup
  <2>1. /\ UNCHANGED <<next, holder, pick, job, dealt, todo>>
        /\ \E l : at' = [at EXCEPT ![Main] = l] /\ l \notin {"deal", "pill"}
    BY <1>9, SMTT(60) DEF Ack, Join, Cleanup, Move
  <2> QED  BY <1>0, <2>1 DEF RoundRobin
<1> QED  BY <1>1, <1>2, <1>3, <1>4, <1>5, <1>6, <1>7, <1>8, <1>9 DEF Step

(* The round robin holds in every reachable state. *)
LEMMA RoundRobinKept == Spec => []RoundRobin
<1>1. Init => RoundRobin
  <2>1. 0 \in Workers /\ \A w \in Workers : ~(w < 0)
    BY WorkAssumption, SMTT(60) DEF Workers
  <2> QED  BY <2>1, WorkAssumption, SMTT(60) DEF Init, RoundRobin
<1>2. RoundRobin /\ [Next]_vars => RoundRobin'
  <2>1. ASSUME RoundRobin, UNCHANGED vars PROVE RoundRobin'
    BY <2>1 DEF RoundRobin, vars, wm
  <2> QED  BY <2>1, RoundRobinStep DEF Next
<1> QED  BY <1>1, <1>2, PTL DEF Spec

(* Work without a named worker is spread evenly, for any number of workers *)
(* and however many threads submit at the same time.                       *)
THEOREM DealIsEven == Spec => []EvenDeal
<1>1. RoundRobin => EvenDeal
  <2> SUFFICES ASSUME RoundRobin, NEW v \in Workers, NEW w \in Workers PROVE dealt[v] <= dealt[w] + 1
    BY DEF EvenDeal
  <2>1. dealt[v] \in Nat /\ dealt[w] \in Nat /\ v \in Nat /\ w \in Nat /\ next \in Nat
    BY WorkAssumption, SMTT(60) DEF RoundRobin, Workers
  <2>2. CASE v < next <=> w < next
    BY <2>1, <2>2, SMTT(60) DEF RoundRobin
  <2>3. CASE v < next /\ next <= w
    BY <2>1, <2>3, SMTT(60) DEF RoundRobin
  <2>4. CASE w < next /\ next <= v
    <3>1. dealt[w] = dealt[v] + 1
      BY <2>4 DEF RoundRobin
    <3> QED  BY <2>1, <3>1, SMTT(60)
  <2> QED  BY <2>1, <2>2, <2>3, <2>4, SMTT(60)
<1> QED  BY <1>1, RoundRobinKept, PTL

(* The manager uses the queues only through SYNCQ_ENQ and SYNCQ_DEQ, so    *)
(* everything SyncQProofs shows holds of them.                             *)
LEMMA UsesQueues == Spec => QSpec
<1>1. ASSUME RoundRobin, NEW t \in Threads, Step(t) PROVE QCall(t) \/ QStep(t) \/ UNCHANGED syncq
  <2>1. Queues = Workers /\ NULL \in Value /\ Jobs \subseteq Value
    BY WorkAssumption
  <2>2. CASE SubmitTo(t)
    <3>1. PICK j \in todo, w \in Workers : EnqCall(t, w, j)
      BY <2>2 DEF SubmitTo, Send
    <3>2. j \in Value
      BY <1>1, <2>1 DEF RoundRobin
    <3> QED  BY <2>1, <3>1, <3>2 DEF QCall
  <2>3. CASE Deal(t)
    <3>1. EnqCall(t, pick[t], job[t]) /\ pick[t] \in Queues /\ job[t] \in Value
      BY <1>1, <2>1, <2>3 DEF Deal, Send, RoundRobin
    <3> QED  BY <3>1 DEF QCall
  <2>4. CASE t \in Workers /\ Get(t)
    BY <2>1, <2>4 DEF Get, QCall
  <2>5. CASE t = Main /\ Pill
    <3>1. EnqCall(t, i, NULL) /\ i \in Queues
      BY <1>1, <2>1, <2>5 DEF Pill, RoundRobin
    <3> QED  BY <2>1, <3>1 DEF QCall
  <2>6. CASE SubmitAny(t) \/ GotNull(t) \/ Run(t) \/ PostDone(t) \/ Exit(t)
    BY <2>6 DEF SubmitAny, GotNull, Run, PostDone, Exit
  <2>7. CASE Create \/ Wait \/ Ack \/ Join \/ Cleanup
    BY <2>7 DEF Create, Wait, Ack, Join, Cleanup
  <2> QED  BY <1>1, <2>2, <2>3, <2>4, <2>5, <2>6, <2>7 DEF Step
<1>2. RoundRobin /\ [Next]_vars => [QNext]_syncq
  <2>1. ASSUME RoundRobin, NEW t \in Threads, Step(t) PROVE [QNext]_syncq
    BY <1>1, <2>1 DEF QNext
  <2> QED  BY <2>1 DEF Next, vars
<1>3. Init => QInit
  BY DEF Init
<1> QED  BY <1>2, <1>3, RoundRobinKept, PTL DEF Spec, QSpec

(* Every worker's queue hands it what was sent to it, once and in order.   *)
THEOREM WorkFifo == Spec => FifoSpec
  BY UsesQueues, QImplementsFifo, PTL
-----------------------------------------------------------------------------
WorkerAt == {"new", "loop", "got", "post", "wake", "exited"}
MainAt == {"create", "failed", "submit", "deal", "pill", "ack", "join", "cleanup", "gone"}

(* Where the threads are, and who can be inside a queue operation. *)
Phases ==
  /\ at \in [Threads -> WorkerAt \cup MainAt] /\ DOMAIN pc = Threads
  /\ at[Main] \in MainAt /\ \A w \in Workers : at[w] \in WorkerAt
  /\ \A t \in Submitters \ {Main} : at[t] \in {"submit", "deal"}
  /\ \A w \in Workers : at[w] # "got" => pc[w] = "out"
  /\ \A t \in Threads : at[t] = "deal" => pc[t] = "out"
  /\ at[Main] \notin {"submit", "deal"} => \A t \in Submitters \ {Main} : pc[t] = "out" /\ at[t] = "submit"
  /\ at[Main] \notin {"submit", "pill", "ack"} => pc[Main] = "out"
  /\ at[Main] = "create" => i \in Workers /\ \A w \in i .. NThreads - 1 : at[w] = "new"
  /\ at[Main] = "pill" => i \in Workers
  /\ at[Main] = "ack" => i \in 1 .. NThreads
  /\ at[Main] = "join" => i \in Workers /\ \A w \in 0 .. i - 1 : at[w] = "exited"
  /\ at[Main] \in {"cleanup", "gone"} => \A w \in Workers : at[w] = "exited"
  /\ ~ alive => at[Main] = "gone"

(* Every step of the manager keeps to the phases. *)
LEMMA PhasesStep == ASSUME RoundRobin, Phases, NEW t \in Threads, Step(t) PROVE Phases'
<1>0. /\ Main \in Threads /\ Main \notin Workers /\ Workers \subseteq Threads /\ Submitters \subseteq Threads
      /\ Submitters \cap Workers = {} /\ DOMAIN at = Threads /\ NThreads \in Nat \ {0}
  BY WorkAssumption DEF Phases
<1>1. CASE QStep(t) /\ UNCHANGED wm
  <2>1. PICK l : pc[t] # "out" /\ pc' = [pc EXCEPT ![t] = l]
    BY <1>1, QStepMoves DEF Goto
  <2>2. UNCHANGED <<at, i, alive>>
    BY <1>1 DEF wm
  <2> QED  BY <1>0, <2>1, <2>2, SMTT(60) DEF Phases
<1>2. CASE t \in Workers /\ Get(t)
  BY <1>0, <1>2, SMTT(60) DEF Get, DeqCall, Goto, Move, Phases, WorkerAt, MainAt
<1>3. CASE t \in Workers /\ (GotNull(t) \/ Run(t) \/ PostDone(t) \/ Exit(t))
  <2>1. /\ UNCHANGED <<pc, i, alive>> /\ at[t] \in {"got", "post", "wake"} /\ pc[t] = "out"
        /\ \E l \in {"post", "loop", "wake", "exited"} : at' = [at EXCEPT ![t] = l]
    BY <1>3 DEF GotNull, Run, PostDone, Exit, Move, syncq, Phases
  <2> QED  BY <1>0, <1>3, <2>1, SMTT(60) DEF Phases, WorkerAt, MainAt
<1>4. CASE t \in Submitters \cup {Main} /\ SubmitTo(t)
  <2>1. /\ UNCHANGED <<at, i, alive>> /\ at[t] = "submit" /\ at[Main] \in {"submit", "deal"}
        /\ pc' = [pc EXCEPT ![t] = "notfull"]
    BY <1>4 DEF SubmitTo, Send, EnqCall, Goto
  <2> QED  BY <1>0, <1>4, <2>1, SMTT(60) DEF Phases, WorkerAt, MainAt
<1>5. CASE t \in Submitters \cup {Main} /\ SubmitAny(t)
  <2>1. /\ UNCHANGED <<pc, i, alive>> /\ at[t] = "submit" /\ pc[t] = "out" /\ at[Main] \in {"submit", "deal"}
        /\ at' = [at EXCEPT ![t] = "deal"]
    BY <1>5 DEF SubmitAny, Move, syncq
  <2> QED  BY <1>0, <1>5, <2>1, SMTT(60) DEF Phases, WorkerAt, MainAt
<1>6. CASE t \in Submitters \cup {Main} /\ Deal(t)
  <2>1. /\ UNCHANGED <<i, alive>> /\ at[t] = "deal" /\ at' = [at EXCEPT ![t] = "submit"]
        /\ pc' = [pc EXCEPT ![t] = "notfull"]
    BY <1>6 DEF Deal, Send, EnqCall, Goto, Move
  <2>2. at[Main] \in {"submit", "deal"}
    BY <1>6, <2>1 DEF Phases
  <2> QED  BY <1>0, <1>6, <2>1, <2>2, SMTT(60) DEF Phases, WorkerAt, MainAt
<1>7. CASE t = Main /\ Create
  <2>1. /\ at[Main] = "create" /\ i \in Workers /\ i \in Nat /\ at[i] = "new" /\ i <= NThreads - 1
        /\ UNCHANGED <<pc, alive>> /\ alive /\ \A w \in i + 1 .. NThreads - 1 : at[w] = "new" /\ w \in Workers
    BY <1>0, <1>7, SMTT(60) DEF Create, Phases, syncq, Workers
  <2>2. CASE at' = [at EXCEPT ![i] = "loop", ![Main] = IF i = NThreads - 1 THEN "submit" ELSE "create"] /\ i' = i + 1
    <3>1. /\ at'[Main] = IF i = NThreads - 1 THEN "submit" ELSE "create"
          /\ \A w \in Workers : at'[w] = IF w = i THEN "loop" ELSE at[w]
          /\ \A u \in Submitters \ {Main} : at'[u] = at[u]
          /\ at' \in [Threads -> WorkerAt \cup MainAt]
      BY <1>0, <2>1, <2>2 DEF Phases, WorkerAt, MainAt
    <3>2. i # NThreads - 1 => i' \in Workers /\ \A w \in i' .. NThreads - 1 : at'[w] = "new"
      BY <1>0, <2>1, <2>2, <3>1, SMTT(60) DEF Workers
    <3>3. at'[Main] \in {"submit", "create"} /\ (at'[Main] = "create" => i # NThreads - 1)
      BY <3>1
    <3>4. /\ \A w \in Workers : at'[w] \in WorkerAt /\ (at'[w] # "got" => pc'[w] = "out") /\ at'[w] # "deal"
          /\ \A u \in Submitters \ {Main} : at'[u] = "submit" /\ pc'[u] = "out"
          /\ DOMAIN pc' = Threads /\ pc'[Main] = "out"
      <4>1. pc[i] = "out"
        BY <2>1 DEF Phases
      <4> QED  BY <2>1, <3>1, <4>1, SMTT(60) DEF Phases, WorkerAt
    <3>5. \A u \in Threads : at'[u] # "deal"
      BY <3>3, <3>4, WorkAssumption
    <3> QED  BY <2>1, <3>1, <3>2, <3>3, <3>4, <3>5 DEF Phases, MainAt
  <2>3. CASE at' = [at EXCEPT ![Main] = "failed"] /\ i' = i
    BY <1>0, <2>1, <2>3, SMTT(60) DEF Phases, WorkerAt, MainAt
  <2> QED  BY <1>7, <2>2, <2>3 DEF Create, Move
<1>8. CASE t = Main /\ Wait
  <2>1. /\ UNCHANGED <<pc, alive>> /\ at[Main] = "submit" /\ i' = 0 /\ at' = [at EXCEPT ![Main] = "pill"]
        /\ \A u \in Submitters \cup {Main} : pc[u] = "out" /\ at[u] = "submit"
    BY <1>8 DEF Wait, Move, syncq
  <2>2. i' \in Workers
    BY <1>0, <2>1, SMTT(60) DEF Workers
  <2> QED  BY <1>0, <2>1, <2>2, SMTT(60) DEF Phases, WorkerAt, MainAt
<1>9. CASE t = Main /\ Pill
  <2>1. /\ alive' = alive /\ at[Main] = "pill" /\ i' = i + 1 /\ pc' = [pc EXCEPT ![Main] = "notfull"] /\ i \in Workers
        /\ at' = [at EXCEPT ![Main] = IF i = NThreads - 1 THEN "ack" ELSE "pill"]
    BY <1>9 DEF Pill, EnqCall, Goto, Move, Phases
  <2>2. i' \in 1 .. NThreads /\ (i # NThreads - 1 => i' \in Workers)
    BY <1>0, <2>1, SMTT(60) DEF Workers
  <2> QED  BY <1>0, <2>1, <2>2, SMTT(60) DEF Phases, WorkerAt, MainAt
<1>10. CASE t = Main /\ Ack
  <2>1. /\ UNCHANGED <<pc, alive>> /\ at[Main] = "ack" /\ pc[Main] = "out" /\ i' = i - 1 /\ i \in 1 .. NThreads
        /\ at' = [at EXCEPT ![Main] = IF i = 1 THEN "join" ELSE "ack"]
    BY <1>10 DEF Ack, Move, syncq, Phases
  <2>2. /\ i # 1 => i' \in 1 .. NThreads
        /\ i = 1 => i' \in Workers /\ 0 .. i' - 1 = {}
    BY <1>0, <2>1, SMTT(60) DEF Workers
  <2> QED  BY <1>0, <2>1, <2>2, SMTT(60) DEF Phases, WorkerAt, MainAt
<1>11. CASE t = Main /\ Join
  <2>1. /\ UNCHANGED <<pc, alive>> /\ at[Main] = "join" /\ i' = i + 1 /\ i \in Workers /\ at[i] = "exited"
        /\ \A w \in 0 .. i - 1 : at[w] = "exited"
        /\ at' = [at EXCEPT ![Main] = IF i = NThreads - 1 THEN "cleanup" ELSE "join"]
    BY <1>11 DEF Join, Move, syncq, Phases
  <2>2. /\ i # NThreads - 1 => i' \in Workers
        /\ 0 .. i' - 1 = (0 .. i - 1) \cup {i}
        /\ i = NThreads - 1 => Workers = (0 .. i - 1) \cup {i}
    BY <1>0, <2>1, SMTT(60) DEF Workers
  <2> QED  BY <1>0, <2>1, <2>2, SMTT(60) DEF Phases, WorkerAt, MainAt
<1>12. CASE t = Main /\ Cleanup
  <2>1. UNCHANGED <<pc, i>> /\ at[Main] = "cleanup" /\ at' = [at EXCEPT ![Main] = "gone"]
    BY <1>12 DEF Cleanup, Move, syncq
  <2> QED  BY <1>0, <2>1, SMTT(60) DEF Phases, WorkerAt, MainAt
<1> QED  BY <1>1, <1>2, <1>3, <1>4, <1>5, <1>6, <1>7, <1>8, <1>9, <1>10, <1>11, <1>12 DEF Step

(* The phases hold in every reachable state. *)
LEMMA PhasesKept == Spec => []Phases
<1>1. Init => Phases
  <2> SUFFICES ASSUME Init PROVE Phases
    OBVIOUS
  <2>1. /\ at = [t \in Threads |-> IF t = Main THEN "create" ELSE IF t \in Workers THEN "new" ELSE "submit"]
        /\ pc = [t \in Threads |-> "out"] /\ i = 0 /\ alive
        /\ Main \in Threads /\ Main \notin Workers /\ Workers \subseteq Threads
    BY WorkAssumption DEF Init, QInit
  <2>2. at \in [Threads -> WorkerAt \cup MainAt] /\ at[Main] = "create" /\ \A w \in Workers : at[w] = "new"
    BY <2>1 DEF WorkerAt, MainAt
  <2>3. \A t \in Submitters \ {Main} : t \in Threads /\ at[t] = "submit" /\ pc[t] = "out"
    BY <2>1, WorkAssumption
  <2>4. 0 \in Workers /\ \A w \in 0 .. NThreads - 1 : w \in Workers
    BY WorkAssumption, SMTT(60) DEF Workers
  <2>5. \A t \in Threads : at[t] # "deal"
    BY <2>1
  <2> QED  BY <2>1, <2>2, <2>3, <2>4, <2>5 DEF Phases, WorkerAt, MainAt
<1>2. RoundRobin /\ Phases /\ [Next]_vars => Phases'
  <2>1. ASSUME Phases, UNCHANGED vars PROVE Phases'
    BY <2>1 DEF Phases, vars, wm, syncq
  <2> QED  BY <2>1, PhasesStep DEF Next
<1> QED  BY <1>1, <1>2, RoundRobinKept, PTL DEF Spec
-----------------------------------------------------------------------------
(* t carries an element to a queue; w has one from its queue and has not   *)
(* yet looked at it; t has x in hand, in the round robin or on its way to  *)
(* a queue.                                                                *)
Carries(t) == pc[t] \in Bringing
Holds(w) == at[w] = "got" /\ pc[w] \in Handed \cup Leaving
Brings(t, x) == (at[t] = "deal" /\ job[t] = x) \/ (Carries(t) /\ val[t] = x)
Stopping == {"pill", "ack", "join", "cleanup", "gone"}    \* inside or after work_manager_wait

(* In the orders f of all the queues together, no work that is still to do *)
(* and none twice, and no work after a stop request.                       *)
WellStored(f, S) ==
  /\ \A q \in Workers : \A a \in 1 .. Len(f[q]) : f[q][a] \notin S
  /\ \A q, r \in Workers : \A a \in 1 .. Len(f[q]), b \in 1 .. Len(f[r]) :
       f[q][a] = f[r][b] /\ f[q][a] \in Jobs => q = r /\ a = b
  /\ \A q \in Workers : \A a, b \in 1 .. Len(f[q]) : f[q][a] = NULL /\ f[q][b] \in Jobs => b < a

(* Workers only ask, and their own queue; the others only bring.           *)
Sides ==
  /\ \A w \in Workers : pc[w] \in Asking \cup Handed \cup Leaving /\ (pc[w] # "out" => on[w] = w)
  /\ \A t \in Threads \ Workers : pc[t] \in Bringing \cup Brought \cup Leaving

(* Every piece of work is still to be submitted, or in one thread's hand,  *)
(* or has been stored, once, in one queue.                                 *)
Inward ==
  /\ todo \subseteq Jobs /\ Sides
  /\ \A t \in Threads : Brings(t, NULL) => at[Main] \in Stopping
  /\ \A t \in Threads, j \in Jobs : Brings(t, j) => j \notin todo /\ \A q \in Workers : ~ Occurs(j, log[q])
  /\ \A t, u \in Threads, j \in Jobs : Brings(t, j) /\ Brings(u, j) => t = u
  /\ WellStored(log, todo)
  /\ \A j \in Jobs : j \in todo \/ (\E t \in Threads : Brings(t, j)) \/ \E q \in Workers : Occurs(j, log[q])
  /\ at[Main] \in Stopping => \A j \in Jobs : \E q \in Workers : Occurs(j, log[q])
  /\ \A q \in Workers : Occurs(NULL, log[q]) => at[Main] \in Stopping

(* Queues that are well stored remain so when there is less to do.         *)
LEMMA LessToDo ==
  ASSUME NEW g, NEW S, NEW T, WellStored(g, S), T \subseteq S
  PROVE  WellStored(g, T)
<1>1. \A q \in Workers : \A a \in 1 .. Len(g[q]) : g[q][a] \notin T
  BY DEF WellStored
<1> QED  BY <1>1 DEF WellStored

(* A step in which nothing changes hands, and work_manager_wait does not   *)
(* begin.                                                                  *)
LEMMA InwardSame ==
  ASSUME Inward, UNCHANGED <<todo, log>>, Sides',
         \A t \in Threads, x \in Value : Brings(t, x)' <=> Brings(t, x),
         at'[Main] \in Stopping <=> at[Main] \in Stopping
  PROVE  Inward'
<1>1. NULL \in Value /\ Jobs \subseteq Value
  BY WorkAssumption
<1>2. \A q \in Workers : \A x : Occurs(x, log[q])' <=> Occurs(x, log[q])
  OBVIOUS
<1>3. WellStored(log, todo)' <=> WellStored(log, todo)
  OBVIOUS
<1> QED  BY <1>1, <1>2, <1>3 DEF Inward

(* A thread takes work that is still to do, or a stop request, in hand. *)
LEMMA InwardCall ==
  ASSUME Inward, NEW t \in Threads, NEW v \in Value, UNCHANGED log, Sides',
         \A u \in Threads, x \in Value : Brings(u, x)' <=> Brings(u, x) \/ (u = t /\ x = v),
         at'[Main] \in Stopping <=> at[Main] \in Stopping,
         \/ v \in todo /\ todo' = todo \ {v}
         \/ v = NULL /\ UNCHANGED todo /\ at[Main] \in Stopping
  PROVE  Inward'
<1>1. NULL \in Value /\ Jobs \subseteq Value /\ NULL \notin Jobs
  BY WorkAssumption
<1>2. \A q \in Workers : \A x : Occurs(x, log[q])' <=> Occurs(x, log[q])
  OBVIOUS
<1>3. todo \subseteq Jobs /\ todo' \subseteq todo /\ v \notin todo'
  BY <1>1 DEF Inward
<1>4. WellStored(log, todo)'
  <2>1. WellStored(log, todo) /\ log' = log
    BY DEF Inward
  <2>2. WellStored(log, todo')
    BY <1>3, <2>1, LessToDo
  <2> QED  BY <2>1, <2>2
<1>5. v \in Jobs => v \in todo /\ \A q \in Workers : ~ Occurs(v, log[q])
  <2>1. v \in Jobs => v \in todo
    BY <1>1
  <2>2. \A q \in Workers : \A a \in 1 .. Len(log[q]) : log[q][a] \notin todo
    BY DEF Inward, WellStored
  <2>3. v \in todo => \A q \in Workers : ~ Occurs(v, log[q])
    BY <2>2 DEF Occurs
  <2> QED  BY <2>1, <2>3
<1>6. \A u \in Threads : Brings(u, NULL)' => at'[Main] \in Stopping
  BY <1>1, <1>3 DEF Inward
<1>7. \A u \in Threads, j \in Jobs : Brings(u, j)' => j \notin todo' /\ \A q \in Workers : ~ Occurs(j, log[q])'
  BY <1>1, <1>2, <1>3, <1>5 DEF Inward
<1>8. \A u, w \in Threads, j \in Jobs : Brings(u, j)' /\ Brings(w, j)' => u = w
  BY <1>1, <1>5, SMTT(60) DEF Inward
<1>9. ASSUME NEW j \in Jobs
      PROVE  j \in todo' \/ (\E u \in Threads : Brings(u, j)') \/ \E q \in Workers : Occurs(j, log[q])'
  BY <1>1, <1>2 DEF Inward
<1>10. /\ at'[Main] \in Stopping => \A j \in Jobs : \E q \in Workers : Occurs(j, log[q])'
       /\ \A q \in Workers : Occurs(NULL, log[q])' => at'[Main] \in Stopping
       /\ todo' \subseteq Jobs
  BY <1>2, <1>3 DEF Inward
<1> QED  BY <1>4, <1>6, <1>7, <1>8, <1>9, <1>10 DEF Inward

(* What a store changes in the orders of the queues: a position, *)
LEMMA StoredBehind ==
  ASSUME QTypeOK, NEW q \in Workers, NEW v \in Value, log' = [log EXCEPT ![q] = Append(@, v)]
  PROVE  /\ \A r \in Workers : Len(log[r]) \in Nat
         /\ \A r \in Workers : \A k \in 1 .. Len(log[r]) : k \in 1 .. Len(log'[r]) /\ log'[r][k] = log[r][k]
         /\ \A r \in Workers : \A k \in 1 .. Len(log'[r]) :
              (k \in 1 .. Len(log[r]) /\ log'[r][k] = log[r][k]) \/ (r = q /\ k = Len(log[q]) + 1 /\ log'[r][k] = v)
<1>1. Workers = Queues /\ log \in [Queues -> Seq(Value)]
  BY WorkAssumption DEF QTypeOK
<1>2. \A r \in Workers : log[r] \in Seq(Value) /\ log'[r] = IF r = q THEN Append(log[q], v) ELSE log[r]
  BY <1>1
<1>3. /\ Len(Append(log[q], v)) = Len(log[q]) + 1 /\ \A r \in Workers : Len(log[r]) \in Nat
      /\ Append(log[q], v)[Len(log[q]) + 1] = v /\ \A k \in 1 .. Len(log[q]) : Append(log[q], v)[k] = log[q][k]
  BY <1>2, SMTT(60)
<1>4. 1 .. Len(log[q]) + 1 = (1 .. Len(log[q])) \cup {Len(log[q]) + 1}
  BY <1>3, SMTT(60)
<1>5. \A r \in Workers : \A k \in 1 .. Len(log[r]) : k \in 1 .. Len(log'[r]) /\ log'[r][k] = log[r][k]
  BY <1>2, <1>3, <1>4
<1>6. \A r \in Workers : \A k \in 1 .. Len(log'[r]) :
        (k \in 1 .. Len(log[r]) /\ log'[r][k] = log[r][k]) \/ (r = q /\ k = Len(log[q]) + 1 /\ log'[r][k] = v)
  BY <1>2, <1>3, <1>4
<1> QED  BY <1>3, <1>5, <1>6

(* and an occurrence. *)
LEMMA OccursBehind ==
  ASSUME QTypeOK, NEW q \in Workers, NEW v \in Value, log' = [log EXCEPT ![q] = Append(@, v)],
         NEW r \in Workers, NEW x
  PROVE  Occurs(x, log'[r]) <=> Occurs(x, log[r]) \/ (r = q /\ x = v)
<1>1. Workers = Queues /\ log \in [Queues -> Seq(Value)]
  BY WorkAssumption DEF QTypeOK
<1>2. log[r] \in Seq(Value) /\ log'[r] = IF r = q THEN Append(log[r], v) ELSE log[r]
  BY <1>1
<1>3. Occurs(x, Append(log[r], v)) <=> Occurs(x, log[r]) \/ x = v
  BY <1>2, OccursAppend
<1> QED  BY <1>2, <1>3

(* A thread that carries an element stores it. *)
LEMMA InwardStore ==
  ASSUME QTypeOK, Inward, NEW t \in Threads, NEW v \in Value, NEW q \in Workers, Brings(t, v), Sides',
         UNCHANGED <<todo, at>>, log' = [log EXCEPT ![q] = Append(@, v)],
         \A u \in Threads, x \in Value : Brings(u, x)' <=> Brings(u, x) /\ u # t,
         \A x \in Value : Brings(t, x) => x = v
  PROVE  Inward'
<1>1. NULL \in Value /\ Jobs \subseteq Value /\ NULL \notin Jobs /\ Value = Jobs \cup {NULL}
  BY WorkAssumption
<1>2. \A r \in Workers : \A x : Occurs(x, log[r])' <=> Occurs(x, log[r]) \/ (r = q /\ x = v)
  BY OccursBehind
<1>3. \A r \in Workers : \A k \in 1 .. Len(log'[r]) :
        (k \in 1 .. Len(log[r]) /\ log'[r][k] = log[r][k]) \/ (r = q /\ k = Len(log[q]) + 1 /\ log'[r][k] = v)
  BY StoredBehind, SMTT(60)
<1>4. \A r \in Workers : Len(log[r]) \in Nat
  BY StoredBehind
<1>5. v \notin todo /\ (v \in Jobs => \A r \in Workers : ~ Occurs(v, log[r])) /\ (v = NULL => at[Main] \in Stopping)
  BY <1>1, SMTT(60) DEF Inward
<1>6. WellStored(log, todo)'
  <2>1. \A r \in Workers : \A a \in 1 .. Len(log'[r]) : log'[r][a] \notin todo'
    BY <1>3, <1>5, SMTT(60) DEF Inward, WellStored
  <2>2. ASSUME v \in Jobs, NEW r \in Workers, NEW a \in 1 .. Len(log[r]) PROVE log[r][a] # v
    BY <1>5, <2>2 DEF Occurs
  <2>3. \A r, s \in Workers : \A a \in 1 .. Len(log'[r]), b \in 1 .. Len(log'[s]) :
          log'[r][a] = log'[s][b] /\ log'[r][a] \in Jobs => r = s /\ a = b
    <3> SUFFICES ASSUME NEW r \in Workers, NEW s \in Workers, NEW a \in 1 .. Len(log'[r]), NEW b \in 1 .. Len(log'[s]),
                        log'[r][a] = log'[s][b], log'[r][a] \in Jobs
                 PROVE  r = s /\ a = b
      BY SMTT(60)
    <3>1. CASE log'[r][a] = v
      BY <1>3, <2>2, <3>1, SMTT(60)
    <3>2. CASE log'[r][a] # v
      BY <1>3, <3>2 DEF Inward, WellStored
    <3> QED  BY <3>1, <3>2
  <2>4. ASSUME NEW r \in Workers, NEW a \in 1 .. Len(log'[r]), NEW b \in 1 .. Len(log'[r]),
               log'[r][a] = NULL, log'[r][b] \in Jobs
        PROVE  b < a
    <3>1. Occurs(NULL, log[r])' /\ (Occurs(NULL, log[r]) => at[Main] \in Stopping)
      BY <2>4 DEF Occurs, Inward
    <3>2. at[Main] \in Stopping
      BY <1>2, <1>5, <3>1
    <3>3. v \notin Jobs
      BY <1>5, <3>2 DEF Inward
    <3>4. b \in 1 .. Len(log[r]) /\ log'[r][b] = log[r][b]
      BY <1>3, <2>4, <3>3
    <3>5. CASE a \in 1 .. Len(log[r]) /\ log'[r][a] = log[r][a]
      BY <2>4, <3>4, <3>5 DEF Inward, WellStored
    <3>6. CASE r = q /\ a = Len(log[q]) + 1
      BY <1>4, <3>4, <3>6, SMTT(60)
    <3> QED  BY <1>3, <3>5, <3>6
  <2> QED  BY <2>1, <2>3, <2>4 DEF WellStored
<1>7. \A u \in Threads : Brings(u, NULL)' => at'[Main] \in Stopping
  BY <1>1 DEF Inward
<1>8. \A u \in Threads, j \in Jobs : Brings(u, j)' => j \notin todo' /\ \A r \in Workers : ~ Occurs(j, log[r])'
  <2> SUFFICES ASSUME NEW u \in Threads, NEW j \in Jobs, Brings(u, j)'
               PROVE  j \notin todo' /\ \A r \in Workers : ~ Occurs(j, log[r])'
    OBVIOUS
  <2>1. Brings(u, j) /\ u # t
    BY <1>1
  <2>2. j # v
    BY <2>1 DEF Inward
  <2> QED  BY <1>2, <2>1, <2>2 DEF Inward
<1>9. \A u, w \in Threads, j \in Jobs : Brings(u, j)' /\ Brings(w, j)' => u = w
  BY <1>1 DEF Inward
<1>10. ASSUME NEW j \in Jobs
       PROVE  j \in todo' \/ (\E u \in Threads : Brings(u, j)') \/ \E r \in Workers : Occurs(j, log[r])'
  <2>1. CASE j = v
    BY <1>2, <2>1
  <2>2. CASE j # v
    BY <1>1, <1>2, <2>2, SMTT(60) DEF Inward
  <2> QED  BY <2>1, <2>2
<1>11. /\ at'[Main] \in Stopping => \A j \in Jobs : \E r \in Workers : Occurs(j, log[r])'
       /\ \A r \in Workers : Occurs(NULL, log[r])' => at'[Main] \in Stopping
       /\ todo' \subseteq Jobs
  BY <1>2, <1>5 DEF Inward
<1> QED  BY <1>6, <1>7, <1>8, <1>9, <1>10, <1>11 DEF Inward

(* Every step of the manager keeps the way in. *)
LEMMA InwardStep ==
  ASSUME InOrder, RoundRobin, Phases, Inward, NEW t \in Threads, Step(t), QStep(t) => Seen(t)
  PROVE  Inward'
<1>0. /\ Main \in Threads \ Workers /\ Workers \subseteq Threads /\ Workers = Queues
      /\ NULL \notin Jobs /\ Value = Jobs \cup {NULL} /\ Threads \ Workers = Submitters \cup {Main}
      /\ DOMAIN pc = Threads /\ DOMAIN val = Threads /\ DOMAIN on = Threads /\ DOMAIN at = Threads /\ DOMAIN job = Threads
      /\ on \in [Threads -> Queues] /\ QTypeOK /\ Sides /\ todo \subseteq Jobs
  <2>1. QTypeOK /\ Sides /\ todo \subseteq Jobs
    BY DEF InOrder, Inward
  <2>2. /\ DOMAIN pc = Threads /\ DOMAIN val = Threads /\ DOMAIN on = Threads /\ on \in [Threads -> Queues]
        /\ DOMAIN at = Threads /\ DOMAIN job = Threads
    BY <2>1 DEF QTypeOK, Phases, RoundRobin
  <2> QED  BY <2>1, <2>2, WorkAssumption
<1>1. ASSUME UNCHANGED <<at, job, todo>>, QStep(t) PROVE Inward'
  <2>0. UNCHANGED on /\ pc[t] # "out" /\ at[t] # "deal" /\ (at'[Main] \in Stopping <=> at[Main] \in Stopping)
    BY <1>1 DEF Seen, Phases
  <2>1. ASSUME NEW l, Goto(t, l), Quietly(pc[t], l), UNCHANGED <<val, hist>> PROVE Inward'
    <3>1. \A u \in Threads : pc'[u] = IF u = t THEN l ELSE pc[u]
      BY <1>0, <2>1 DEF Goto
    <3>2. /\ pc[t] \in Bringing <=> l \in Bringing
          /\ pc[t] \in Asking \cup Handed \cup Leaving => l \in Asking \cup Handed \cup Leaving
          /\ pc[t] \in Bringing \cup Brought \cup Leaving => l \in Bringing \cup Brought \cup Leaving
      BY <2>1 DEF Quietly, Bringing, Brought, Asking, Handed, Leaving
    <3>3. \A u \in Threads : Carries(u)' <=> Carries(u)
      BY <3>1, <3>2 DEF Carries
    <3>4. \A u \in Threads, x \in Value : Brings(u, x)' <=> Brings(u, x)
      BY <1>1, <2>1, <3>3 DEF Brings
    <3>5. Sides'
      BY <1>0, <2>0, <3>1, <3>2 DEF Sides
    <3>6. UNCHANGED <<todo, log>>
      BY <1>1, <2>1 DEF hist
    <3> QED  BY <2>0, <3>4, <3>5, <3>6, InwardSame, Zenon
  <2>2. ASSUME pc[t] \in Bringing, Goto(t, "enqunlock"), UNCHANGED val,
               log' = [log EXCEPT ![on[t]] = Append(@, val[t])]
        PROVE  Inward'
    <3>1. \A u \in Threads : pc'[u] = IF u = t THEN "enqunlock" ELSE pc[u]
      BY <1>0, <2>2 DEF Goto
    <3>2. "enqunlock" \in Brought /\ "enqunlock" \notin Bringing
      BY DEF Brought, Bringing
    <3>3. t \notin Workers
      BY <1>0, <2>2 DEF Sides, Bringing, Asking, Handed, Leaving
    <3>4. Sides'
      BY <1>0, <2>0, <3>1, <3>2, <3>3 DEF Sides
    <3>5. \A u \in Threads : Carries(u)' <=> Carries(u) /\ u # t
      BY <3>1, <3>2 DEF Carries
    <3>6. \A u \in Threads, x \in Value : Brings(u, x)' <=> Brings(u, x) /\ u # t
      BY <1>1, <2>0, <2>2, <3>5 DEF Brings
    <3>7. Brings(t, val[t]) /\ \A x \in Value : Brings(t, x) => x = val[t]
      BY <2>0, <2>2 DEF Brings, Carries
    <3>8. val[t] \in Value /\ on[t] \in Workers /\ UNCHANGED <<todo, at>>
      BY <1>0, <1>1, <2>2 DEF InOrder
    <3> QED  BY <1>0, <2>2, <3>4, <3>6, <3>7, <3>8, InwardStore, Zenon
  <2>3. ASSUME pc[t] \in Asking, Goto(t, "dequnlock"), UNCHANGED log, NEW v, val' = [val EXCEPT ![t] = v] PROVE Inward'
    <3>1. \A u \in Threads : pc'[u] = IF u = t THEN "dequnlock" ELSE pc[u]
      BY <1>0, <2>3 DEF Goto
    <3>2. \A u \in Threads : val'[u] = IF u = t THEN v ELSE val[u]
      BY <1>0, <2>3
    <3>3. t \in Workers /\ ~ Carries(t) /\ "dequnlock" \in Handed /\ "dequnlock" \notin Bringing
      BY <1>0, <2>3 DEF Sides, Carries, Asking, Bringing, Brought, Leaving, Handed
    <3>4. \A u \in Threads : (Carries(u)' <=> Carries(u)) /\ (Carries(u) => val'[u] = val[u])
      BY <3>1, <3>2, <3>3 DEF Carries
    <3>5. \A u \in Threads, x \in Value : Brings(u, x)' <=> Brings(u, x)
      BY <1>1, <3>4 DEF Brings
    <3>6. Sides'
      BY <1>0, <2>0, <3>1, <3>3 DEF Sides
    <3>7. UNCHANGED <<todo, log>>
      BY <1>1, <2>3
    <3> QED  BY <2>0, <3>5, <3>6, <3>7, InwardSame, Zenon
  <2> QED  BY <1>1, <2>1, <2>2, <2>3 DEF Seen, hist
<1>2. CASE t \in Workers /\ Get(t)
  <2>1. /\ UNCHANGED <<todo, log, job>> /\ pc[t] = "out"
        /\ \A u \in Threads : pc'[u] = IF u = t THEN "notempty" ELSE pc[u]
        /\ \A u \in Threads : val'[u] = IF u = t THEN NoThread ELSE val[u]
        /\ \A u \in Threads : on'[u] = IF u = t THEN t ELSE on[u]
        /\ \A u \in Threads : at'[u] = IF u = t THEN "got" ELSE at[u]
        /\ at[t] = "loop"
    BY <1>0, <1>2 DEF Get, DeqCall, Goto, Set, Move, hist
  <2>2. "notempty" \in Asking /\ "notempty" \notin Bringing /\ "out" \notin Bringing
    BY DEF Asking, Bringing
  <2>3. \A u \in Threads : (Carries(u)' <=> Carries(u)) /\ (Carries(u) => val'[u] = val[u])
    BY <2>1, <2>2 DEF Carries
  <2>4. \A u \in Threads : at'[u] = "deal" <=> at[u] = "deal"
    BY <2>1
  <2>5. \A u \in Threads, x \in Value : Brings(u, x)' <=> Brings(u, x)
    BY <2>1, <2>3, <2>4 DEF Brings
  <2>6. Sides'
    BY <1>0, <1>2, <2>1, <2>2 DEF Sides
  <2>7. UNCHANGED <<todo, log>> /\ (at'[Main] \in Stopping <=> at[Main] \in Stopping)
    BY <1>0, <1>2, <2>1
  <2> QED  BY <2>5, <2>6, <2>7, InwardSame, Zenon
<1>3. ASSUME UNCHANGED syncq, UNCHANGED <<todo, job>>, at'[Main] \in Stopping <=> at[Main] \in Stopping,
             \A u \in Threads : at'[u] = "deal" <=> at[u] = "deal"
      PROVE  Inward'
  <2>1. UNCHANGED <<todo, log, pc, val, on>>
    BY <1>3 DEF syncq
  <2>2. \A u \in Threads, x \in Value : Brings(u, x)' <=> Brings(u, x)
    BY <1>3, <2>1 DEF Brings, Carries
  <2>3. Sides'
    BY <1>0, <2>1 DEF Sides
  <2> QED  BY <1>3, <2>1, <2>2, <2>3, InwardSame
<1>4. CASE t \in Workers /\ (GotNull(t) \/ Run(t) \/ PostDone(t) \/ Exit(t))
  <2>1. UNCHANGED syncq /\ UNCHANGED <<todo, job>> /\ at'[Main] = at[Main]
        /\ \A u \in Threads : at'[u] = "deal" <=> at[u] = "deal"
    BY <1>0, <1>4 DEF GotNull, Run, PostDone, Exit, Move
  <2> QED  BY <1>3, <2>1
<1>5. ASSUME t \in Submitters \cup {Main}, NEW q, NEW v, EnqCall(t, q, v) PROVE
        /\ \A u \in Threads : Carries(u)' <=> Carries(u) \/ u = t
        /\ \A u \in Threads : val'[u] = IF u = t THEN v ELSE val[u]
        /\ ~ Carries(t) /\ UNCHANGED log /\ Sides'
  <2>1. /\ \A u \in Threads : pc'[u] = IF u = t THEN "notfull" ELSE pc[u]
        /\ \A u \in Threads : on'[u] = IF u = t THEN q ELSE on[u]
        /\ \A u \in Threads : val'[u] = IF u = t THEN v ELSE val[u]
        /\ pc[t] = "out" /\ UNCHANGED log
    BY <1>0, <1>5 DEF EnqCall, Goto, Set, hist
  <2>2. "notfull" \in Bringing /\ "out" \notin Bringing /\ t \in Threads \ Workers
    BY <1>0, <1>5 DEF Bringing
  <2>3. Sides'
    BY <1>0, <2>1, <2>2 DEF Sides
  <2> QED  BY <2>1, <2>2, <2>3 DEF Carries
<1>6. CASE t \in Submitters \cup {Main} /\ SubmitTo(t)
  <2>1. PICK j \in todo, w \in Workers : EnqCall(t, w, j) /\ todo' = todo \ {j} /\ UNCHANGED <<at, job>> /\ at[t] = "submit"
    BY <1>6 DEF SubmitTo, Send
  <2>2. /\ \A u \in Threads : Carries(u)' <=> Carries(u) \/ u = t
        /\ \A u \in Threads : val'[u] = IF u = t THEN j ELSE val[u]
        /\ ~ Carries(t) /\ UNCHANGED log /\ Sides'
    BY <1>5, <1>6, <2>1
  <2>3. \A u \in Threads, x \in Value : Brings(u, x)' <=> Brings(u, x) \/ (u = t /\ x = j)
    BY <2>1, <2>2 DEF Brings
  <2>4. j \in Value /\ (at'[Main] \in Stopping <=> at[Main] \in Stopping)
    BY <1>0, <2>1
  <2> QED  BY <2>1, <2>2, <2>3, <2>4, InwardCall, Zenon
<1>7. CASE t \in Submitters \cup {Main} /\ SubmitAny(t)
  <2>1. PICK j \in todo : todo' = todo \ {j} /\ job' = [job EXCEPT ![t] = j]
    BY <1>7 DEF SubmitAny
  <2>2. UNCHANGED <<pc, val, on, log>> /\ at[t] = "submit" /\ pc[t] = "out" /\ at' = [at EXCEPT ![t] = "deal"]
        /\ at[Main] \in {"submit", "deal"}
    BY <1>7 DEF SubmitAny, Move, syncq
  <2>3. /\ \A u \in Threads : at'[u] = IF u = t THEN "deal" ELSE at[u]
        /\ \A u \in Threads : job'[u] = IF u = t THEN j ELSE job[u]
        /\ \A u \in Threads : Carries(u)' <=> Carries(u)
        /\ ~ Carries(t)
    BY <1>0, <2>1, <2>2 DEF Carries, Bringing
  <2>4. \A u \in Threads, x \in Value : Brings(u, x)' <=> Brings(u, x) \/ (u = t /\ x = j)
    BY <2>2, <2>3 DEF Brings
  <2>5. Sides'
    BY <1>0, <2>2 DEF Sides
  <2>6. j \in Value /\ (at'[Main] \in Stopping <=> at[Main] \in Stopping)
    BY <1>0, <2>1, <2>2, <2>3 DEF Stopping
  <2> QED  BY <2>1, <2>2, <2>4, <2>5, <2>6, InwardCall, Zenon
<1>8. CASE t \in Submitters \cup {Main} /\ Deal(t)
  <2>1. EnqCall(t, pick[t], job[t]) /\ UNCHANGED <<todo, job>> /\ at[t] = "deal" /\ at' = [at EXCEPT ![t] = "submit"]
    BY <1>8 DEF Deal, Send, Move
  <2>2. /\ \A u \in Threads : Carries(u)' <=> Carries(u) \/ u = t
        /\ \A u \in Threads : val'[u] = IF u = t THEN job[t] ELSE val[u]
        /\ ~ Carries(t) /\ UNCHANGED log /\ Sides'
    BY <1>5, <1>8, <2>1
  <2>3. \A u \in Threads : at'[u] = IF u = t THEN "submit" ELSE at[u]
    BY <1>0, <2>1
  <2>4. \A u \in Threads, x \in Value : Brings(u, x)' <=> Brings(u, x)
    BY <2>1, <2>2, <2>3 DEF Brings
  <2>5. at'[Main] \in Stopping <=> at[Main] \in Stopping
    BY <1>0, <2>1, <2>3 DEF Stopping
  <2> QED  BY <2>1, <2>2, <2>4, <2>5, InwardSame, Zenon
<1>9. CASE Create
  <2>1. UNCHANGED syncq /\ UNCHANGED <<todo, job>> /\ i \in Workers /\ at[i] = "new" /\ at[Main] = "create"
    BY <1>9, SMTT(60) DEF Create, Phases, Workers
  <2>2. \A u \in Threads : at'[u] = at[u] \/ (u = i /\ at'[u] = "loop") \/ (u = Main /\ at'[u] \in {"submit", "create", "failed"})
    BY <1>0, <1>9, <2>1 DEF Create, Move
  <2>3. \A u \in Threads : at'[u] = "deal" <=> at[u] = "deal"
    BY <2>1, <2>2
  <2>4. at'[Main] \in Stopping <=> at[Main] \in Stopping
    BY <1>0, <2>1, <2>2 DEF Stopping
  <2> QED  BY <1>3, <2>1, <2>3, <2>4
<1>10. CASE t = Main /\ Pill
  <2>1. EnqCall(t, i, NULL) /\ UNCHANGED <<todo, job>> /\ at[t] = "pill"
        /\ at' = [at EXCEPT ![t] = IF i = NThreads - 1 THEN "ack" ELSE "pill"]
    BY <1>10 DEF Pill, Move
  <2>2. /\ \A u \in Threads : Carries(u)' <=> Carries(u) \/ u = t
        /\ \A u \in Threads : val'[u] = IF u = t THEN NULL ELSE val[u]
        /\ ~ Carries(t) /\ UNCHANGED log /\ Sides'
    BY <1>5, <1>10, <2>1
  <2>3. /\ \A u \in Threads : at'[u] = "deal" <=> at[u] = "deal"
        /\ at'[Main] \in Stopping /\ at[Main] \in Stopping
    BY <1>0, <1>10, <2>1 DEF Stopping
  <2>4. \A u \in Threads, x \in Value : Brings(u, x)' <=> Brings(u, x) \/ (u = t /\ x = NULL)
    BY <2>1, <2>2, <2>3 DEF Brings
  <2>5. NULL \in Value /\ UNCHANGED todo
    BY <1>0, <2>1
  <2> QED  BY <2>2, <2>3, <2>4, <2>5, InwardCall, Zenon
<1>11. CASE Ack \/ Join \/ Cleanup
  BY <1>0, <1>3, <1>11 DEF Ack, Join, Cleanup, Move, Stopping
<1>12. CASE Wait
  <2>1. /\ UNCHANGED <<todo, log, pc, val, on, job>> /\ at' = [at EXCEPT ![Main] = "pill"] /\ todo = {} /\ at[Main] = "submit"
        /\ \A u \in Submitters \cup {Main} : pc[u] = "out" /\ at[u] = "submit"
    BY <1>12 DEF Wait, Move, syncq
  <2>2. \A u \in Threads, x \in Value : ~ Brings(u, x)
    <3>1. \A w \in Workers : ~ Carries(w) /\ at[w] # "deal"
      BY <1>0 DEF Carries, Sides, Phases, WorkerAt, Bringing, Asking, Handed, Leaving
    <3>2. \A u \in Submitters \cup {Main} : ~ Carries(u) /\ at[u] # "deal"
      BY <2>1 DEF Carries, Bringing
    <3> QED  BY <1>0, <3>1, <3>2 DEF Brings
  <2>3. \A u \in Threads : at'[u] = "deal" => at[u] = "deal"
    BY <1>0, <2>1
  <2>4. \A u \in Threads, x \in Value : ~ Brings(u, x)'
    BY <2>1, <2>2, <2>3 DEF Brings, Carries
  <2>5. \A j \in Jobs : \E q \in Workers : Occurs(j, log[q])
    BY <1>0, <2>1, <2>2 DEF Inward
  <2>6. at'[Main] \in Stopping
    BY <1>0, <2>1 DEF Stopping
  <2>7. Sides' /\ WellStored(log, todo)' /\ todo' \subseteq Jobs /\ \A j \in Jobs : \E q \in Workers : Occurs(j, log[q])'
    <3>1. Sides'
      BY <1>0, <2>1 DEF Sides
    <3>2. WellStored(log, todo) /\ UNCHANGED <<log, todo>>
      BY <2>1 DEF Inward
    <3> QED  BY <1>0, <2>5, <3>1, <3>2
  <2>8. \A u \in Threads, x \in Jobs \cup {NULL} : ~ Brings(u, x)'
    BY <1>0, <2>4
  <2> QED  BY <2>6, <2>7, <2>8, Zenon DEF Inward
<1>13. CASE QStep(t) /\ UNCHANGED wm
  BY <1>1, <1>13 DEF wm
<1> QED  BY <1>2, <1>4, <1>6, <1>7, <1>8, <1>9, <1>10, <1>11, <1>12, <1>13 DEF Step
-----------------------------------------------------------------------------
(* What a worker has run is what its queue has handed it, but for the one  *)
(* element it has not yet looked at, or the stop request that ended it.    *)
Ended == {"post", "wake", "exited"}
Outward ==
  /\ ran \in [Workers -> Seq(Jobs)]
  /\ \A w \in Workers : Holds(w) => out[w] = Append(ran[w], val[w])
  /\ \A w \in Workers : at[w] \in Ended => out[w] = Append(ran[w], NULL)
  /\ \A w \in Workers : ~ Holds(w) /\ at[w] \notin Ended => out[w] = ran[w]

(* What that says of one worker, and a step that is not about it.          *)
Takes(w) ==
  /\ Holds(w) => out[w] = Append(ran[w], val[w])
  /\ at[w] \in Ended => out[w] = Append(ran[w], NULL)
  /\ ~ Holds(w) /\ at[w] \notin Ended => out[w] = ran[w]
Untouched(w) ==
  /\ ran'[w] = ran[w] /\ out'[w] = out[w] /\ val'[w] = val[w]
  /\ (Holds(w)' <=> Holds(w)) /\ (at'[w] \in Ended <=> at[w] \in Ended)

(* A step after which only w may have more, and w has what it should. *)
LEMMA OutwardOne ==
  ASSUME Outward, NEW w, ran' \in [Workers -> Seq(Jobs)],
         \A v \in Workers : v # w => Untouched(v), w \in Workers => Takes(w)'
  PROVE  Outward'
<1>1. ASSUME NEW v \in Workers PROVE Takes(v)'
  <2>1. Takes(v)
    BY DEF Outward, Takes
  <2>2. CASE v # w
    <3>1. Untouched(v)
      BY <2>2
    <3> QED  BY <2>1, <3>1 DEF Takes, Untouched
  <2> QED  BY <2>2
<1> QED  BY <1>1 DEF Outward, Takes

(* Every step of the manager keeps the way out. *)
LEMMA OutwardStep ==
  ASSUME InOrder, Phases, Inward, Outward, NEW t \in Threads, Step(t), QStep(t) => Seen(t)
  PROVE  Outward'
<1>0. /\ Main \in Threads \ Workers /\ Workers \subseteq Threads /\ Workers = Queues
      /\ DOMAIN pc = Threads /\ DOMAIN val = Threads /\ DOMAIN at = Threads /\ DOMAIN out = Queues
      /\ Sides /\ ran \in [Workers -> Seq(Jobs)]
  <2>1. QTypeOK /\ Sides /\ ran \in [Workers -> Seq(Jobs)]
    BY DEF InOrder, Inward, Outward
  <2>2. DOMAIN pc = Threads /\ DOMAIN val = Threads /\ DOMAIN at = Threads /\ DOMAIN out = Queues
    BY <2>1 DEF QTypeOK, Phases
  <2> QED  BY <2>1, <2>2, WorkAssumption
<1>1. CASE QStep(t) /\ UNCHANGED wm
  <2>0. UNCHANGED <<at, ran>> /\ pc[t] # "out" /\ (t \in Workers => on[t] = t /\ at[t] = "got")
    BY <1>0, <1>1 DEF wm, Sides, Seen, Phases
  <2>1. ASSUME NEW l, Goto(t, l), Quietly(pc[t], l), UNCHANGED <<val, hist>> PROVE Outward'
    <3>1. \A w \in Workers : pc'[w] = IF w = t THEN l ELSE pc[w]
      BY <1>0, <2>1 DEF Goto
    <3>2. t \in Workers => (pc[t] \in Handed \cup Leaving <=> l \in Handed \cup Leaving)
      BY <1>0, <2>1 DEF Sides, Quietly, Bringing, Brought, Asking, Handed, Leaving
    <3>3. \A w \in Workers : Holds(w)' <=> Holds(w)
      BY <2>0, <3>1, <3>2 DEF Holds
    <3>4. UNCHANGED <<at, ran, val, out>>
      BY <2>0, <2>1 DEF hist
    <3> QED  BY <3>3, <3>4 DEF Outward
  <2>2. ASSUME pc[t] \in Bringing, Goto(t, "enqunlock"), UNCHANGED <<val, out>> PROVE Outward'
    <3>1. t \notin Workers
      BY <1>0, <2>2 DEF Sides, Bringing, Asking, Handed, Leaving
    <3>2. \A w \in Workers : pc'[w] = pc[w]
      BY <1>0, <2>2, <3>1 DEF Goto
    <3>3. \A w \in Workers : Holds(w)' <=> Holds(w)
      BY <2>0, <3>2 DEF Holds
    <3> QED  BY <2>0, <2>2, <3>3 DEF Outward
  <2>3. ASSUME pc[t] \in Asking, Goto(t, "dequnlock"), NEW v, val' = [val EXCEPT ![t] = v],
               out' = [out EXCEPT ![on[t]] = Append(@, v)]
        PROVE  Outward'
    <3>1. t \in Workers
      BY <1>0, <2>3 DEF Sides, Asking, Bringing, Brought, Leaving
    <3>2. /\ \A w \in Workers : pc'[w] = IF w = t THEN "dequnlock" ELSE pc[w]
          /\ \A w \in Workers : val'[w] = IF w = t THEN v ELSE val[w]
          /\ \A w \in Workers : out'[w] = IF w = t THEN Append(out[t], v) ELSE out[w]
      BY <1>0, <2>0, <2>3, <3>1 DEF Goto
    <3>3. ~ Holds(t) /\ at[t] \notin Ended
      BY <2>0, <2>3, <3>1 DEF Holds, Asking, Handed, Leaving, Ended
    <3>4. out[t] = ran[t]
      BY <3>1, <3>3 DEF Outward
    <3>5. out'[t] = Append(ran'[t], val'[t]) /\ at'[t] \notin Ended /\ Holds(t)'
      BY <2>0, <3>1, <3>2, <3>3, <3>4 DEF Holds, Handed
    <3>6. \A w \in Workers : w # t => (Holds(w)' <=> Holds(w))
      BY <2>0, <3>2 DEF Holds
    <3>7. \A w \in Workers : w # t => ran'[w] = ran[w] /\ out'[w] = out[w] /\ val'[w] = val[w] /\ at'[w] = at[w]
      BY <2>0, <3>2
    <3>8. Takes(t)'
      BY <3>5 DEF Takes
    <3>9. \A w \in Workers : w # t => Untouched(w)
      BY <3>6, <3>7 DEF Untouched
    <3>10. ran' \in [Workers -> Seq(Jobs)]
      BY <1>0, <2>0
    <3> QED  BY <3>8, <3>9, <3>10, OutwardOne
  <2> QED  BY <1>1, <2>1, <2>2, <2>3 DEF Seen
<1>2. ASSUME UNCHANGED <<ran, out>>, \A w \in Workers : w # t => pc'[w] = pc[w] /\ val'[w] = val[w] /\ at'[w] = at[w],
             t \in Workers => ~ Holds(t) /\ ~ Holds(t)' /\ (at'[t] \in Ended <=> at[t] \in Ended)
      PROVE  Outward'
  <2>1. \A w \in Workers : (Holds(w)' <=> Holds(w)) /\ (Holds(w) => val'[w] = val[w])
    BY <1>2 DEF Holds
  <2>2. \A w \in Workers : at'[w] \in Ended <=> at[w] \in Ended
    BY <1>2
  <2> QED  BY <1>2, <2>1, <2>2 DEF Outward
<1>3. CASE t \in Workers /\ Get(t)
  <2>1. /\ UNCHANGED <<ran, out>> /\ at[t] = "loop" /\ at'[t] = "got" /\ pc'[t] = "notempty"
        /\ \A w \in Workers : w # t => pc'[w] = pc[w] /\ val'[w] = val[w] /\ at'[w] = at[w]
    BY <1>0, <1>3 DEF Get, DeqCall, Goto, Set, Move, hist
  <2> QED  BY <1>2, <2>1 DEF Holds, Handed, Leaving, Ended
<1>4. CASE t \in Workers /\ (PostDone(t) \/ Exit(t))
  BY <1>0, <1>2, <1>4 DEF PostDone, Exit, Move, syncq, Holds, Ended
<1>5. CASE t \in Submitters \cup {Main} /\ (SubmitTo(t) \/ SubmitAny(t) \/ Deal(t))
  <2>1. t \notin Workers /\ UNCHANGED <<ran, out>>
    BY <1>5, WorkAssumption DEF SubmitTo, SubmitAny, Deal, Send, EnqCall, hist, syncq
  <2>2. CASE SubmitTo(t)
    BY <1>0, <1>2, <2>1, <2>2 DEF SubmitTo, Send, EnqCall, Goto, Set
  <2>3. CASE SubmitAny(t)
    BY <1>0, <1>2, <2>1, <2>3 DEF SubmitAny, Move, syncq
  <2>4. CASE Deal(t)
    BY <1>0, <1>2, <2>1, <2>4 DEF Deal, Send, EnqCall, Goto, Set, Move
  <2> QED  BY <1>5, <2>2, <2>3, <2>4
<1>6. CASE t = Main /\ Pill
  BY <1>0, <1>2, <1>6 DEF Pill, EnqCall, Goto, Set, Move, hist
<1>7. CASE t = Main /\ (Wait \/ Ack \/ Join \/ Cleanup)
  BY <1>0, <1>2, <1>7 DEF Wait, Ack, Join, Cleanup, Move, syncq
<1>8. CASE Create
  <2>1. UNCHANGED <<ran, out, pc, val>> /\ i \in Workers /\ at[i] = "new"
    BY <1>8, SMTT(60) DEF Create, syncq, Phases, Workers
  <2>2. \A w \in Workers : at'[w] = at[w] \/ (w = i /\ at'[w] = "loop")
    BY <1>0, <1>8, <2>1 DEF Create, Move
  <2>3. \A w \in Workers : (Holds(w)' <=> Holds(w)) /\ (at'[w] \in Ended <=> at[w] \in Ended)
    BY <2>1, <2>2 DEF Holds, Ended
  <2> QED  BY <2>1, <2>3 DEF Outward
<1>9. CASE t \in Workers /\ Run(t)
  <2>1. /\ at[t] = "got" /\ pc[t] = "out" /\ val[t] # NULL /\ UNCHANGED <<pc, val, out>>
        /\ ran' = [ran EXCEPT ![t] = Append(@, val[t])] /\ at' = [at EXCEPT ![t] = "loop"]
    BY <1>9 DEF Run, Move, syncq
  <2>2. Holds(t) /\ ~ Holds(t)' /\ at'[t] \notin Ended /\ \A w \in Workers : w # t => (Holds(w)' <=> Holds(w))
    BY <1>0, <1>9, <2>1 DEF Holds, Leaving, Ended
  <2>3. out[t] = Append(ran[t], val[t])
    BY <1>9, <2>2 DEF Outward
  <2>4. val[t] \in Jobs
    <3>1. ran[t] \in Seq(Jobs) /\ out[t] \in Seq(Value)
      BY <1>0, <1>9 DEF InOrder, QTypeOK
    <3>2. Len(ran[t]) + 1 \in 1 .. Len(out[t]) /\ out[t][Len(ran[t]) + 1] = val[t]
      BY <2>3, <3>1, SMTT(60)
    <3>3. val[t] \in Value
      BY <3>1, <3>2, SMTT(60)
    <3> QED  BY <2>1, <3>3, WorkAssumption
  <2>5. ran' \in [Workers -> Seq(Jobs)] /\ \A w \in Workers : ran'[w] = IF w = t THEN Append(ran[t], val[t]) ELSE ran[w]
    BY <1>0, <1>9, <2>1, <2>4, SMTT(60)
  <2>6. \A w \in Workers : w # t => ran'[w] = ran[w] /\ out'[w] = out[w] /\ val'[w] = val[w] /\ at'[w] = at[w]
    BY <1>0, <2>1, <2>5
  <2>7. out'[t] = ran'[t]
    BY <1>9, <2>1, <2>3, <2>5
  <2>8. Takes(t)'
    BY <2>2, <2>7 DEF Takes
  <2>9. \A w \in Workers : w # t => Untouched(w)
    BY <2>2, <2>6 DEF Untouched
  <2> QED  BY <2>5, <2>8, <2>9, OutwardOne
<1>10. CASE t \in Workers /\ GotNull(t)
  <2>1. /\ at[t] = "got" /\ pc[t] = "out" /\ val[t] = NULL /\ UNCHANGED <<pc, val, out, ran>>
        /\ at' = [at EXCEPT ![t] = "post"]
    BY <1>10 DEF GotNull, Move, syncq
  <2>2. Holds(t) /\ ~ Holds(t)' /\ at'[t] \in Ended /\ \A w \in Workers : w # t => (Holds(w)' <=> Holds(w))
    BY <1>0, <1>10, <2>1 DEF Holds, Leaving, Ended
  <2>3. out'[t] = Append(ran'[t], NULL)
    BY <1>10, <2>1, <2>2 DEF Outward
  <2>4. \A w \in Workers : w # t => ran'[w] = ran[w] /\ out'[w] = out[w] /\ val'[w] = val[w] /\ at'[w] = at[w]
    BY <1>0, <2>1
  <2>5. Takes(t)'
    BY <2>2, <2>3 DEF Takes
  <2>6. \A w \in Workers : w # t => Untouched(w)
    BY <2>2, <2>4 DEF Untouched
  <2>7. ran' \in [Workers -> Seq(Jobs)]
    BY <1>0, <2>1
  <2> QED  BY <2>5, <2>6, <2>7, OutwardOne
<1> QED  BY <1>1, <1>3, <1>4, <1>5, <1>6, <1>7, <1>8, <1>9, <1>10 DEF Step
-----------------------------------------------------------------------------
(* The workers that have acknowledged a stop request: the semaphore done   *)
(* counts those that work_manager_wait has not yet counted off.            *)
Stopped == {w \in Workers : at[w] \in {"wake", "exited"}}
CountedOff == IF at[Main] = "ack" THEN NThreads - i
              ELSE IF at[Main] \in {"join", "cleanup", "gone"} THEN NThreads ELSE 0
Acknowledged == done \in Nat /\ Cardinality(Stopped) = done + CountedOff

(* There are NThreads workers, and some of them have stopped. *)
LEMMA StoppedCount ==
  /\ IsFiniteSet(Workers) /\ Cardinality(Workers) = NThreads
  /\ IsFiniteSet(Stopped) /\ Cardinality(Stopped) \in Nat
  /\ Cardinality(Stopped) >= NThreads => Stopped = Workers
<1>1. NThreads \in Nat /\ 0 \in Int /\ NThreads - 1 \in Int /\ ~ (0 > NThreads - 1) /\ NThreads - 1 - 0 + 1 = NThreads
  BY WorkAssumption, SMTT(60)
<1>2. IsFiniteSet(Workers) /\ Cardinality(Workers) = NThreads
  BY <1>1, FS_Interval DEF Workers
<1>3. Stopped \in SUBSET Workers
  BY DEF Stopped
<1>4. IsFiniteSet(Stopped) /\ Cardinality(Stopped) <= NThreads /\ (NThreads = Cardinality(Stopped) => Workers = Stopped)
  BY <1>2, <1>3, FS_Subset
<1>5. Cardinality(Stopped) \in Nat
  BY <1>4, FS_CardinalityType
<1>6. Cardinality(Stopped) >= NThreads => NThreads = Cardinality(Stopped)
  BY <1>1, <1>4, <1>5, SMTT(60)
<1> QED  BY <1>2, <1>4, <1>5, <1>6

(* Every step of the manager keeps the count. *)
LEMMA AcknowledgedStep == ASSUME Phases, Acknowledged, NEW t \in Threads, Step(t) PROVE Acknowledged'
<1>0. /\ Main \in Threads \ Workers /\ Workers \subseteq Threads /\ DOMAIN at = Threads
      /\ NThreads \in Nat \ {0} /\ done \in Nat /\ Cardinality(Stopped) = done + CountedOff
  BY WorkAssumption DEF Phases, Acknowledged
<1>1. ASSUME UNCHANGED done, Stopped' = Stopped, CountedOff' = CountedOff PROVE Acknowledged'
  BY <1>1 DEF Acknowledged
<1>2. ASSUME UNCHANGED i, at'[Main] = at[Main] PROVE CountedOff' = CountedOff
  BY <1>2 DEF CountedOff
<1>3. ASSUME \A w \in Workers : at'[w] = at[w] PROVE Stopped' = Stopped
  BY <1>3 DEF Stopped
<1>4. CASE QStep(t) /\ UNCHANGED wm
  BY <1>1, <1>2, <1>3, <1>4 DEF wm
<1>5. CASE t \in Workers /\ (Get(t) \/ GotNull(t) \/ Run(t) \/ Exit(t))
  <2>1. UNCHANGED <<done, i>> /\ at'[Main] = at[Main]
    BY <1>0, <1>5 DEF Get, GotNull, Run, Exit, Move
  <2>2. /\ \A w \in Workers : w # t => at'[w] = at[w]
        /\ at'[t] \in {"wake", "exited"} <=> at[t] \in {"wake", "exited"}
    BY <1>0, <1>5 DEF Get, GotNull, Run, Exit, Move
  <2>3. Stopped' = Stopped
    BY <2>2 DEF Stopped
  <2> QED  BY <1>1, <1>2, <2>1, <2>3
<1>6. CASE t \in Workers /\ PostDone(t)
  <2>1. /\ done' = done + 1 /\ i' = i /\ at[t] = "post"
        /\ \A u \in Threads : at'[u] = IF u = t THEN "wake" ELSE at[u]
    BY <1>0, <1>6 DEF PostDone, Move
  <2>2. Stopped' = Stopped \cup {t} /\ t \notin Stopped
    BY <1>0, <1>6, <2>1 DEF Stopped
  <2>3. Cardinality(Stopped') = Cardinality(Stopped) + 1
    BY <2>2, StoppedCount, FS_AddElement
  <2>4. CountedOff' = CountedOff
    BY <1>0, <1>2, <1>6, <2>1
  <2>5. CountedOff \in Int
    BY <1>0, SMTT(60) DEF CountedOff, Phases
  <2>6. done' \in Nat /\ Cardinality(Stopped') = done' + CountedOff
    BY <1>0, <2>1, <2>3, <2>5, SMTT(60)
  <2> QED  BY <2>4, <2>6 DEF Acknowledged
<1>7. CASE t \in Submitters \cup {Main} /\ (SubmitTo(t) \/ SubmitAny(t) \/ Deal(t))
  <2>1. UNCHANGED <<done, i>> /\ t \notin Workers
    BY <1>7, WorkAssumption DEF SubmitTo, SubmitAny, Deal
  <2>2. /\ \A w \in Workers : at'[w] = at[w]
        /\ at'[Main] = at[Main] \/ {at[Main], at'[Main]} \subseteq {"submit", "deal"}
    BY <1>0, <1>7, <2>1 DEF SubmitTo, SubmitAny, Deal, Move
  <2>3. CountedOff' = CountedOff
    BY <2>1, <2>2 DEF CountedOff
  <2> QED  BY <1>1, <1>3, <2>1, <2>2, <2>3
<1>8. CASE t = Main /\ (Wait \/ Join \/ Cleanup)
  <2>1. /\ UNCHANGED done /\ \A w \in Workers : at'[w] = at[w]
        /\ \/ at[Main] = "submit" /\ at'[Main] = "pill"
           \/ at[Main] \in {"join", "cleanup"} /\ at'[Main] \in {"join", "cleanup", "gone"}
    BY <1>0, <1>8 DEF Wait, Join, Cleanup, Move
  <2>2. CountedOff' = CountedOff
    BY <2>1 DEF CountedOff
  <2> QED  BY <1>1, <1>3, <2>1, <2>2
<1>9. CASE t = Main /\ Create
  <2>1. UNCHANGED done /\ i \in Workers /\ at[i] = "new" /\ at[Main] = "create"
    BY <1>9, SMTT(60) DEF Create, Phases, Workers
  <2>2. /\ \A w \in Workers : at'[w] = at[w] \/ (w = i /\ at'[w] = "loop")
        /\ at'[Main] \in {"create", "submit", "failed"}
    BY <1>0, <1>9, <2>1 DEF Create, Move
  <2>3. Stopped' = Stopped
    BY <2>1, <2>2 DEF Stopped
  <2>4. CountedOff' = CountedOff
    BY <2>1, <2>2 DEF CountedOff
  <2> QED  BY <1>1, <2>1, <2>3, <2>4
<1>10. CASE t = Main /\ Pill
  <2>1. /\ UNCHANGED done /\ i' = i + 1 /\ at[Main] = "pill" /\ \A w \in Workers : at'[w] = at[w]
        /\ at'[Main] = IF i = NThreads - 1 THEN "ack" ELSE "pill"
    BY <1>0, <1>10 DEF Pill, Move
  <2>2. i = NThreads - 1 => NThreads - i' = 0
    BY <1>0, <2>1, SMTT(60)
  <2>3. CountedOff' = CountedOff
    BY <2>1, <2>2 DEF CountedOff
  <2> QED  BY <1>1, <1>3, <2>1, <2>3
<1>11. CASE t = Main /\ Ack
  <2>1. /\ done' = done - 1 /\ done > 0 /\ i' = i - 1 /\ at[Main] = "ack" /\ \A w \in Workers : at'[w] = at[w]
        /\ at'[Main] = IF i = 1 THEN "join" ELSE "ack"
    BY <1>0, <1>11 DEF Ack, Move
  <2>2. i \in 1 .. NThreads /\ Cardinality(Stopped) = done + (NThreads - i)
    BY <1>0, <2>1 DEF Phases, CountedOff
  <2>3. Cardinality(Stopped') = done' + (NThreads - i') /\ done' \in Nat /\ (i = 1 => NThreads - i' = NThreads)
    BY <1>0, <1>3, <2>1, <2>2, SMTT(60)
  <2> QED  BY <2>1, <2>3 DEF Acknowledged, CountedOff
<1> QED  BY <1>4, <1>5, <1>6, <1>7, <1>8, <1>9, <1>10, <1>11 DEF Step
-----------------------------------------------------------------------------
(* What a worker has run stands, in that order, at the head of what was    *)
(* stored in its queue.                                                    *)
LEMMA RanStored ==
  ASSUME InOrder, Outward, NEW w \in Workers
  PROVE  Len(ran[w]) \in Nat /\ \A k \in 1 .. Len(ran[w]) : k \in 1 .. Len(log[w]) /\ log[w][k] = ran[w][k]
<1>1. /\ w \in Queues /\ ran[w] \in Seq(Jobs) /\ out[w] \in Seq(Value) /\ log[w] \in Seq(Value)
      /\ \A k \in 1 .. Len(out[w]) : k <= Len(log[w]) /\ out[w][k] = log[w][k]
  BY WorkAssumption DEF InOrder, QTypeOK, Outward
<1>2. out[w] = ran[w] \/ \E x : out[w] = Append(ran[w], x)
  BY DEF Outward
<1>3. \A k \in 1 .. Len(ran[w]) : k \in 1 .. Len(out[w]) /\ out[w][k] = ran[w][k]
  BY <1>1, <1>2, SMTT(60)
<1> QED  BY <1>1, <1>3, SMTT(60)

(* The element in a worker's hand is not work that was run before.         *)
LEMMA HeldAnew ==
  ASSUME InOrder, Inward, Outward, NEW t \in Workers, Holds(t), val[t] # NULL
  PROVE  val[t] \in Jobs /\ \A w \in Workers : ~ Occurs(val[t], ran[w])
<1> DEFINE n == Len(ran[t]) + 1
<1>1. /\ t \in Queues /\ ran[t] \in Seq(Jobs) /\ out[t] \in Seq(Value) /\ log[t] \in Seq(Value)
      /\ out[t] = Append(ran[t], val[t]) /\ \A k \in 1 .. Len(out[t]) : k <= Len(log[t]) /\ out[t][k] = log[t][k]
  BY WorkAssumption DEF InOrder, QTypeOK, Outward
<1>2. n \in 1 .. Len(out[t]) /\ out[t][n] = val[t] /\ n \notin 1 .. Len(ran[t])
  BY <1>1, SMTT(60)
<1>3. n \in 1 .. Len(log[t]) /\ log[t][n] = val[t] /\ val[t] \in Jobs
  BY <1>1, <1>2, WorkAssumption, SMTT(60)
<1> HIDE DEF n
<1>4. ASSUME NEW w \in Workers, NEW k \in 1 .. Len(ran[w]), ran[w][k] = val[t] PROVE FALSE
  <2>1. k \in 1 .. Len(log[w]) /\ log[w][k] = val[t]
    BY <1>4, RanStored
  <2>2. w = t /\ k = n
    BY <1>3, <2>1 DEF Inward, WellStored
  <2> QED  BY <1>2, <1>4, <2>2
<1> QED  BY <1>3, <1>4 DEF Occurs
-----------------------------------------------------------------------------
(* The work that failed in the workers S.  A worker's errors are its own   *)
(* failures; Main's are those of the workers it has joined.                *)
FailedIn(S) == {j \in Jobs : failed[j] \in S}
Errors ==
  /\ failed \in [Jobs -> Workers \cup {NoThread}] /\ err \in [Threads -> Nat]
  /\ \A j \in Jobs : failed[j] # NoThread => Occurs(j, ran[failed[j]])
  /\ \A w \in Workers : err[w] = Cardinality(FailedIn({w}))
  /\ at[Main] \notin {"join", "cleanup", "gone"} => err[Main] = 0
  /\ at[Main] = "join" => err[Main] = Cardinality(FailedIn(0 .. i - 1))
  /\ at[Main] \in {"cleanup", "gone"} => err[Main] = Cardinality(FailedIn(Workers))

(* The work that failed in some workers can be counted. *)
LEMMA FailedFinite ==
  ASSUME NEW S PROVE IsFiniteSet(FailedIn(S)) /\ Cardinality(FailedIn(S)) \in Nat
<1>1. FailedIn(S) \in SUBSET Jobs /\ IsFiniteSet(Jobs)
  BY WorkAssumption DEF FailedIn
<1>2. IsFiniteSet(FailedIn(S))
  BY <1>1, FS_Subset
<1> QED  BY <1>2, FS_CardinalityType

(* None failed in no workers; one more worker adds those that failed in it. *)
LEMMA FailedCount ==
  ASSUME NEW S, NEW w, w \notin S
  PROVE  /\ Cardinality(FailedIn({})) = 0
         /\ Cardinality(FailedIn(S \cup {w})) = Cardinality(FailedIn(S)) + Cardinality(FailedIn({w}))
<1>1. FailedIn({}) = {}
  BY DEF FailedIn
<1>2. FailedIn(S \cup {w}) = FailedIn(S) \cup FailedIn({w}) /\ FailedIn(S) \cap FailedIn({w}) = {}
  BY DEF FailedIn
<1>3. Cardinality(FailedIn(S) \cup FailedIn({w})) =
        Cardinality(FailedIn(S)) + Cardinality(FailedIn({w})) - Cardinality(FailedIn(S) \cap FailedIn({w}))
  BY FailedFinite, FS_Union
<1>4. Cardinality(FailedIn(S)) \in Nat /\ Cardinality(FailedIn({w})) \in Nat
  BY FailedFinite
<1>5. Cardinality(FailedIn({})) = 0 /\ Cardinality(FailedIn(S) \cap FailedIn({w})) = 0
  BY <1>1, <1>2, FS_EmptySet
<1>6. \A m, n \in Nat : m + n - 0 = m + n
  BY SMTT(60)
<1> QED  BY <1>2, <1>3, <1>4, <1>5, <1>6, Zenon

(* Nothing fails, nothing is summed up, and nothing run is forgotten. *)
LEMMA ErrorsSame ==
  ASSUME Errors, UNCHANGED <<failed, err>>, \A j \in Jobs, w \in Workers : Occurs(j, ran[w]) => Occurs(j, ran'[w]),
         at'[Main] = "join" => at[Main] = "join" /\ i' = i,
         \A S \in {{"join", "cleanup", "gone"}, {"cleanup", "gone"}} : at'[Main] \in S <=> at[Main] \in S
  PROVE  Errors'
<1>1. \A S : FailedIn(S)' = FailedIn(S)
  BY DEF FailedIn
<1>2. \A j \in Jobs : failed'[j] # NoThread => Occurs(j, ran'[failed'[j]])
  BY DEF Errors
<1> QED  BY <1>1, <1>2 DEF Errors

(* The work that a worker runs fails. *)
LEMMA ErrorsRun ==
  ASSUME InOrder, Phases, Inward, Outward, Errors, NEW t \in Workers, Run(t),
         \A j \in Jobs, w \in Workers : Occurs(j, ran'[w]) <=> Occurs(j, ran[w]) \/ (w = t /\ j = val[t]),
         err' = [err EXCEPT ![t] = @ + 1], failed' = [failed EXCEPT ![val[t]] = t]
  PROVE  Errors'
<1> DEFINE v == val[t]
<1>0. /\ Main \in Threads /\ t # Main /\ Workers \subseteq Threads /\ DOMAIN at = Threads /\ NoThread \notin Workers
      /\ NThreads \in Nat
  BY WorkAssumption, SyncQAssumption DEF Phases
<1>1. at[t] = "got" /\ pc[t] = "out" /\ v # NULL /\ i' = i /\ at'[Main] = at[Main]
  BY <1>0 DEF Run, Move
<1>2. v \in Jobs /\ \A w \in Workers : ~ Occurs(v, ran[w])
  BY <1>1, HeldAnew DEF Holds, Leaving
<1>3. failed[v] = NoThread /\ \A j \in Jobs : failed'[j] = IF j = v THEN t ELSE failed[j]
  BY <1>2 DEF Errors
<1>4. /\ FailedIn({t})' = FailedIn({t}) \cup {v} /\ v \notin FailedIn({t})
      /\ \A S \in SUBSET Workers : t \notin S => FailedIn(S)' = FailedIn(S)
  BY <1>0, <1>2, <1>3, SMTT(60) DEF FailedIn
<1>5. Cardinality(FailedIn({t})') = Cardinality(FailedIn({t})) + 1
  <2>1. IsFiniteSet(FailedIn({t}))
    BY FailedFinite
  <2>2. Cardinality(FailedIn({t}) \cup {v}) = Cardinality(FailedIn({t})) + 1
    BY <1>4, <2>1, FS_AddElement
  <2> QED  BY <1>4, <2>2
<1>6. /\ err' \in [Threads -> Nat] /\ err'[t] = err[t] + 1 /\ \A u \in Threads : u # t => err'[u] = err[u]
  BY <1>0, SMTT(60) DEF Errors
<1>7. \A w \in Workers : err'[w] = Cardinality(FailedIn({w})')
  <2>1. err'[t] = Cardinality(FailedIn({t})')
    BY <1>5, <1>6 DEF Errors
  <2>2. ASSUME NEW w \in Workers, w # t PROVE err'[w] = Cardinality(FailedIn({w})')
    <3>1. FailedIn({w})' = FailedIn({w})
      BY <1>4, <2>2
    <3> QED  BY <1>0, <1>6, <2>2, <3>1 DEF Errors
  <2> QED  BY <2>1, <2>2
<1>8. at[Main] \notin {"cleanup", "gone"} /\ (at[Main] = "join" => t \notin 0 .. i - 1 /\ 0 .. i - 1 \in SUBSET Workers)
  BY <1>0, <1>1, SMTT(60) DEF Phases, Workers
<1>9. at'[Main] = "join" => err'[Main] = Cardinality(FailedIn(0 .. i - 1)')
  BY <1>0, <1>1, <1>4, <1>6, <1>8 DEF Errors
<1>10. failed' \in [Jobs -> Workers \cup {NoThread}]
  BY <1>2 DEF Errors
<1>11. \A j \in Jobs : failed'[j] # NoThread => Occurs(j, ran'[failed'[j]])
  <2> SUFFICES ASSUME NEW j \in Jobs, failed'[j] # NoThread PROVE Occurs(j, ran'[failed'[j]])
    OBVIOUS
  <2>1. CASE j = v
    BY <1>3, <2>1
  <2>2. CASE j # v
    <3>1. failed'[j] = failed[j] /\ failed[j] \in Workers /\ Occurs(j, ran[failed[j]])
      BY <1>3, <2>2 DEF Errors
    <3> QED  BY <3>1
  <2> QED  BY <2>1, <2>2
<1>12. at'[Main] \notin {"join", "cleanup", "gone"} => err'[Main] = 0
  BY <1>0, <1>1, <1>6 DEF Errors
<1> QED  BY <1>1, <1>6, <1>7, <1>8, <1>9, <1>10, <1>11, <1>12 DEF Errors, FailedIn

(* Main joins worker i and adds its errors. *)
LEMMA ErrorsJoin == ASSUME Phases, Errors, Join PROVE Errors'
<1>0. /\ Main \in Threads /\ Main \notin Workers /\ Workers \subseteq Threads /\ DOMAIN at = Threads /\ NThreads \in Nat
      /\ at[Main] = "join" /\ i \in 0 .. NThreads - 1 /\ i \in Workers
  BY WorkAssumption DEF Phases, Join, Workers
<1>1. /\ err' = [err EXCEPT ![Main] = @ + err[i]] /\ i' = i + 1 /\ UNCHANGED <<ran, failed>>
      /\ at'[Main] = IF i = NThreads - 1 THEN "cleanup" ELSE "join"
  BY <1>0 DEF Join, Move
<1>2. \A S : FailedIn(S)' = FailedIn(S)
  BY <1>1 DEF FailedIn
<1>3. /\ 0 .. i = (0 .. i - 1) \cup {i} /\ i \notin 0 .. i - 1 /\ i' - 1 = i /\ (i = NThreads - 1 => Workers = 0 .. i)
  BY <1>0, <1>1, SMTT(60) DEF Workers
<1>4. Cardinality(FailedIn(0 .. i)) = Cardinality(FailedIn(0 .. i - 1)) + Cardinality(FailedIn({i}))
  BY <1>3, FailedCount, Zenon
<1>5. err[Main] = Cardinality(FailedIn(0 .. i - 1)) /\ err[i] = Cardinality(FailedIn({i})) /\ err \in [Threads -> Nat]
  BY <1>0 DEF Errors
<1>6. /\ err'[Main] = err[Main] + err[i] /\ \A w \in Workers : err'[w] = err[w]
      /\ err' \in [Threads -> Nat]
  BY <1>0, <1>1, <1>5, SMTT(60)
<1>7. err'[Main] = Cardinality(FailedIn(0 .. i))
  BY <1>4, <1>5, <1>6
<1>8. /\ at'[Main] = "join" => err'[Main] = Cardinality(FailedIn(0 .. i - 1))'
      /\ at'[Main] \in {"cleanup", "gone"} => err'[Main] = Cardinality(FailedIn(Workers))'
  <2>1. Cardinality(FailedIn(0 .. i - 1))' = Cardinality(FailedIn(0 .. i))
    <3>1. failed' = failed /\ 0 .. i' - 1 = 0 .. i
      BY <1>1, <1>3
    <3> QED  BY <3>1 DEF FailedIn
  <2>2. i = NThreads - 1 => Cardinality(FailedIn(Workers))' = Cardinality(FailedIn(0 .. i))
    BY <1>2, <1>3 DEF FailedIn
  <2> QED  BY <1>1, <1>7, <2>1, <2>2
<1>9. \A w \in Workers : err'[w] = Cardinality(FailedIn({w}))'
  BY <1>2, <1>6 DEF Errors
<1>10. at'[Main] \in {"join", "cleanup", "gone"}
  BY <1>1
<1>11. /\ failed' \in [Jobs -> Workers \cup {NoThread}]
       /\ \A j \in Jobs : failed'[j] # NoThread => Occurs(j, ran'[failed'[j]])
  BY <1>1 DEF Errors
<1> QED  BY <1>6, <1>8, <1>9, <1>10, <1>11 DEF Errors

(* Every step of the manager keeps the error counts. *)
LEMMA ErrorsStep ==
  ASSUME InOrder, Phases, Inward, Outward, Errors, NEW t \in Threads, Step(t) PROVE Errors'
<1>0. Main \in Threads \ Workers /\ Workers \subseteq Threads /\ DOMAIN at = Threads
  BY WorkAssumption DEF Phases
<1>1. CASE QStep(t) /\ UNCHANGED wm
  BY <1>1, ErrorsSame DEF wm
<1>2. CASE t \in Workers /\ (Get(t) \/ GotNull(t) \/ PostDone(t) \/ Exit(t))
  <2>1. UNCHANGED <<failed, err, ran, i>> /\ at'[Main] = at[Main]
    BY <1>0, <1>2 DEF Get, GotNull, PostDone, Exit, Move
  <2> QED  BY <2>1, ErrorsSame
<1>3. CASE t \in Workers /\ Run(t)
  <2>1. at[t] = "got" /\ pc[t] = "out" /\ val[t] # NULL /\ at'[Main] = at[Main] /\ i' = i
        /\ ran' = [ran EXCEPT ![t] = Append(@, val[t])]
    BY <1>0, <1>3 DEF Run, Move
  <2>2. val[t] \in Jobs /\ ran \in [Workers -> Seq(Jobs)]
    BY <1>3, <2>1, HeldAnew DEF Holds, Leaving, Outward
  <2>3. \A w \in Workers : ran'[w] = IF w = t THEN Append(ran[t], val[t]) ELSE ran[w]
    BY <1>3, <2>1, <2>2
  <2>4. \A j : Occurs(j, Append(ran[t], val[t])) <=> Occurs(j, ran[t]) \/ j = val[t]
    <3>1. ran[t] \in Seq(Jobs)
      BY <1>3, <2>2
    <3> QED  BY <2>2, <3>1, OccursAppend
  <2>5. \A j \in Jobs, w \in Workers : Occurs(j, ran'[w]) <=> Occurs(j, ran[w]) \/ (w = t /\ j = val[t])
    BY <2>3, <2>4
  <2>6. CASE UNCHANGED <<err, failed>>
    BY <2>1, <2>5, <2>6, ErrorsSame
  <2> QED  BY <1>3, <2>5, <2>6, ErrorsRun DEF Run
<1>4. CASE t \in Submitters \cup {Main} /\ (SubmitTo(t) \/ SubmitAny(t) \/ Deal(t))
  <2>1. UNCHANGED <<failed, err, ran, i>>
    BY <1>4 DEF SubmitTo, SubmitAny, Deal
  <2>2. at'[Main] = at[Main] \/ {at[Main], at'[Main]} \subseteq {"submit", "deal"}
    BY <1>0, <1>4 DEF SubmitTo, SubmitAny, Deal, Move
  <2> QED  BY <2>1, <2>2, ErrorsSame
<1>5. CASE t = Main /\ (Create \/ Wait \/ Pill)
  <2>1. /\ UNCHANGED <<failed, err, ran>>
        /\ {at[Main], at'[Main]} \cap {"join", "cleanup", "gone"} = {}
    BY <1>0, <1>5 DEF Create, Wait, Pill, Move, Phases
  <2> QED  BY <2>1, ErrorsSame
<1>6. CASE t = Main /\ Ack
  <2>1. /\ UNCHANGED <<failed, err, ran>> /\ i' = i - 1 /\ at[Main] = "ack" /\ i \in 1 .. NThreads
        /\ at'[Main] = IF i = 1 THEN "join" ELSE "ack"
    BY <1>0, <1>6 DEF Ack, Move, Phases
  <2>2. at'[Main] = "join" => 0 .. i' - 1 = {}
    BY <2>1, SMTT(60)
  <2>3. \A S : FailedIn(S)' = FailedIn(S)
    BY <2>1 DEF FailedIn
  <2>4. at'[Main] = "join" => FailedIn(0 .. i - 1)' = {}
    BY <2>1, <2>2 DEF FailedIn
  <2>5. at'[Main] = "join" => Cardinality(FailedIn(0 .. i - 1)') = 0
    BY <2>4, FS_EmptySet
  <2>6. err'[Main] = 0 /\ at'[Main] \notin {"cleanup", "gone"}
    BY <2>1 DEF Errors
  <2>7. \A w \in Workers : err'[w] = Cardinality(FailedIn({w}))'
    BY <2>1, <2>3 DEF Errors
  <2>8. /\ failed' \in [Jobs -> Workers \cup {NoThread}] /\ err' \in [Threads -> Nat]
        /\ \A j \in Jobs : failed'[j] # NoThread => Occurs(j, ran'[failed'[j]])
    BY <2>1 DEF Errors
  <2> QED  BY <2>5, <2>6, <2>7, <2>8 DEF Errors
<1>7. CASE t = Main /\ Join
  BY <1>7, ErrorsJoin
<1>8. CASE t = Main /\ Cleanup
  <2>1. UNCHANGED <<failed, err, ran>> /\ at[Main] = "cleanup" /\ at'[Main] = "gone"
    BY <1>0, <1>8 DEF Cleanup, Move
  <2> QED  BY <2>1, ErrorsSame
<1> QED  BY <1>1, <1>2, <1>3, <1>4, <1>5, <1>6, <1>7, <1>8 DEF Step
-----------------------------------------------------------------------------
(* The submissions s and the orders f of the queues agree: what s sent to  *)
(* a worker is stored behind everything it sent there earlier.             *)
Agree(s, f) ==
  \A m, n \in 1 .. Len(s) : \A k \in 1 .. Len(f[s[n][2]]) :
    (m < n /\ s[m][2] = s[n][2] /\ f[s[n][2]][k] = s[n][1]) => \E l \in 1 .. k - 1 : f[s[n][2]][l] = s[m][1]

(* Everything a thread has sent is stored, but for the last while the      *)
(* thread is still carrying it.                                            *)
Sent ==
  /\ sent \in [Threads -> Seq(Jobs \X Workers)]
  /\ \A t \in Threads : \A m \in 1 .. Len(sent[t]) :
       \/ Occurs(sent[t][m][1], log[sent[t][m][2]])
       \/ m = Len(sent[t]) /\ Carries(t) /\ sent[t][m] = <<val[t], on[t]>>
  /\ \A t \in Threads : Agree(sent[t], log)

(* What a thread has sent is work, and to workers.                         *)
LEMMA SentType ==
  ASSUME Sent, NEW t \in Threads
  PROVE  /\ sent[t] \in Seq(Jobs \X Workers) /\ Len(sent[t]) \in Nat
         /\ \A m \in 1 .. Len(sent[t]) : sent[t][m][1] \in Jobs /\ sent[t][m][2] \in Workers
<1>1. sent[t] \in Seq(Jobs \X Workers)
  BY DEF Sent
<1>2. \A m \in 1 .. Len(sent[t]) : sent[t][m] \in Jobs \X Workers
  BY <1>1, SMTT(60)
<1> QED  BY <1>1, <1>2, SMTT(60)

(* A step that neither submits nor stores anything. *)
LEMMA SentSame ==
  ASSUME Sent, UNCHANGED <<sent, log>>,
         \A u \in Threads : Carries(u) => Carries(u)' /\ val'[u] = val[u] /\ on'[u] = on[u]
  PROVE  Sent'
<1>1. ASSUME NEW t \in Threads, NEW m \in 1 .. Len(sent[t])
      PROVE  \/ Occurs(sent[t][m][1], log[sent[t][m][2]])
             \/ m = Len(sent[t]) /\ Carries(t)' /\ sent[t][m] = <<val'[t], on'[t]>>
  BY DEF Sent
<1>2. UNCHANGED <<sent, log>> /\ \A t \in Threads : Agree(sent[t], log)' <=> Agree(sent[t], log)
  OBVIOUS
<1> QED  BY <1>1, <1>2 DEF Sent

(* A thread stores what it carries. *)
LEMMA SentStore ==
  ASSUME QTypeOK, Sent, NEW t \in Threads, NEW v \in Value, NEW q \in Workers, val[t] = v, on[t] = q,
         UNCHANGED <<sent, val, on>>, log' = [log EXCEPT ![q] = Append(@, v)],
         \A u \in Threads : u # t => (Carries(u)' <=> Carries(u))
  PROVE  Sent'
<1>1. \A r \in Workers : \A x : Occurs(x, log'[r]) <=> Occurs(x, log[r]) \/ (r = q /\ x = v)
  BY OccursBehind
<1>2. \A r \in Workers : Len(log[r]) \in Nat
  BY StoredBehind
<1>3. \A r \in Workers : \A k \in 1 .. Len(log[r]) : k \in 1 .. Len(log'[r]) /\ log'[r][k] = log[r][k]
  BY StoredBehind
<1>4. \A r \in Workers : \A k \in 1 .. Len(log'[r]) :
        (k \in 1 .. Len(log[r]) /\ log'[r][k] = log[r][k]) \/ (r = q /\ k = Len(log[q]) + 1 /\ log'[r][k] = v)
  BY StoredBehind, SMTT(60)
<1>5. ASSUME NEW u \in Threads, NEW m \in 1 .. Len(sent[u])
      PROVE  \/ Occurs(sent[u][m][1], log'[sent[u][m][2]])
             \/ m = Len(sent[u]) /\ Carries(u)' /\ sent[u][m] = <<val[u], on[u]>>
  <2>1. sent[u][m][2] \in Workers
    BY SentType
  <2>2. CASE Occurs(sent[u][m][1], log[sent[u][m][2]])
    BY <1>1, <2>1, <2>2
  <2>3. CASE m = Len(sent[u]) /\ Carries(u) /\ sent[u][m] = <<val[u], on[u]>>
    <3>1. CASE u = t
      <4>1. sent[u][m][1] = v /\ sent[u][m][2] = q
        BY <2>3, <3>1, SMTT(60)
      <4> QED  BY <1>1, <4>1
    <3>2. CASE u # t
      BY <2>3, <3>2
    <3> QED  BY <3>1, <3>2
  <2> QED  BY <2>2, <2>3 DEF Sent
<1>6. ASSUME NEW u \in Threads PROVE Agree(sent[u], log')
  <2> DEFINE s == sent[u]
  <2>0. /\ Len(s) \in Nat /\ Agree(s, log)
        /\ \A m \in 1 .. Len(s) : s[m][2] \in Workers /\ (Occurs(s[m][1], log[s[m][2]]) \/ m = Len(s))
    BY SentType DEF Sent
  <2> HIDE DEF s
  <2> SUFFICES ASSUME NEW m \in 1 .. Len(s), NEW n \in 1 .. Len(s), NEW k \in 1 .. Len(log'[s[n][2]]),
                      m < n, s[m][2] = s[n][2], log'[s[n][2]][k] = s[n][1]
               PROVE  \E l \in 1 .. k - 1 : log'[s[n][2]][l] = s[m][1]
    BY DEF Agree, s
  <2> DEFINE r == s[n][2]
  <2>1. r \in Workers /\ Len(log[r]) \in Nat
    BY <1>2, <2>0
  <2> HIDE DEF r
  <2>2. CASE k \in 1 .. Len(log[r]) /\ log'[r][k] = log[r][k]
    <3>1. PICK l \in 1 .. k - 1 : log[r][l] = s[m][1]
      BY <2>0, <2>2 DEF Agree, r
    <3>2. l \in 1 .. Len(log[r])
      BY <2>1, <2>2, <3>1, SMTT(60)
    <3>3. log'[r][l] = s[m][1]
      BY <1>3, <2>1, <3>1, <3>2
    <3> QED  BY <3>3 DEF r
  <2>3. CASE r = q /\ k = Len(log[q]) + 1 /\ log'[r][k] = v
    <3>1. m # Len(s)
      BY <2>0, SMTT(60)
    <3>2. PICK l \in 1 .. Len(log[r]) : log[r][l] = s[m][1]
      BY <2>0, <3>1 DEF Occurs, r
    <3>3. l \in 1 .. k - 1
      BY <2>1, <2>3, SMTT(60)
    <3>4. log'[r][l] = s[m][1]
      BY <1>3, <2>1, <3>2
    <3> QED  BY <3>3, <3>4 DEF r
  <2>4. k \in 1 .. Len(log'[r])
    BY DEF r
  <2> QED  BY <1>4, <2>1, <2>2, <2>3, <2>4
<1>7. UNCHANGED <<sent, val, on>> /\ sent \in [Threads -> Seq(Jobs \X Workers)]
  BY DEF Sent
<1> QED  BY <1>5, <1>6, <1>7 DEF Sent

(* A thread that carries nothing submits work that is in no queue.         *)
LEMMA SentSend ==
  ASSUME Sent, NEW t \in Threads, NEW j \in Jobs, NEW w \in Workers, ~ Carries(t), Carries(t)',
         val'[t] = j, on'[t] = w, UNCHANGED log, \A q \in Workers : ~ Occurs(j, log[q]),
         sent' = [sent EXCEPT ![t] = Append(@, <<j, w>>)],
         \A u \in Threads : u # t => (Carries(u)' <=> Carries(u)) /\ val'[u] = val[u] /\ on'[u] = on[u]
  PROVE  Sent'
<1> DEFINE s == sent[t]
           z == Append(s, <<j, w>>)
<1>1. s \in Seq(Jobs \X Workers) /\ Len(s) \in Nat /\ \A m \in 1 .. Len(s) : s[m][2] \in Workers
  BY SentType
<1>2. <<j, w>> \in Jobs \X Workers
  OBVIOUS
<1>3. /\ z \in Seq(Jobs \X Workers) /\ Len(z) = Len(s) + 1 /\ z[Len(s) + 1] = <<j, w>>
      /\ \A m \in 1 .. Len(s) : z[m] = s[m]
  BY <1>1, <1>2, SMTT(60)
<1>4. sent' \in [Threads -> Seq(Jobs \X Workers)] /\ \A u \in Threads : sent'[u] = IF u = t THEN z ELSE sent[u]
  BY <1>3 DEF Sent
<1>5. \A m \in 1 .. Len(s) : Occurs(s[m][1], log[s[m][2]])
  BY DEF Sent
<1>6. Agree(s, log)
  BY DEF Sent
<1> HIDE DEF s, z
<1>7. \A m \in 1 .. Len(z) : (m \in 1 .. Len(s) /\ z[m] = s[m]) \/ (m = Len(z) /\ m = Len(s) + 1 /\ z[m] = <<j, w>>)
  BY <1>1, <1>3, SMTT(60)
<1>8. \A m \in 1 .. Len(z) : Occurs(z[m][1], log[z[m][2]]) \/ (m = Len(z) /\ z[m] = <<val'[t], on'[t]>>)
  BY <1>5, <1>7
<1>9. Agree(z, log)
  <2> SUFFICES ASSUME NEW m \in 1 .. Len(z), NEW n \in 1 .. Len(z), NEW k \in 1 .. Len(log[z[n][2]]),
                      m < n, z[m][2] = z[n][2], log[z[n][2]][k] = z[n][1]
               PROVE  \E l \in 1 .. k - 1 : log[z[n][2]][l] = z[m][1]
    BY DEF Agree
  <2>1. CASE n \in 1 .. Len(s) /\ z[n] = s[n]
    <3>1. m \in 1 .. Len(s)
      BY <1>1, <1>3, <2>1, SMTT(60)
    <3>2. z[m] = s[m]
      BY <1>3, <3>1
    <3>3. s[m][2] = s[n][2] /\ k \in 1 .. Len(log[s[n][2]]) /\ log[s[n][2]][k] = s[n][1]
      BY <2>1, <3>2
    <3>4. \E l \in 1 .. k - 1 : log[s[n][2]][l] = s[m][1]
      BY <1>6, <2>1, <3>1, <3>3 DEF Agree
    <3> QED  BY <2>1, <3>2, <3>4
  <2>2. CASE z[n] = <<j, w>>
    <3>1. z[n][1] = j /\ z[n][2] = w
      BY <2>2, SMTT(60)
    <3> QED  BY <3>1, SMTT(60) DEF Occurs
  <2> QED  BY <1>7, <2>1, <2>2
<1>10. ASSUME NEW u \in Threads, NEW m \in 1 .. Len(sent'[u])
       PROVE  \/ Occurs(sent'[u][m][1], log[sent'[u][m][2]])
              \/ m = Len(sent'[u]) /\ Carries(u)' /\ sent'[u][m] = <<val'[u], on'[u]>>
  <2>1. CASE u = t
    BY <1>4, <1>8, <2>1
  <2>2. CASE u # t
    <3>1. sent'[u] = sent[u]
      BY <1>4, <2>2
    <3>2. m \in 1 .. Len(sent[u])
      BY <3>1
    <3>3. Occurs(sent[u][m][1], log[sent[u][m][2]]) \/ (m = Len(sent[u]) /\ Carries(u) /\ sent[u][m] = <<val[u], on[u]>>)
      BY <3>2 DEF Sent
    <3> QED  BY <2>2, <3>1, <3>3
  <2> QED  BY <2>1, <2>2
<1>11. \A u \in Threads : Agree(sent'[u], log)
  BY <1>4, <1>9 DEF Sent
<1>12. UNCHANGED log
  OBVIOUS
<1> QED  BY <1>4, <1>10, <1>11, <1>12 DEF Sent

(* Every step of the manager keeps the submissions in order. *)
LEMMA SentStep ==
  ASSUME InOrder, RoundRobin, Phases, Inward, Sent, NEW t \in Threads, Step(t), QStep(t) => Seen(t)
  PROVE  Sent'
<1>0. /\ Main \in Threads \ Workers /\ Workers \subseteq Threads /\ Workers = Queues /\ Sides /\ QTypeOK
      /\ DOMAIN pc = Threads /\ DOMAIN val = Threads /\ on \in [Threads -> Queues] /\ DOMAIN at = Threads
  <2>1. QTypeOK /\ Sides
    BY DEF InOrder, Inward
  <2>2. DOMAIN pc = Threads /\ DOMAIN val = Threads /\ on \in [Threads -> Queues] /\ DOMAIN at = Threads
    BY <2>1 DEF QTypeOK, Phases
  <2> QED  BY <2>1, <2>2, WorkAssumption
<1>1. CASE QStep(t) /\ UNCHANGED wm
  <2>0. UNCHANGED <<sent, on>>
    BY <1>1 DEF wm, Seen
  <2>1. ASSUME NEW l, Goto(t, l), Quietly(pc[t], l), UNCHANGED <<val, hist>> PROVE Sent'
    <3>1. \A u \in Threads : pc'[u] = IF u = t THEN l ELSE pc[u]
      BY <1>0, <2>1 DEF Goto
    <3>2. pc[t] \in Bringing => l \in Bringing
      BY <2>1 DEF Quietly, Bringing, Brought, Asking, Handed, Leaving
    <3>3. \A u \in Threads : Carries(u) => Carries(u)' /\ val'[u] = val[u] /\ on'[u] = on[u]
      BY <2>0, <2>1, <3>1, <3>2 DEF Carries
    <3> QED  BY <2>0, <2>1, <3>3, SentSame DEF hist
  <2>2. ASSUME pc[t] \in Bringing, Goto(t, "enqunlock"), UNCHANGED val,
               log' = [log EXCEPT ![on[t]] = Append(@, val[t])]
        PROVE  Sent'
    <3>1. \A u \in Threads : u # t => (Carries(u)' <=> Carries(u))
      BY <1>0, <2>2 DEF Goto, Carries
    <3>2. val[t] \in Value /\ on[t] \in Workers
      BY <1>0, <2>2 DEF InOrder
    <3> QED  BY <1>0, <2>0, <2>2, <3>1, <3>2, SentStore
  <2>3. ASSUME pc[t] \in Asking, Goto(t, "dequnlock"), UNCHANGED log, NEW v, val' = [val EXCEPT ![t] = v] PROVE Sent'
    <3>1. ~ Carries(t)
      BY <2>3 DEF Carries, Asking, Bringing
    <3>2. \A u \in Threads : u # t => pc'[u] = pc[u] /\ val'[u] = val[u]
      BY <1>0, <2>3 DEF Goto
    <3>3. \A u \in Threads : Carries(u) => Carries(u)' /\ val'[u] = val[u] /\ on'[u] = on[u]
      BY <2>0, <3>1, <3>2 DEF Carries
    <3> QED  BY <2>0, <2>3, <3>3, SentSame
  <2> QED  BY <1>1, <2>1, <2>2, <2>3 DEF Seen, hist
<1>2. ASSUME NEW q, NEW v, EnqCall(t, q, v)
      PROVE  /\ ~ Carries(t) /\ Carries(t)' /\ val'[t] = v /\ on'[t] = q /\ UNCHANGED log
             /\ \A u \in Threads : u # t => (Carries(u)' <=> Carries(u)) /\ val'[u] = val[u] /\ on'[u] = on[u]
  <2>1. /\ \A u \in Threads : pc'[u] = IF u = t THEN "notfull" ELSE pc[u]
        /\ \A u \in Threads : val'[u] = IF u = t THEN v ELSE val[u]
        /\ \A u \in Threads : on'[u] = IF u = t THEN q ELSE on[u]
        /\ pc[t] = "out" /\ UNCHANGED log
    BY <1>0, <1>2 DEF EnqCall, Goto, Set, hist
  <2> QED  BY <2>1 DEF Carries, Bringing
<1>3. CASE t \in Submitters \cup {Main} /\ SubmitTo(t)
  <2>1. PICK j \in todo, w \in Workers : EnqCall(t, w, j) /\ sent' = [sent EXCEPT ![t] = Append(@, <<j, w>>)]
    BY <1>3 DEF SubmitTo, Send
  <2>2. j \in Jobs /\ \A q \in Workers : ~ Occurs(j, log[q])
    <3>1. todo \subseteq Jobs /\ WellStored(log, todo)
      BY DEF Inward
    <3>2. \A q \in Workers : \A a \in 1 .. Len(log[q]) : log[q][a] \notin todo
      BY <3>1 DEF WellStored
    <3> QED  BY <2>1, <3>1, <3>2 DEF Occurs
  <2>3. /\ ~ Carries(t) /\ Carries(t)' /\ val'[t] = j /\ on'[t] = w /\ UNCHANGED log
        /\ \A u \in Threads : u # t => (Carries(u)' <=> Carries(u)) /\ val'[u] = val[u] /\ on'[u] = on[u]
    BY <1>2, <2>1
  <2> QED  BY <2>1, <2>2, <2>3, SentSend
<1>4. CASE t \in Submitters \cup {Main} /\ Deal(t)
  <2>1. EnqCall(t, pick[t], job[t]) /\ sent' = [sent EXCEPT ![t] = Append(@, <<job[t], pick[t]>>)] /\ at[t] = "deal"
    BY <1>4 DEF Deal, Send
  <2>2. job[t] \in Jobs /\ pick[t] \in Workers
    BY <2>1 DEF RoundRobin
  <2>3. Brings(t, job[t])
    BY <2>1 DEF Brings
  <2>4. \A q \in Workers : ~ Occurs(job[t], log[q])
    BY <2>2, <2>3 DEF Inward
  <2>5. /\ ~ Carries(t) /\ Carries(t)' /\ val'[t] = job[t] /\ on'[t] = pick[t] /\ UNCHANGED log
        /\ \A u \in Threads : u # t => (Carries(u)' <=> Carries(u)) /\ val'[u] = val[u] /\ on'[u] = on[u]
    BY <1>2, <2>1
  <2> QED  BY <2>1, <2>2, <2>4, <2>5, SentSend
<1>5. CASE t = Main /\ Pill
  <2>1. EnqCall(t, i, NULL) /\ UNCHANGED sent
    BY <1>5 DEF Pill
  <2>2. /\ ~ Carries(t) /\ UNCHANGED log
        /\ \A u \in Threads : u # t => (Carries(u)' <=> Carries(u)) /\ val'[u] = val[u] /\ on'[u] = on[u]
    BY <1>2, <2>1
  <2>3. \A u \in Threads : Carries(u) => Carries(u)' /\ val'[u] = val[u] /\ on'[u] = on[u]
    BY <2>2
  <2> QED  BY <2>1, <2>2, <2>3, SentSame
<1>6. CASE t \in Workers /\ Get(t)
  <2>1. /\ pc[t] = "out" /\ UNCHANGED <<sent, log>>
        /\ \A u \in Threads : u # t => pc'[u] = pc[u] /\ val'[u] = val[u] /\ on'[u] = on[u]
    BY <1>0, <1>6 DEF Get, DeqCall, Goto, Set, hist
  <2>2. \A u \in Threads : Carries(u) => Carries(u)' /\ val'[u] = val[u] /\ on'[u] = on[u]
    BY <2>1 DEF Carries, Bringing
  <2> QED  BY <2>1, <2>2, SentSame
<1>7. ASSUME UNCHANGED syncq, UNCHANGED sent PROVE Sent'
  <2>1. UNCHANGED <<sent, log, pc, val, on>>
    BY <1>7 DEF syncq
  <2>2. \A u \in Threads : Carries(u) => Carries(u)' /\ val'[u] = val[u] /\ on'[u] = on[u]
    BY <2>1 DEF Carries
  <2> QED  BY <2>1, <2>2, SentSame
<1>8. CASE t \in Workers /\ (GotNull(t) \/ Run(t) \/ PostDone(t) \/ Exit(t))
  BY <1>7, <1>8 DEF GotNull, Run, PostDone, Exit
<1>9. CASE SubmitAny(t)
  BY <1>7, <1>9 DEF SubmitAny
<1>10. CASE t = Main /\ (Create \/ Wait \/ Ack \/ Join \/ Cleanup)
  BY <1>7, <1>10 DEF Create, Wait, Ack, Join, Cleanup
<1> QED  BY <1>1, <1>3, <1>4, <1>5, <1>6, <1>8, <1>9, <1>10 DEF Step
-----------------------------------------------------------------------------
(* The inductive invariant of the manager, on top of the queues' own. *)
Pool == InOrder /\ RoundRobin /\ Phases /\ Inward /\ Outward /\ Acknowledged /\ Errors /\ Sent

(* Before the first worker is created. *)
LEMMA PoolInit == Init /\ InOrder /\ RoundRobin /\ Phases => Pool
<1> SUFFICES ASSUME Init, InOrder, RoundRobin, Phases PROVE Pool
  OBVIOUS
<1>1. /\ Main \in Threads /\ Main \notin Workers /\ Workers \subseteq Threads /\ Workers = Queues
      /\ NULL \notin Jobs /\ NThreads \in Nat /\ NoThread \notin Threads
  BY SyncQAssumption, WorkAssumption
<1>2. /\ pc = [t \in Threads |-> "out"] /\ todo = Jobs
      /\ \A q \in Workers : log[q] = <<>> /\ out[q] = <<>> /\ ran[q] = <<>>
      /\ at[Main] = "create" /\ \A w \in Workers : at[w] = "new"
      /\ \A t \in Threads : at[t] # "deal" /\ sent[t] = <<>>
      /\ done = 0 /\ err = [t \in Threads |-> 0] /\ failed = [j \in Jobs |-> NoThread]
      /\ ran = [w \in Workers |-> <<>>] /\ sent = [t \in Threads |-> <<>>]
  BY <1>1 DEF Init, QInit
<1>3. \A x : ~ Occurs(x, <<>>)
  BY SMTT(60) DEF Occurs
<1>4. \A q \in Workers : \A x : ~ Occurs(x, log[q])
  BY <1>2, <1>3
<1>5. Inward
  <2>1. \A t \in Threads : pc[t] = "out" /\ ~ Carries(t)
    BY <1>2 DEF Carries, Bringing
  <2>2. Sides
    BY <1>1, <2>1 DEF Sides, Leaving
  <2>3. \A t \in Threads : \A x : ~ Brings(t, x)
    BY <1>2, <2>1 DEF Brings
  <2>4. \A q \in Workers : 1 .. Len(log[q]) = {}
    BY <1>2, SMTT(60)
  <2>5. WellStored(log, todo)
    BY <2>4 DEF WellStored
  <2> QED  BY <1>2, <1>4, <2>2, <2>3, <2>5 DEF Inward, Stopping
<1>6. Outward
  <2>1. \A w \in Workers : ~ Holds(w) /\ at[w] \notin Ended
    BY <1>2 DEF Holds, Ended
  <2>2. ran \in [Workers -> Seq(Jobs)]
    BY <1>2, SMTT(60)
  <2> QED  BY <1>2, <2>1, <2>2 DEF Outward
<1>7. Acknowledged
  <2>1. Stopped = {}
    BY <1>2 DEF Stopped
  <2>2. Cardinality(Stopped) = 0
    BY <2>1, FS_EmptySet
  <2> QED  BY <1>2, <2>2, SMTT(60) DEF Acknowledged, CountedOff
<1>8. Errors
  <2>1. \A w \in Workers : FailedIn({w}) = {}
    BY <1>1, <1>2 DEF FailedIn
  <2>2. \A w \in Workers : Cardinality(FailedIn({w})) = 0
    BY <2>1, FS_EmptySet
  <2> QED  BY <1>1, <1>2, <2>2 DEF Errors
<1>9. Sent
  <2>1. sent \in [Threads -> Seq(Jobs \X Workers)] /\ \A t \in Threads : 1 .. Len(sent[t]) = {}
    BY <1>2, SMTT(60)
  <2> QED  BY <2>1 DEF Sent, Agree
<1> QED  BY <1>5, <1>6, <1>7, <1>8, <1>9 DEF Pool

(* Every step keeps it. *)
LEMMA PoolStep == ASSUME Pool, QInv, InOrder', RoundRobin', Phases', [Next]_vars PROVE Pool'
<1>1. CASE UNCHANGED vars
  <2>1. UNCHANGED <<pc, on, val, log, out, at, job, todo, done, i, err, ran, failed, sent>>
    BY <1>1 DEF vars, syncq, wm
  <2>2. Inward' /\ Outward' /\ Sent'
    <3>0. Inward /\ Outward /\ Sent
      BY DEF Pool
    <3>1. \A t : (Holds(t)' <=> Holds(t)) /\ (Carries(t)' <=> Carries(t))
      BY <2>1 DEF Holds, Carries
    <3>2. \A t, x : Brings(t, x)' <=> Brings(t, x)
      BY <2>1 DEF Brings, Carries
    <3>3. Sides'
      BY <2>1, <3>0 DEF Inward, Sides
    <3>4. Inward'
      BY <2>1, <3>0, <3>2, <3>3, InwardSame
    <3>5. Outward'
      BY <2>1, <3>0, <3>1 DEF Outward
    <3>6. Sent'
      BY <2>1, <3>0, <3>1 DEF Sent
    <3> QED  BY <3>4, <3>5, <3>6
  <2>3. Acknowledged' /\ Errors'
    BY <2>1 DEF Pool, Acknowledged, CountedOff, Errors, Stopped, FailedIn
  <2> QED  BY <2>2, <2>3 DEF Pool
<1>2. ASSUME NEW t \in Threads, Step(t) PROVE Pool'
  <2>1. QStep(t) => Seen(t)
    BY InsideStep
  <2>2. InOrder /\ RoundRobin /\ Phases /\ Inward /\ Outward /\ Acknowledged /\ Errors /\ Sent
    BY DEF Pool
  <2>3. Inward' /\ Outward' /\ Sent'
    BY <1>2, <2>1, <2>2, InwardStep, OutwardStep, SentStep
  <2>4. Acknowledged' /\ Errors'
    BY <1>2, <2>1, <2>2, AcknowledgedStep, ErrorsStep
  <2> QED  BY <2>3, <2>4 DEF Pool
<1> QED  BY <1>1, <1>2 DEF Next

(* It holds in every reachable state. *)
LEMMA PoolKept == Spec => []Pool
<1>1. Spec => []QInv
  BY UsesQueues, QInvariance, PTL
<1>2. Spec => []InOrder
  BY UsesQueues, QServes, PTL
<1>3. Init /\ InOrder /\ RoundRobin /\ Phases => Pool
  BY PoolInit
<1>4. Pool /\ QInv /\ InOrder' /\ RoundRobin' /\ Phases' /\ [Next]_vars => Pool'
  BY PoolStep
<1> QED  BY <1>1, <1>2, <1>3, <1>4, RoundRobinKept, PhasesKept, PTL DEF Spec

(* Work that one thread sends to one worker is run in the order in which   *)
(* it was sent, for any number of workers, submitters and slots: it is     *)
(* stored in that order, and a worker runs what its queue stored.          *)
THEOREM SerialisedRuns == Spec => []SerialisedInOrder
<1>1. Pool => SerialisedInOrder
  <2> SUFFICES ASSUME Pool, NEW t \in Threads, NEW w \in Workers, NEW a \in Jobs, NEW b \in Jobs,
                      Before(sent[t], <<a, w>>, <<b, w>>), NEW k \in 1 .. Len(ran[w]), ran[w][k] = b
               PROVE  Before(ran[w], a, b)
    BY DEF SerialisedInOrder
  <2>1. PICK m, n \in 1 .. Len(sent[t]) : m < n /\ sent[t][m] = <<a, w>> /\ sent[t][n] = <<b, w>>
    BY DEF Before
  <2>2. sent[t][m][1] = a /\ sent[t][m][2] = w /\ sent[t][n][1] = b /\ sent[t][n][2] = w
    BY <2>1, SMTT(60)
  <2>3. /\ Len(ran[w]) \in Nat
        /\ \A l \in 1 .. Len(ran[w]) : l \in 1 .. Len(log[w]) /\ log[w][l] = ran[w][l]
    BY RanStored DEF Pool
  <2>4. PICK l \in 1 .. k - 1 : log[w][l] = a
    <3>1. Agree(sent[t], log)
      BY DEF Pool, Sent
    <3>2. k \in 1 .. Len(log[sent[t][n][2]]) /\ log[sent[t][n][2]][k] = sent[t][n][1]
      BY <2>2, <2>3
    <3>3. \E l \in 1 .. k - 1 : log[sent[t][n][2]][l] = sent[t][m][1]
      BY <2>1, <2>2, <3>1, <3>2, Zenon DEF Agree
    <3> QED  BY <2>2, <3>3
  <2>5. l \in 1 .. Len(ran[w]) /\ l < k
    <3> DEFINE top == Len(ran[w])
    <3>1. top \in Nat /\ k \in 1 .. top
      BY <2>3
    <3> HIDE DEF top
    <3>2. l \in 1 .. top /\ l < k
      BY <3>1, SMTT(60)
    <3> QED  BY <3>2 DEF top
  <2>6. ran[w][l] = a
    BY <2>3, <2>4, <2>5
  <2> QED  BY <2>5, <2>6 DEF Before
<1> QED  BY <1>1, PoolKept, PTL

(* When Main joins the workers, each has taken its stop request, and with  *)
(* it everything stored before, which is all the work there is.            *)
LEMMA AllRun ==
  ASSUME Pool, at[Main] \in {"join", "cleanup", "gone"}, NEW j \in Jobs
  PROVE  \E w \in Workers : \E a \in 1 .. Len(ran[w]) : ran[w][a] = j
<1>1. NThreads \in Nat /\ InOrder /\ Phases /\ Inward /\ Outward /\ Acknowledged
  BY WorkAssumption DEF Pool
<1>2. Stopped = Workers
  <2>1. Cardinality(Stopped) = done + NThreads /\ done \in Nat
    BY <1>1 DEF Acknowledged, CountedOff
  <2>2. Cardinality(Stopped) >= NThreads
    BY <1>1, <2>1, SMTT(60)
  <2> QED  BY <2>2, StoppedCount
<1>3. PICK w \in Workers : Occurs(j, log[w])
  BY <1>1 DEF Inward, Stopping
<1>4. PICK b \in 1 .. Len(log[w]) : log[w][b] = j
  BY <1>3 DEF Occurs
<1>5. out[w] = Append(ran[w], NULL)
  <2>1. at[w] \in Ended
    BY <1>2 DEF Stopped, Ended
  <2> QED  BY <1>1, <2>1 DEF Outward
<1>6. /\ w \in Queues /\ ran[w] \in Seq(Jobs) /\ out[w] \in Seq(Value) /\ log[w] \in Seq(Value)
      /\ \A k \in 1 .. Len(out[w]) : k <= Len(log[w]) /\ out[w][k] = log[w][k]
  BY <1>1, WorkAssumption DEF InOrder, QTypeOK, Outward
<1> DEFINE n == Len(ran[w]) + 1
<1>7. n \in 1 .. Len(out[w]) /\ out[w][n] = NULL /\ Len(ran[w]) \in Nat
  BY <1>5, <1>6, SMTT(60)
<1>8. n \in 1 .. Len(log[w]) /\ log[w][n] = NULL
  BY <1>6, <1>7, SMTT(60)
<1>9. b < n
  BY <1>1, <1>4, <1>8 DEF Inward, WellStored
<1>10. b \in 1 .. Len(ran[w])
  BY <1>4, <1>7, <1>9, SMTT(60)
<1>11. log[w][b] = ran[w][b]
  BY <1>1, <1>10, RanStored
<1> QED  BY <1>4, <1>10, <1>11

(* No piece of work runs twice, on whatever worker; when every             *)
(* acknowledgement is in, all of it has run; work_manager_wait returns the *)
(* number of failures, and nothing is used after cleanup.  For any number  *)
(* of workers, submitters, pieces of work and slots.                       *)
THEOREM AllWorkRunsOnce == Spec => []RunsOnce
<1>1. Pool => RunsOnce
  <2> SUFFICES ASSUME Pool PROVE RunsOnce
    OBVIOUS
  <2>1. ASSUME NEW v \in Workers, NEW w \in Workers, NEW a \in 1 .. Len(ran[v]), NEW b \in 1 .. Len(ran[w]),
               ran[v][a] = ran[w][b]
        PROVE  v = w /\ a = b
    <3>1. a \in 1 .. Len(log[v]) /\ b \in 1 .. Len(log[w]) /\ log[v][a] = ran[v][a] /\ log[w][b] = ran[w][b]
      BY RanStored DEF Pool
    <3>2. ran[v] \in Seq(Jobs)
      BY DEF Pool, Outward
    <3>3. ran[v][a] \in Jobs
      BY <3>2, SMTT(60)
    <3>4. WellStored(log, todo)
      BY DEF Pool, Inward
    <3>5. log[v][a] = log[w][b] /\ log[v][a] \in Jobs
      BY <2>1, <3>1, <3>3
    <3> QED  BY <3>1, <3>4, <3>5 DEF WellStored
  <2>2. {j \in Jobs : failed[j] # NoThread} = FailedIn(Workers)
    BY SyncQAssumption, WorkAssumption DEF Pool, Errors, FailedIn
  <2>3. at[Main] \in {"cleanup", "gone"} => err[Main] = Cardinality(FailedIn(Workers))
    BY DEF Pool, Errors
  <2>4. ~ alive => \A t \in Threads : pc[t] = "out" /\ at[t] \in {"exited", "submit", "gone"}
    BY WorkAssumption DEF Pool, Phases
  <2> QED  BY <2>1, <2>2, <2>3, <2>4, AllRun DEF RunsOnce
<1> QED  BY <1>1, PoolKept, PTL
=============================================================================

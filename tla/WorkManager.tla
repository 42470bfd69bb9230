---------------------------- MODULE WorkManager ----------------------------
(***************************************************************************)
(* src/posix/work.c: worker threads with a SyncQ each.  A submitter names  *)
(* the worker, or leaves the choice to a round robin under a mutex; NULL   *)
(* in its queue stops a worker.                                            *)
(***************************************************************************)
EXTENDS SyncQ

CONSTANTS NThreads,    (* wm->nthreads; workers and their queues are 0 ..  *)
          Main,        (* the thread that owns the manager                 *)
          Submitters,  (* other threads that submit work                   *)
          Jobs, NULL,  (* pieces of work; the stop request                 *)
          MainJobs,    (* what Main submits; the submitters do the rest    *)
          Named,       (* what may be sent to a worker by its number       *)
          Fails        (* the work whose function returns < 0              *)

Workers == 0 .. NThreads - 1
Mine(t) == IF t = Main THEN MainJobs ELSE Jobs \ MainJobs

ASSUME WorkAssumption ==
  /\ IsFiniteSet(Jobs) /\ NThreads \in Nat \ {0} /\ NULL \notin Jobs /\ Value = Jobs \cup {NULL} /\ Queues = Workers
  /\ Threads = Workers \cup Submitters \cup {Main}
  /\ Main \notin Workers /\ Submitters \cap Workers = {}

VARIABLES at,      (* where each thread is in the manager's code           *)
          todo,    (* work not yet submitted                               *)
          done,    (* value of the semaphore wm->done                      *)
          next,    (* wm->next                                             *)
          holder,  (* owner of wm->lock                                    *)
          pick,    (* per thread: next, as read under the lock             *)
          job,     (* per thread: argument of the call being made          *)
          i, err, alive,       (* as in JobManager                         *)
          ran,     (* history, per worker: the work run, in order          *)
          failed,  (* history: the worker in which work returned < 0       *)
          sent,    (* history, per thread: submissions <<work, worker>>    *)
          dealt    (* history, per worker: round robin assignments         *)

wm == <<at, todo, done, next, holder, pick, job, i, err, alive, ran, failed, sent, dealt>>
vars == <<syncq, wm>>

Init ==
  /\ QInit
  /\ at = [t \in Threads |-> IF t = Main THEN "create"
                             ELSE IF t \in Workers THEN "new" ELSE "submit"]
  /\ todo = Jobs /\ done = 0 /\ next = 0 /\ holder = NoThread
  /\ pick = [t \in Threads |-> 0] /\ job = [t \in Threads |-> NULL]
  /\ i = 0 /\ err = [t \in Threads |-> 0] /\ alive = TRUE
  /\ ran = [w \in Workers |-> <<>>] /\ failed = [j \in Jobs |-> NoThread]
  /\ sent = [t \in Threads |-> <<>>] /\ dealt = [w \in Workers |-> 0]

Move(t, l) == at' = [at EXCEPT ![t] = l]
-----------------------------------------------------------------------------
(* work_manager_init: pthread_create of worker i, or its failure. *)
Create ==
  /\ at[Main] = "create"
  /\ \/ /\ at' = [at EXCEPT ![i] = "loop",
                            ![Main] = IF i = NThreads - 1 THEN "submit" ELSE "create"]
        /\ i' = i + 1
     \/ Move(Main, "failed") /\ i' = i
  /\ UNCHANGED <<syncq, todo, done, next, holder, pick, job, err, alive, ran, failed, sent, dealt>>

(* work_manager_submit_work *)
Send(t, j, w) ==
  /\ EnqCall(t, w, j)
  /\ sent' = [sent EXCEPT ![t] = Append(@, <<j, w>>)]

SubmitTo(t) ==                       \* next names a worker
  /\ at[t] = "submit" /\ at[Main] \in {"submit", "deal"} /\ pc[t] = "out"
  /\ \E j \in todo \cap Mine(t) \cap Named, w \in Workers : Send(t, j, w) /\ todo' = todo \ {j}
  /\ UNCHANGED <<at, done, next, holder, pick, job, i, err, alive, ran, failed, dealt>>

SubmitAnyFault(t) ==                 \* fault: next is read and advanced without the lock
  /\ at[t] = "submit" /\ at[Main] \in {"submit", "deal"} /\ pc[t] = "out"
  /\ pick' = [pick EXCEPT ![t] = next] /\ Move(t, "deal") /\ UNCHANGED holder
  /\ \E j \in todo \cap Mine(t) : job' = [job EXCEPT ![t] = j] /\ todo' = todo \ {j}
  /\ UNCHANGED <<syncq, done, next, i, err, alive, ran, failed, sent, dealt>>

SubmitAny(t) ==                      \* next < 0 or next >= nthreads: lock, read
  /\ at[t] = "submit" /\ at[Main] \in {"submit", "deal"} /\ pc[t] = "out"
  /\ holder = NoThread /\ holder' = t
  /\ pick' = [pick EXCEPT ![t] = next] /\ Move(t, "deal")
  /\ \E j \in todo \cap Mine(t) : job' = [job EXCEPT ![t] = j] /\ todo' = todo \ {j}
  /\ UNCHANGED <<syncq, done, next, i, err, alive, ran, failed, sent, dealt>>

Deal(t) ==                           \* advance, unlock
  /\ at[t] = "deal" /\ holder' = NoThread
  /\ next' = (pick[t] + 1) % NThreads
  /\ dealt' = [dealt EXCEPT ![pick[t]] = @ + 1]
  /\ Send(t, job[t], pick[t]) /\ Move(t, "submit")
  /\ UNCHANGED <<todo, done, pick, job, i, err, alive, ran, failed>>
-----------------------------------------------------------------------------
(* thread_func *)
Get(w) ==
  /\ at[w] = "loop" /\ DeqCall(w, w) /\ Move(w, "got")
  /\ UNCHANGED <<todo, done, next, holder, pick, job, i, err, alive, ran, failed, sent, dealt>>

GotNull(w) ==
  /\ at[w] = "got" /\ pc[w] = "out" /\ val[w] = NULL
  /\ Move(w, "post")
  /\ UNCHANGED <<syncq, todo, done, next, holder, pick, job, i, err, alive, ran, failed, sent, dealt>>

RunFault(w) ==                       \* fault: the error count is not kept across jobs
  /\ at[w] = "got" /\ pc[w] = "out" /\ val[w] # NULL
  /\ ran' = [ran EXCEPT ![w] = Append(@, val[w])]
  /\ \/ val[w] \notin Fails /\ err' = [err EXCEPT ![w] = 0] /\ UNCHANGED failed
     \/ val[w] \in Fails /\ err' = [err EXCEPT ![w] = 1] /\ failed' = [failed EXCEPT ![val[w]] = w]
  /\ Move(w, "loop")
  /\ UNCHANGED <<syncq, todo, done, next, holder, pick, job, i, alive, sent, dealt>>

Run(w) ==
  /\ at[w] = "got" /\ pc[w] = "out" /\ val[w] # NULL
  /\ ran' = [ran EXCEPT ![w] = Append(@, val[w])]
  /\ \/ val[w] \notin Fails /\ UNCHANGED <<err, failed>>
     \/ val[w] \in Fails /\ err' = [err EXCEPT ![w] = @ + 1] /\ failed' = [failed EXCEPT ![val[w]] = w]
  /\ Move(w, "loop")
  /\ UNCHANGED <<syncq, todo, done, next, holder, pick, job, i, alive, sent, dealt>>

PostDone(w) ==                       \* sem_post: the increment
  /\ at[w] = "post" /\ done' = done + 1 /\ Move(w, "wake")
  /\ UNCHANGED <<syncq, todo, next, holder, pick, job, i, err, alive, ran, failed, sent, dealt>>

Exit(w) ==                           \* the rest of sem_post, and return
  /\ at[w] = "wake" /\ Move(w, "exited")
  /\ UNCHANGED <<syncq, todo, done, next, holder, pick, job, i, err, alive, ran, failed, sent, dealt>>
-----------------------------------------------------------------------------
(* work_manager_wait, called when everything has been submitted: NULL to   *)
(* every worker, as many acknowledgements, a join of every worker.         *)
Wait ==
  /\ at[Main] = "submit" /\ todo = {}
  /\ \A t \in Submitters \cup {Main} : pc[t] = "out" /\ at[t] = "submit"
  /\ i' = 0 /\ Move(Main, "pill")
  /\ UNCHANGED <<syncq, todo, done, next, holder, pick, job, err, alive, ran, failed, sent, dealt>>

Pill ==
  /\ at[Main] = "pill" /\ EnqCall(Main, i, NULL)
  /\ i' = i + 1
  /\ Move(Main, IF i = NThreads - 1 THEN "ack" ELSE "pill")
  /\ UNCHANGED <<todo, done, next, holder, pick, job, err, alive, ran, failed, sent, dealt>>

AckFault ==                          \* fault: one acknowledgement too few
  /\ at[Main] = "ack" /\ pc[Main] = "out" /\ done > 0
  /\ done' = done - 1 /\ i' = 0
  /\ Move(Main, IF i <= 2 THEN "join" ELSE "ack")
  /\ UNCHANGED <<syncq, todo, next, holder, pick, job, err, alive, ran, failed, sent, dealt>>

Ack ==                               \* i counts rem down
  /\ at[Main] = "ack" /\ pc[Main] = "out" /\ done > 0
  /\ done' = done - 1 /\ i' = i - 1
  /\ Move(Main, IF i = 1 THEN "join" ELSE "ack")
  /\ UNCHANGED <<syncq, todo, next, holder, pick, job, err, alive, ran, failed, sent, dealt>>

JoinFault ==                         \* fault: does not wait for the thread
  /\ at[Main] = "join"
  /\ err' = [err EXCEPT ![Main] = @ + err[i]] /\ i' = i + 1
  /\ Move(Main, IF i = NThreads - 1 THEN "cleanup" ELSE "join")
  /\ UNCHANGED <<syncq, todo, done, next, holder, pick, job, alive, ran, failed, sent, dealt>>

Join ==
  /\ at[Main] = "join" /\ at[i] = "exited"
  /\ err' = [err EXCEPT ![Main] = @ + err[i]] /\ i' = i + 1
  /\ Move(Main, IF i = NThreads - 1 THEN "cleanup" ELSE "join")
  /\ UNCHANGED <<syncq, todo, done, next, holder, pick, job, alive, ran, failed, sent, dealt>>

(* work_manager_cleanup *)
Cleanup ==
  /\ at[Main] = "cleanup" /\ alive' = FALSE /\ Move(Main, "gone")
  /\ UNCHANGED <<syncq, todo, done, next, holder, pick, job, i, err, ran, failed, sent, dealt>>

Step(t) ==
  \/ (QStep(t) /\ UNCHANGED wm)
  \/ (t \in Workers /\ (Get(t) \/ GotNull(t) \/ Run(t) \/ PostDone(t) \/ Exit(t)))
  \/ (t \in Submitters \cup {Main} /\ (SubmitTo(t) \/ SubmitAny(t) \/ Deal(t)))
  \/ (t = Main /\ (Create \/ Wait \/ Pill \/ Ack \/ Join \/ Cleanup))

Next == \E t \in Threads : Step(t)

Spec == Init /\ [][Next]_vars /\ \A t \in Threads : WF_vars(Step(t))
-----------------------------------------------------------------------------
Before(s, a, b) == \E m, n \in 1 .. Len(s) : m < n /\ s[m] = a /\ s[n] = b

(* Work that one thread serialised to one worker runs in the order it was  *)
(* submitted, whatever other threads submit at the same time.              *)
SerialisedInOrder ==
  \A t \in Threads, w \in Workers, a, b \in Jobs :
    (/\ Before(sent[t], <<a, w>>, <<b, w>>)
     /\ \E n \in 1 .. Len(ran[w]) : ran[w][n] = b) => Before(ran[w], a, b)

(* Load balancing is even: no worker is dealt two more than another.       *)
EvenDeal == \A v, w \in Workers : dealt[v] <= dealt[w] + 1

(* No piece of work runs twice, on whatever worker; once every             *)
(* acknowledgement is in, all of it has been run; work_manager_wait        *)
(* returns the number of failures, and nobody touches a queue or semaphore *)
(* after cleanup.                                                          *)
RunsOnce ==
  /\ \A v, w \in Workers : \A a \in 1 .. Len(ran[v]), b \in 1 .. Len(ran[w]) :
       ran[v][a] = ran[w][b] => v = w /\ a = b
  /\ at[Main] \in {"join", "cleanup", "gone"} =>
       \A j \in Jobs : \E w \in Workers : \E a \in 1 .. Len(ran[w]) : ran[w][a] = j
  /\ at[Main] \in {"cleanup", "gone"} => err[Main] = Cardinality({j \in Jobs : failed[j] # NoThread})
  /\ ~ alive => \A t \in Threads : pc[t] = "out" /\ at[t] \in {"exited", "submit", "gone"}

(* Once the manager is up, work_manager_wait returns.                      *)
WaitReturns == at[Main] = "submit" ~> at[Main] = "gone"
=============================================================================

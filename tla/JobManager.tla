----------------------------- MODULE JobManager -----------------------------
(***************************************************************************)
(* src/posix/job.c: a pool of worker threads fed from one SyncQ.  A NULL   *)
(* job tells a worker to stop; job_manager_wait stops the workers one by   *)
(* one, each stop acknowledged through the semaphore done, then joins them *)
(* and sums up their error counts.                                         *)
(***************************************************************************)
EXTENDS SyncQ

CONSTANTS NThreads,    (* nthreads; workers are 1 .. NThreads              *)
          Main,        (* the thread that owns the manager                 *)
          Submitters,  (* other threads that submit jobs                   *)
          Jobs, NULL   (* the jobs; the stop request                       *)

Workers == 1 .. NThreads

ASSUME JobAssumption ==
  /\ NThreads \in Nat \ {0} /\ NULL \notin Jobs /\ IsFiniteSet(Jobs) /\ Value = Jobs \cup {NULL}
  /\ Threads = Workers \cup Submitters \cup {Main}
  /\ Main \notin Workers /\ Submitters \cap Workers = {}

JM == CHOOSE q \in Queues : TRUE     \* jm->q

VARIABLES at,      (* where each thread is in the manager's code           *)
          todo,    (* jobs not yet submitted                               *)
          done,    (* value of the semaphore jm->done                      *)
          rem, i,  (* locals of job_manager_wait and _init                 *)
          err,     (* errors counted by each worker; by Main, their sum    *)
          ran,     (* history: the sequence of jobs run                    *)
          failed,  (* history: the worker in which a job returned < 0      *)
          alive    (* the manager is initialised and not cleaned up        *)

jm == <<at, todo, done, rem, i, err, ran, failed, alive>>
vars == <<syncq, jm>>

Init ==
  /\ QInit
  /\ at = [t \in Threads |-> IF t = Main THEN "create"
                             ELSE IF t \in Workers THEN "new" ELSE "submit"]
  /\ todo = Jobs /\ done = 0 /\ rem = 0 /\ i = 1
  /\ err = [t \in Threads |-> 0]
  /\ ran = <<>> /\ failed = [j \in Jobs |-> NoThread] /\ alive = TRUE

Move(t, l) == at' = [at EXCEPT ![t] = l]
-----------------------------------------------------------------------------
(* job_manager_init: one pthread_create per round; the first failure makes *)
(* it return -r, and the caller gets no manager.                           *)
Create ==
  /\ at[Main] = "create"
  /\ \/ /\ at' = [at EXCEPT ![i] = "loop", ![Main] = IF i = NThreads THEN "submit" ELSE "create"]
        /\ i' = i + 1
     \/ Move(Main, "failed") /\ i' = i
  /\ UNCHANGED <<syncq, todo, done, rem, err, ran, failed, alive>>

(* job_manager_submit_job, by Main or another thread, while Main submits.  *)
Submit(t) ==
  /\ at[t] = "submit" /\ at[Main] = "submit"
  /\ \E j \in todo : EnqCall(t, JM, j) /\ todo' = todo \ {j}
  /\ UNCHANGED <<at, done, rem, i, err, ran, failed, alive>>

(* thread_func: job_manager_get *)
Get(w) ==
  /\ at[w] = "loop" /\ DeqCall(w, JM) /\ Move(w, "got")
  /\ UNCHANGED <<todo, done, rem, i, err, ran, failed, alive>>

GotNull(w) ==
  /\ at[w] = "got" /\ pc[w] = "out" /\ val[w] = NULL
  /\ Move(w, "post")
  /\ UNCHANGED <<syncq, todo, done, rem, i, err, ran, failed, alive>>

RunFault(w) ==                       \* fault: an error ends the thread early
  /\ at[w] = "got" /\ pc[w] = "out" /\ val[w] # NULL
  /\ ran' = Append(ran, val[w])
  /\ \/ Move(w, "loop") /\ UNCHANGED <<err, failed>>
     \/ Move(w, "post") /\ err' = [err EXCEPT ![w] = @ + 1] /\ failed' = [failed EXCEPT ![val[w]] = w]
  /\ UNCHANGED <<syncq, todo, done, rem, i, alive>>

Run(w) ==
  /\ at[w] = "got" /\ pc[w] = "out" /\ val[w] # NULL
  /\ ran' = Append(ran, val[w])
  /\ \/ UNCHANGED <<err, failed>>
     \/ err' = [err EXCEPT ![w] = @ + 1] /\ failed' = [failed EXCEPT ![val[w]] = w]
  /\ Move(w, "loop")
  /\ UNCHANGED <<syncq, todo, done, rem, i, alive>>

(* sem_post(done): the increment, the rest of the call, the return. *)
PostDone(w) ==
  /\ at[w] = "post" /\ done' = done + 1 /\ Move(w, "wake")
  /\ UNCHANGED <<syncq, todo, rem, i, err, ran, failed, alive>>

Exit(w) ==
  /\ at[w] = "wake" /\ Move(w, "exited")
  /\ UNCHANGED <<syncq, todo, done, rem, i, err, ran, failed, alive>>
-----------------------------------------------------------------------------
(* job_manager_wait, called when everything has been submitted. *)
Wait ==
  /\ at[Main] = "submit" /\ todo = {} /\ \A t \in Submitters \cup {Main} : pc[t] = "out"
  /\ rem' = NThreads /\ i' = 1 /\ Move(Main, "pill")
  /\ UNCHANGED <<syncq, todo, done, err, ran, failed, alive>>

Pill ==
  /\ at[Main] = "pill" /\ EnqCall(Main, JM, NULL) /\ Move(Main, "ack")
  /\ UNCHANGED <<todo, done, rem, i, err, ran, failed, alive>>

AckFault ==                          \* fault: one acknowledgement too few
  /\ at[Main] = "ack" /\ pc[Main] = "out" /\ done > 0
  /\ done' = done - 1 /\ rem' = rem - 1
  /\ Move(Main, IF rem <= 2 THEN "join" ELSE "pill")
  /\ UNCHANGED <<syncq, todo, i, err, ran, failed, alive>>

(* sem_wait(done) *)
Ack ==
  /\ at[Main] = "ack" /\ pc[Main] = "out" /\ done > 0
  /\ done' = done - 1 /\ rem' = rem - 1
  /\ Move(Main, IF rem = 1 THEN "join" ELSE "pill")
  /\ UNCHANGED <<syncq, todo, i, err, ran, failed, alive>>

JoinFault ==                         \* fault: does not wait for the thread
  /\ at[Main] = "join"
  /\ err' = [err EXCEPT ![Main] = @ + err[i]]
  /\ i' = i + 1
  /\ Move(Main, IF i = NThreads THEN "cleanup" ELSE "join")
  /\ UNCHANGED <<syncq, todo, done, rem, ran, failed, alive>>

JoinLast ==                          \* fault: the last error count replaces the sum
  /\ at[Main] = "join" /\ at[i] = "exited"
  /\ err' = [err EXCEPT ![Main] = err[i]]
  /\ i' = i + 1
  /\ Move(Main, IF i = NThreads THEN "cleanup" ELSE "join")
  /\ UNCHANGED <<syncq, todo, done, rem, ran, failed, alive>>

(* pthread_join of worker i *)
Join ==
  /\ at[Main] = "join" /\ at[i] = "exited"
  /\ err' = [err EXCEPT ![Main] = @ + err[i]]
  /\ i' = i + 1
  /\ Move(Main, IF i = NThreads THEN "cleanup" ELSE "join")
  /\ UNCHANGED <<syncq, todo, done, rem, ran, failed, alive>>

(* job_manager_cleanup destroys the queue and the semaphores. *)
Cleanup ==
  /\ at[Main] = "cleanup" /\ alive' = FALSE /\ Move(Main, "gone")
  /\ UNCHANGED <<syncq, todo, done, rem, i, err, ran, failed>>

Step(t) ==
  \/ (QStep(t) /\ UNCHANGED jm)
  \/ (t \in Workers /\ (Get(t) \/ GotNull(t) \/ Run(t) \/ PostDone(t) \/ Exit(t)))
  \/ (t \in Submitters \cup {Main} /\ Submit(t))
  \/ (t = Main /\ (Create \/ Wait \/ Pill \/ Ack \/ Join \/ Cleanup))

Next == \E t \in Threads : Step(t)

(* Every thread that can run is eventually run; no fairness among waiters. *)
Spec == Init /\ [][Next]_vars /\ \A t \in Threads : WF_vars(Step(t))
-----------------------------------------------------------------------------
(* When job_manager_wait returns, every job has run exactly once; no job   *)
(* ever runs twice; it returns the number of jobs that failed.             *)
RunsOnce ==
  /\ \A a, b \in 1 .. Len(ran) : ran[a] = ran[b] => a = b
  /\ at[Main] \in {"join", "cleanup", "gone"} => {ran[a] : a \in 1 .. Len(ran)} = Jobs
  /\ at[Main] \in {"cleanup", "gone"} => err[Main] = Cardinality({j \in Jobs : failed[j] # NoThread})

(* The queue's indices and semaphores stay in range, and nobody touches    *)
(* them after job_manager_cleanup: not even the tail of a sem_post that    *)
(* has already woken Main.                                                 *)
NoUseAfterCleanup ==
  /\ QTypeOK
  /\ ~ alive => \A t \in Threads : pc[t] = "out" /\ at[t] \in {"exited", "submit", "gone"}

(* Once the manager is up, job_manager_wait returns: the stop requests and *)
(* acknowledgements neither get lost nor deadlock with a full queue.       *)
WaitReturns == at[Main] = "submit" ~> at[Main] = "gone"
=============================================================================

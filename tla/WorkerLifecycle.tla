--------------------------- MODULE WorkerLifecycle ---------------------------
(***************************************************************************)
(* WorkerLifecycle.h: the logical admission of one job at a time.  Running *)
(* is the job the device believes in, not the task that executes it: the   *)
(* task may still be unwinding an older job.                               *)
(*                                                                         *)
(* A handler maps the machine and an event to                              *)
(*   [worker |-> the machine after it, ended |-> the effect `finished']    *)
(* where ended is NoCompletion unless the transition ended a job.          *)
(***************************************************************************)
EXTENDS Lifecycle

Origins == {"user", "automatic"}
Outcomes == {"Success", "Failure", "Timeout", "NetworkLost", "Shutdown", "Preempted"}

IdleWorker == [running |-> FALSE, jobId |-> NoId, left |-> 0, origin |-> "user"]
WorkerType == [running : BOOLEAN, jobId : Nat, left : Nat, origin : Origins]
CompletionType == [id : Nat, outcome : Outcomes \cup {"None"}]

NoCompletion == [id |-> NoId, outcome |-> "None"]

WorkerStays(w) == [worker |-> w, ended |-> NoCompletion]
FinishWorker(w, outcome) ==
    [worker |-> IdleWorker, ended |-> [id |-> w.jobId, outcome |-> outcome]]

\* Submit is handled in Idle only; the budget is positive for every caller.
WorkerSubmit(w, id, budget, origin) ==
    IF w.running THEN WorkerStays(w)
    ELSE [worker |-> [running |-> TRUE, jobId |-> id, left |-> budget, origin |-> origin],
          ended  |-> NoCompletion]

\* Success and Failure: a result that names another job is counted as stale.
WorkerResult(w, id, outcome) ==
    IF w.running /\ id = w.jobId THEN FinishWorker(w, outcome) ELSE WorkerStays(w)

WorkerDeadlineExpired(w) ==
    IF w.running /\ w.left = 0 THEN FinishWorker(w, "Timeout") ELSE WorkerStays(w)

WorkerNetworkUnavailable(w) ==
    IF w.running THEN FinishWorker(w, "NetworkLost") ELSE WorkerStays(w)

WorkerShutdown(w) ==
    IF w.running THEN FinishWorker(w, "Shutdown") ELSE WorkerStays(w)

\* Only an automatic job is preempted; otherwise the event is only counted.
WorkerPreempt(w) ==
    IF w.running /\ w.origin = "automatic" THEN FinishWorker(w, "Preempted")
                                           ELSE WorkerStays(w)

\* Mutants: the identity is not compared; stopping is not looked at.
RuntimeAnyJobActive(w, id, stopping) == ~stopping /\ w.running /\ w.left > 0
RuntimeJobActiveWhileStopping(w, id, stopping) == w.running /\ w.jobId = id /\ w.left > 0

\* RuntimeAdmission.h: the job whose results still count.
RuntimeJobActive(w, id, stopping) ==
    ~stopping /\ w.running /\ w.jobId = id /\ w.left > 0
==============================================================================

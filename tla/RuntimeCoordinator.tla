-------------------------- MODULE RuntimeCoordinator --------------------------
(***************************************************************************)
(* RuntimeCoordinator.h: the four lifecycle machines, the facts their      *)
(* effects record, and the methods that deliver events between them.       *)
(*                                                                         *)
(* The class is one record `c'; a method is an operator from the record    *)
(* before the call to the record after it (paired with the result when the *)
(* method returns one).  Every call runs under the state mutex, so that a  *)
(* method is one atomic step of whoever calls it.                          *)
(*                                                                         *)
(* `f' offers the identities a method may give out: f.gen for a discovery, *)
(* f.request for a SUBSCRIBE request.  No method starts two of either.     *)
(*                                                                         *)
(* The display keeps what the properties tell apart: whose room it shows,  *)
(* whether the observation is stale, the command status, whether recovery  *)
(* is required, and which job owns the pending (optimistic) values.        *)
(***************************************************************************)
EXTENDS WorkerLifecycle, WifiLifecycle, SonosHealth, SubscriptionLifecycle

CONSTANTS
    ReadBudget, MutationBudget,     \* the job budgets
    PollInterval, RateLimit,        \* the cadence of automatic jobs
    Rooms, NoRoom                   \* room identities; NoRoom is the empty id

ASSUME RuntimeAssumption ==
    /\ ReadBudget \in Nat \ {0}
    /\ MutationBudget \in Nat \ {0}
    /\ PollInterval \in Nat
    /\ RateLimit \in Nat
    /\ NoRoom \notin Rooms

Statuses == {"idle", "pending", "succeeded", "uncertain", "failed"}

\* AppState as a session keeps it, and as the display shows it
NewAppState == [stale |-> TRUE, status |-> "idle", recovery |-> FALSE]
Displayed(state, room, pending) ==
    [target |-> room, stale |-> state.stale, status |-> state.status,
     recovery |-> state.recovery, pending |-> pending]

StateType == [stale : BOOLEAN, status : Statuses, recovery : BOOLEAN]
DisplayType ==
    [target : Rooms \cup {NoRoom}, stale : BOOLEAN, status : Statuses, recovery : BOOLEAN,
     pending : Nat]

CoordinatorType ==
    [worker : WorkerType, wifi : WifiType, sonos : SonosType,
     subscription : SubscriptionType(Hosts, Sids),
     completion : CompletionType,
     connect : BOOLEAN, availability : {"none", "up", "down"},
     discoveryPending : BOOLEAN, discardHost : BOOLEAN,
     invalidated : BOOLEAN, discoveryInvalidated : BOOLEAN, reconcile : BOOLEAN,
     request : Nat, topologyChanged : BOOLEAN,
     display : DisplayType,
     reconciliationPending : BOOLEAN, jobRefresh : BOOLEAN,
     discoveryResultReceived : BOOLEAN, workerDiscoveryId : Nat,
     rateLeft : Nat, pollLeft : Nat, preemptedJobs : SUBSET Nat]

InitialCoordinator ==
    [worker |-> IdleWorker, wifi |-> UnconfiguredWifi, sonos |-> OfflineSonos,
     subscription |-> InactiveSubscription,
     completion |-> NoCompletion,                       \* WorkerFacts
     connect |-> FALSE, availability |-> "none",        \* WifiFacts
     discoveryPending |-> FALSE, discardHost |-> FALSE, \* SonosFacts
     invalidated |-> FALSE, discoveryInvalidated |-> FALSE, reconcile |-> FALSE,
     request |-> NoId, topologyChanged |-> FALSE,       \* SubscriptionFacts
     display |-> Displayed(NewAppState, NoRoom, NoId),
     reconciliationPending |-> FALSE, jobRefresh |-> FALSE,
     discoveryResultReceived |-> FALSE, workerDiscoveryId |-> NoId,
     rateLeft |-> 0, pollLeft |-> PollInterval, preemptedJobs |-> {}]

------------------------------------------------------------------------------
(* Events and the facts their effects record *)

WifiEvent(c, r) ==
    [c EXCEPT !.wifi = r.wifi, !.connect = @ \/ r.connect,
              !.availability = IF r.availability = "none" THEN @ ELSE r.availability]

WorkerEvent(c, r) ==
    [c EXCEPT !.worker = r.worker,
              !.completion = IF r.ended = NoCompletion THEN @ ELSE r.ended]

SonosEvent(c, r) ==
    LET discovery == "invalidateDiscovery" \in r.fx
        revoked == discovery \/ "invalidateSession" \in r.fx
    IN  [c EXCEPT !.sonos = r.sonos,
                  !.discoveryPending = ~revoked /\ (@ \/ "discoveryRequested" \in r.fx),
                  !.invalidated = @ \/ revoked,
                  !.discoveryInvalidated = @ \/ discovery,
                  !.discardHost = @ \/ discovery,
                  !.reconcile = @ \/ "reconcile" \in r.fx]

SubscriptionEvent(c, r) ==
    [c EXCEPT !.subscription = r.sub,
              !.request = IF r.request = NoId THEN @ ELSE r.request,
              !.topologyChanged = @ \/ r.changed]

------------------------------------------------------------------------------
(* Delivery of the recorded facts *)

StopSonos(c) == SonosEvent(c, SonosStop(c.sonos))
StopSubscription(c) == SubscriptionEvent(c, SubStop(c.subscription))
FailSession(c) == SonosEvent(c, SonosSessionFailure(c.sonos, c.workerDiscoveryId))
FailDiscovery(c) == SonosEvent(c, SonosDiscoveryFailed(c.sonos, c.workerDiscoveryId))

\* Mutant: the subscription outlives its discovery.
RevokeNothing(c) ==
    IF c.invalidated /\ c.discoveryInvalidated THEN [c EXCEPT !.discoveryInvalidated = FALSE] ELSE c

\* Discovery authority that is revoked takes the subscription with it.
RevokeSubscription(c) ==
    IF c.invalidated /\ c.discoveryInvalidated
    THEN [StopSubscription(c) EXCEPT !.discoveryInvalidated = FALSE, !.request = NoId]
    ELSE c

\* A recovered household and an announced change of it both owe a read.
OweReconciliation(c) ==
    [c EXCEPT !.reconciliationPending = @ \/ c.reconcile \/ c.topologyChanged,
              !.reconcile = FALSE, !.topologyChanged = FALSE]

ApplySonosFacts(c) ==
    OweReconciliation([RevokeSubscription(c) EXCEPT !.invalidated = FALSE,
                                                    !.display.stale = @ \/ c.invalidated])

\* Nothing vouches for what the display shows; a command in progress may or
\* may not have been carried out.
DisplayUncertain(c) ==
    [c EXCEPT !.display.stale = TRUE,
              !.display.status = IF @ = "pending" THEN "uncertain" ELSE @,
              !.display.recovery = @ \/ c.display.status = "pending"]

\* A job that ended without an answer also fails the session it was bound to.
LoseSession(c) ==
    DisplayUncertain(ApplySonosFacts(IF c.workerDiscoveryId # NoId THEN FailSession(c) ELSE c))

\* The completion is taken, and the pending values of the job that ended go.
TakeCompletion(c) ==
    [c EXCEPT !.completion = NoCompletion,
              !.display.pending = IF @ = c.completion.id THEN NoId ELSE @]

\* Mutant: a preempted job counts as a failed one.
EndJobFailingPreempted(c, outcome, reconcileFailure) ==
    IF outcome \in {"Success", "Failure", "Preempted"}
    THEN [c EXCEPT !.reconciliationPending =
             @ \/ (outcome # "Success" /\ (outcome = "Failure" => reconcileFailure))]
    ELSE LoseSession([c EXCEPT !.reconciliationPending = TRUE])

\* Nothing failed when a read was preempted.
EndJob(c, outcome, reconcileFailure) ==
    CASE outcome = "Preempted" -> c
      [] outcome \in {"Success", "Failure"} ->
             [c EXCEPT !.reconciliationPending = @ \/ (outcome = "Failure" /\ reconcileFailure)]
      [] OTHER -> LoseSession([c EXCEPT !.reconciliationPending = TRUE])

DeliverCompletion(c, reconcileFailure) ==
    IF c.completion = NoCompletion THEN c
    ELSE EndJob(TakeCompletion(c), c.completion.outcome, reconcileFailure)

ApplyFacts(c, reconcileFailure) == DeliverCompletion(ApplySonosFacts(c), reconcileFailure)

\* What the availability the Wi-Fi machine reported means for its peers.
DeliverAvailability(c, availability, f) ==
    CASE availability = "up" ->
           ApplyFacts([SonosEvent(c, SonosNetworkAvailable(c.sonos, f.gen))
                          EXCEPT !.reconciliationPending = TRUE], TRUE)
      [] availability = "down" ->
           [ApplyFacts(WorkerEvent(StopSonos(c), WorkerNetworkUnavailable(c.worker)), TRUE)
                EXCEPT !.display.stale = TRUE]
      [] OTHER -> c

ApplyAvailability(c, f) ==
    DeliverAvailability([c EXCEPT !.availability = "none"], c.availability, f)

\* Mutant: deadlines are left to the task.
ExpireNothing(c) == c

ExpireWorker(c) == ApplyFacts(WorkerEvent(c, WorkerDeadlineExpired(c.worker)), TRUE)

------------------------------------------------------------------------------
(* Calls of the main loop *)

ConfigAvailable(c, f) == ApplyAvailability(WifiEvent(c, WifiConfigAvailable(c.wifi)), f)

ShutdownWorker(c) == ApplyFacts(WorkerEvent(c, WorkerShutdown(c.worker)), TRUE)
ShutdownWifi(c) == [WifiEvent(c, WifiShutdown(c.wifi)) EXCEPT !.connect = FALSE]
ShutdownSonos(c) == ApplyFacts(StopSonos(c), TRUE)

\* The last availability is dropped: shutdown ends the Sonos machine itself.
Shutdown(c) ==
    [StopSubscription(ShutdownSonos(ShutdownWifi(ShutdownWorker(c))))
        EXCEPT !.request = NoId, !.availability = "none"]

\* A status sampled before the connection was begun cannot be its result.
ObserveRadio(c, observedOnline) ==
    IF c.wifi.state = "Connecting" /\ observedOnline /\ ~c.connect
    THEN WifiEvent(c, WifiConnected(c.wifi))
    ELSE IF c.wifi.state = "Online" /\ ~observedOnline
    THEN WifiEvent(c, WifiDisconnected(c.wifi))
    ELSE c

ServiceWifi(c, observedOnline, f) ==
    ApplyAvailability(ObserveRadio(WifiEvent(c, WifiTick(c.wifi)), observedOnline), f)

TickSonos(c, gen) == ApplyFacts(SonosEvent(c, SonosTick(c.sonos, gen)), TRUE)
TickSubscription(c, request) ==
    ApplyFacts(SubscriptionEvent(c, SubTick(c.subscription, request)), TRUE)

Service(c, f) == TickSubscription(TickSonos(ExpireWorker(c), f.gen), f.request)

------------------------------------------------------------------------------
(* Admission, preemption and the job queue *)

Preemptable(c, origin) ==
    origin = "user" /\ c.worker.running /\ c.worker.origin = "automatic"

\* A routine refresh opened by the automatic job is handed to the user job.
Routine(c, origin) ==
    /\ Preemptable(c, origin)
    /\ c.sonos.state = "Discovering" /\ ~c.sonos.recovering
    /\ c.workerDiscoveryId # NoId /\ c.workerDiscoveryId = c.sonos.discoveryId

\* Mutant: the running job is not looked at.
AdmittedWhileBusy(c, refresh, origin, stopping) ==
    ~stopping /\ c.wifi.ready /\ (c.sonos.state = "Ready" \/ (refresh /\ c.sonos.state = "Discovering"))

\* admission, after the service call it starts with
Admitted(c, refresh, origin, stopping) ==
    /\ ~c.worker.running \/ Preemptable(c, origin)
    /\ ~stopping
    /\ c.wifi.ready
    /\ \/ c.sonos.state = "Ready"
       \/ Routine(c, origin)
       \/ refresh /\ c.sonos.state = "Discovering"

\* Mutant: the generation the preempted read had opened is left to its deadline.
PreemptRunningDroppingGeneration(c) ==
    IF c.worker.running /\ c.worker.origin = "automatic"
    THEN ApplyFacts([WorkerEvent(c, WorkerPreempt(c.worker))
                        EXCEPT !.preemptedJobs = @ \cup {c.worker.jobId}], TRUE)
    ELSE c

\* The generation the preempted read had opened is offered to the next job.
PreemptRunning(c) ==
    IF c.worker.running /\ c.worker.origin = "automatic"
    THEN ApplyFacts([WorkerEvent(c, WorkerPreempt(c.worker))
                        EXCEPT !.preemptedJobs = @ \cup {c.worker.jobId},
                               !.discoveryPending =
                                   \/ @
                                   \/ /\ c.sonos.state = "Discovering"
                                      /\ c.workerDiscoveryId # NoId
                                      /\ c.workerDiscoveryId = c.sonos.discoveryId], TRUE)
    ELSE c

PreemptAutomatic(c) == PreemptRunning(ExpireWorker(c))

\* A new job is bound to no generation yet; the pending values appear only for
\* a user's mutation.
StartJob(c, id, refresh, origin) ==
    [WorkerEvent(c, WorkerSubmit(c.worker, id, IF refresh THEN ReadBudget ELSE MutationBudget,
                                 origin))
        EXCEPT !.workerDiscoveryId = NoId, !.discoveryResultReceived = FALSE,
               !.jobRefresh = refresh,
               !.display.pending = IF ~refresh /\ origin = "user" THEN id ELSE @]

\* enqueueJob once admission has passed and the queue took the job
CommitJob(c, id, refresh, origin) ==
    StartJob(IF Preemptable(c, origin) THEN PreemptAutomatic(c) ELSE c, id, refresh, origin)

\* automaticJobDue, after the service call it starts with
AutomaticJobDue(c, stopping) ==
    /\ ~stopping /\ c.wifi.ready /\ ~c.worker.running /\ c.rateLeft = 0
    /\ \/ c.sonos.state = "Discovering" /\ c.discoveryPending
       \/ c.sonos.state = "Ready" /\ (c.reconciliationPending \/ c.pollLeft = 0)

TakeAutomaticTurn(c) ==
    [c EXCEPT !.rateLeft = RateLimit, !.pollLeft = PollInterval, !.reconciliationPending = FALSE]

------------------------------------------------------------------------------
(* Calls of the worker task *)

\* A job that is not bound yet opens a generation of a Ready household.
OpenGeneration(c, gen) ==
    ApplyFacts(IF c.workerDiscoveryId = NoId
               THEN SonosEvent(c, SonosRefreshRequested(c.sonos, gen)) ELSE c, TRUE)

BindGeneration(c) ==
    IF c.sonos.state = "Discovering" /\ c.workerDiscoveryId \in {NoId, c.sonos.discoveryId}
    THEN [c |-> [c EXCEPT !.workerDiscoveryId = c.sonos.discoveryId,
                          !.discoveryPending = FALSE, !.discardHost = FALSE],
          discoveryId |-> c.sonos.discoveryId]
    ELSE [c |-> c, discoveryId |-> NoId]

\* Mutant: a Ready household is used as it was last found.
BindActiveJobCached(c, jobId, gen) ==
    IF RuntimeJobActive(c.worker, jobId, FALSE)
    THEN [c |-> [c EXCEPT !.workerDiscoveryId = c.sonos.discoveryId], discoveryId |-> c.sonos.discoveryId]
    ELSE [c |-> c, discoveryId |-> NoId]

BindActiveJob(c, jobId, gen) ==
    IF RuntimeJobActive(c.worker, jobId, FALSE) THEN BindGeneration(OpenGeneration(c, gen))
    ELSE [c |-> c, discoveryId |-> NoId]

BindDiscovery(c, jobId, f) == BindActiveJob(Service(c, f), jobId, f.gen)

\* The household answered for the generation the running job is bound to, for
\* the first time.
ReportDiscovery(c, discoveryId, ok) ==
    ApplyFacts(SonosEvent([c EXCEPT !.discoveryResultReceived = TRUE],
                   IF ok THEN SonosDiscoverySucceeded(c.sonos, discoveryId)
                         ELSE SonosDiscoveryFailed(c.sonos, discoveryId)), TRUE)

\* The publisher is where the household was found; a read settles what is owed.
UseHousehold(c, host, request) ==
    ApplyFacts([SubscriptionEvent(c, SubNetworkAvailable(c.subscription, host, request))
                   EXCEPT !.reconciliationPending = @ /\ ~c.jobRefresh], TRUE)

AcceptHousehold(c, discoveryId, ok, host, request) ==
    IF ok /\ SonosUsable(c.sonos, discoveryId)
    THEN [c |-> UseHousehold(c, host, request), accepted |-> TRUE]
    ELSE [c |-> c, accepted |-> FALSE]

TakeDiscoveryResult(c, jobId, discoveryId, ok, host, request) ==
    IF /\ RuntimeJobActive(c.worker, jobId, FALSE)
       /\ discoveryId # NoId /\ discoveryId = c.workerDiscoveryId
       /\ ~c.discoveryResultReceived
    THEN AcceptHousehold(ReportDiscovery(c, discoveryId, ok), discoveryId, ok, host, request)
    ELSE [c |-> c, accepted |-> FALSE]

DiscoveryResult(c, jobId, discoveryId, ok, host, f) ==
    TakeDiscoveryResult(ExpireWorker(c), jobId, discoveryId, ok, host, f.request)

\* What a finished job tells the Sonos machine.
ReportHealth(c, input) ==
    IF /\ c.workerDiscoveryId # NoId /\ ~c.discoveryResultReceived
       /\ c.sonos.state = "Discovering"
    THEN ApplyFacts(FailDiscovery(c), TRUE)
    ELSE IF input.targetUsable /\ ~input.sessionOk /\ input.transportFailed
    THEN ApplyFacts(FailSession(c), TRUE)
    ELSE IF input.targetUsable /\ input.sessionOk
    THEN SonosEvent(c, SonosSessionSucceeded(c.sonos, c.workerDiscoveryId))
    ELSE c

\* A failure that says nothing about the room owes no read.
FailureOwesRead(c, input) ==
    /\ c.workerDiscoveryId # NoId
    /\ \/ input.targetUsable
       \/ ~c.discoveryResultReceived
       \/ ~SonosUsable(c.sonos, c.workerDiscoveryId)

\* The result of the running job, or a stale one that is only counted.
ReportResult(c, jobId, input, reconcileFailure) ==
    ApplyFacts(WorkerEvent(c, WorkerResult(c.worker, jobId,
                   IF input.targetUsable /\ input.sessionOk THEN "Success" ELSE "Failure")),
               reconcileFailure)

EndRunningJob(c, jobId, input) == ReportResult(c, jobId, input, FailureOwesRead(c, input))

\* The identity of a preempted job is erased when its task reports back.
ErasePreempted(c, jobId) == [c EXCEPT !.preemptedJobs = @ \ {jobId}]

\* A task whose job is not the running one learns whether it was preempted.
FinishExpired(c, jobId, input) ==
    IF c.worker.running /\ c.worker.jobId = jobId
    THEN [c |-> EndRunningJob(ReportHealth(c, input), jobId, input), finish |-> "Accepted"]
    ELSE IF jobId \in c.preemptedJobs
    THEN [c |-> ErasePreempted(c, jobId), finish |-> "Preempted"]
    ELSE [c |-> ReportResult(c, jobId, input, TRUE), finish |-> "Cancelled"]

FinishJob(c, jobId, input) == FinishExpired(ExpireWorker(c), jobId, input)

\* RuntimeAdmission.h: the fence every HTTP request passes at dispatch
DispatchAllowed(c, jobId, discoveryId, stopping, mutation) ==
    /\ RuntimeJobActive(c.worker, jobId, stopping)
    /\ c.wifi.ready /\ c.sonos.network
    /\ discoveryId # NoId /\ c.sonos.discoveryId = discoveryId
    /\ \/ c.sonos.state = "Ready"
       \/ ~mutation /\ c.sonos.state = "Discovering" /\ c.sonos.left > 0

\* A session's publication keeps the display's pending values.
Publish(c, jobId, room, state, selected, stopping) ==
    IF RuntimeJobActive(c.worker, jobId, stopping) /\ room = selected
    THEN [c EXCEPT !.display = Displayed(state, room, c.display.pending)]
    ELSE c

\* Mutant: the observation is cleared, the room it is of is not.
SelectObservationOnly(c, room) ==
    IF c.display.target = room THEN c ELSE [c EXCEPT !.display.stale = TRUE]

\* selectObservedRoom: another room starts from nothing, pending values included.
SelectObservedRoom(c, room) ==
    IF c.display.target = room THEN c
    ELSE [c EXCEPT !.display = Displayed(NewAppState, room, NoId)]

SubscriptionActive(c, id, stopping) ==
    ~stopping /\ c.wifi.ready /\ SubActive(c.subscription, id)

SubscriptionResult(c, id, ok, sid, lease) ==
    ApplyFacts(SubscriptionEvent(c,
        IF ok THEN SubRequestSucceeded(c.subscription, id, sid, lease)
              ELSE SubRequestFailed(c.subscription, id)), TRUE)

\* Mutant: the change is recorded but not delivered.
NotifyUndelivered(c, sid, stopping) ==
    IF stopping THEN c ELSE SubscriptionEvent(c, SubNotifyReceived(c.subscription, sid))

Notify(c, sid, stopping) ==
    IF stopping THEN c
    ELSE ApplyFacts(SubscriptionEvent(c, SubNotifyReceived(c.subscription, sid)), TRUE)

\* The service call only has work when a deadline, a retry or a lease is due.
ServiceIsIdempotent(c, f) == Service(Service(c, f), f) = Service(c, f)
==============================================================================

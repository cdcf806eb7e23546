------------------------------- MODULE Runtime -------------------------------
(***************************************************************************)
(* Runtime.cpp: the main task and the worker task around the coordinator.  *)
(*                                                                         *)
(* The main task services the lifecycles, admits input, enqueues automatic *)
(* reads, preempts for maintenance and stops the device.  The worker task  *)
(* takes one job at a time from a queue of two, reads the household        *)
(* topology, then reads or commands the target room through that room's    *)
(* session, and finishes the job.  The tasks meet at the state mutex: one  *)
(* action is one locked section, or one stretch of network work between    *)
(* two of them.                                                            *)
(***************************************************************************)
EXTENDS RuntimeCoordinator, Sequences

CONSTANTS
    JobIds, GenerationIds, RequestIds,  \* finite pools of identities
    UserKinds,          \* the kinds of user jobs that are submitted
    Topologies,         \* the sets of eligible rooms the household may report
    Leases,             \* the leases a publisher may grant
    RadioReports,       \* what the radio may report: online, offline or both
    Sleeps              \* the device may be put to sleep or restarted

ASSUME RuntimeTaskAssumption ==
    /\ JobIds \subseteq Nat \ {NoId}
    /\ GenerationIds \subseteq Nat \ {NoId}
    /\ RequestIds \subseteq Nat \ {NoId}
    /\ UserKinds \subseteq {"refresh", "select", "cycle", "mutation"}
    /\ Topologies \subseteq SUBSET Rooms
    /\ Leases \subseteq Nat
    /\ RadioReports \subseteq BOOLEAN
    /\ Sleeps \in BOOLEAN

VARIABLES
    c,          \* the coordinator with the display
    queue,      \* jobs sent to the worker task
    hand,       \* the job the worker task executes, and how far it got
    sessions,   \* the state each room's session keeps
    rooms,      \* selection.rooms: the eligible rooms of the last topology
    selected,   \* selection.selectedId
    main        \* the main task: "boot", "up", "stopping" or "down"

vars == <<c, queue, hand, sessions, rooms, selected, main>>
selection == <<rooms, selected>>

QueueDepth == 2
Stopping == main \in {"stopping", "down"}

NoJob == [id |-> NoId, kind |-> "none", origin |-> "user", room |-> NoRoom]
NoSession == [stale |-> TRUE, status |-> "none", recovery |-> FALSE]
IdleHand ==
    [pc |-> "idle", job |-> NoJob, discoveryId |-> NoId, room |-> NoRoom, result |-> "none",
     retained |-> NoSession, request |-> NoId]

IsRead(job) == job.kind # "mutation"
QueuedIds == {queue[i].id : i \in DOMAIN queue}

JobIdsHeld == QueuedIds \cup c.preemptedJobs
                \cup {c.worker.jobId, hand.job.id, c.display.pending}
FreshIds ==
    [gen : FreshIn(GenerationIds, {c.sonos.discoveryId, c.workerDiscoveryId, hand.discoveryId}),
     request : FreshIn(RequestIds, {c.subscription.requestId, c.request, hand.request})]

Active == RuntimeJobActive(c.worker, hand.job.id, Stopping)
Allowed(mutation) == DispatchAllowed(c, hand.job.id, hand.discoveryId, Stopping, mutation)

Init ==
    /\ c = InitialCoordinator
    /\ queue = <<>>
    /\ hand = IdleHand
    /\ sessions = [r \in Rooms |-> NewAppState]
    /\ rooms = {}
    /\ selected = NoRoom
    /\ main = "boot"

------------------------------------------------------------------------------
(* The main task *)

\* begin: connect if configured, then start the worker task.
Boot ==
    /\ main = "boot"
    /\ main' = "up"
    /\ \E f \in FreshIds, configured \in BOOLEAN :
          c' = [ServiceWifi(IF configured THEN ConfigAvailable(c, f) ELSE c, FALSE, f)
                   EXCEPT !.connect = FALSE, !.reconciliationPending = TRUE]
    /\ UNCHANGED <<queue, hand, sessions, selection>>

MainService ==
    /\ main = "up"
    /\ \E f \in FreshIds : c' = Service(c, f)
    /\ UNCHANGED <<queue, hand, sessions, selection, main>>

\* serviceWifi: observe the radio, then drain and carry out the effects.
MainServiceWifi ==
    /\ main = "up"
    /\ \E f \in FreshIds, online \in RadioReports :
          c' = [ServiceWifi(c, online, f) EXCEPT !.connect = FALSE]
    /\ UNCHANGED <<queue, hand, sessions, selection, main>>

\* An admitted input: the job is queued, then committed; selecting a room
\* shows it at once.
AcceptUserJob(serviced, id, kind, room) ==
    /\ Admitted(serviced, kind # "mutation", "user", FALSE)
    /\ queue' = Append(queue, [id |-> id, kind |-> kind, origin |-> "user", room |-> room])
    /\ \E committed \in {CommitJob(serviced, id, kind # "mutation", "user")} :
          c' = IF kind = "select" THEN SelectObservedRoom(committed, room) ELSE committed

\* submit and selectRoom after validation.  A rejected input leaves only what
\* admission's service call did, which is MainService.
UserJob(kind, room) ==
    /\ main = "up" /\ Len(queue) < QueueDepth
    /\ kind = "mutation" => room = selected /\ room \in rooms
    /\ kind = "select" => room \in rooms
    /\ kind \in {"refresh", "cycle"} => room = NoRoom
    /\ \E f \in FreshIds, id \in FreshIn(JobIds, JobIdsHeld) :
          \E serviced \in {Service(c, f)} : AcceptUserJob(serviced, id, kind, room)
    /\ selected' = IF kind = "select" THEN room ELSE selected
    /\ UNCHANGED <<hand, sessions, rooms, main>>

UserInput == \E kind \in UserKinds, room \in Rooms \cup {NoRoom} : UserJob(kind, room)

\* A turn that is due is taken even when the queue then refuses the job.
QueueAutomaticJob(turn, id) ==
    IF Admitted(turn, TRUE, "automatic", FALSE) /\ Len(queue) < QueueDepth
    THEN /\ c' = CommitJob(turn, id, TRUE, "automatic")
         /\ queue' = Append(queue, [id |-> id, kind |-> "refresh", origin |-> "automatic",
                                    room |-> NoRoom])
    ELSE c' = turn /\ UNCHANGED queue

AutomaticJob ==
    /\ main = "up"
    /\ \E f \in FreshIds, id \in FreshIn(JobIds, JobIdsHeld) :
          \E serviced \in {Service(c, f)} :
             AutomaticJobDue(serviced, FALSE) /\ QueueAutomaticJob(TakeAutomaticTurn(serviced), id)
    /\ UNCHANGED <<hand, sessions, selection, main>>

\* idleForMaintenance, before a USB config or reboot.  The device restarts, or
\* stays up when the settings could not be saved or the read had just expired.
Maintenance ==
    /\ main = "up"
    /\ c.worker.running => c.worker.origin = "automatic"
    /\ c' = IF c.worker.running THEN PreemptAutomatic(c) ELSE c
    /\ main' \in {"up"} \cup IF Sleeps THEN {"down"} ELSE {}
    /\ main' = "down" /\ c.worker.running => c.worker.left > 0
    /\ UNCHANGED <<queue, hand, sessions, selection>>

\* Inactivity: stopping is visible to the worker before shutdown takes the lock.
PowerOff ==
    /\ main = "up" /\ Sleeps
    /\ main' = "stopping"
    /\ UNCHANGED <<c, queue, hand, sessions, selection>>

MainShutdown ==
    /\ main = "stopping"
    /\ main' = "down"
    /\ c' = Shutdown(c)
    /\ UNCHANGED <<queue, hand, sessions, selection>>

------------------------------------------------------------------------------
(* The worker task: topology events, between jobs *)

\* TopologyEvents::service: take the pending SUBSCRIBE, if it is still wanted.
TakeRequest ==
    /\ hand.pc = "idle" /\ ~Stopping /\ c.request # NoId
    /\ c' = [c EXCEPT !.request = NoId]
    /\ hand' = IF SubscriptionActive(c, c.request, Stopping)
               THEN [IdleHand EXCEPT !.pc = "subscribing", !.request = c.request]
               ELSE IdleHand
    /\ UNCHANGED <<queue, sessions, selection, main>>

\* The response, whatever happened to the lifecycle while it was awaited.
RequestAnswered ==
    /\ hand.pc = "subscribing"
    /\ \/ c' = SubscriptionResult(c, hand.request, FALSE, NoSid, 0)
       \/ \E sid \in Sids \cup {NoSid}, lease \in Leases :
             c' = SubscriptionResult(c, hand.request, TRUE, sid, lease)
    /\ hand' = IdleHand
    /\ UNCHANGED <<queue, sessions, selection, main>>

\* TopologyEvents::poll: a NOTIFY carrying some SID.
NotifyArrives ==
    /\ hand.pc = "idle" /\ ~Stopping
    /\ \E sid \in Sids : c' = Notify(c, sid, Stopping)
    /\ UNCHANGED <<queue, hand, sessions, selection, main>>

------------------------------------------------------------------------------
(* The worker task: one job *)

Receive ==
    /\ hand.pc = "idle" /\ ~Stopping /\ queue # <<>>
    /\ hand' = [IdleHand EXCEPT !.pc = "pickup", !.job = Head(queue)]
    /\ queue' = Tail(queue)
    /\ UNCHANGED <<c, sessions, selection, main>>

\* An ended job is finished unread; otherwise it is bound to a generation.  The
\* job may end, or the device begin to stop, between the look and the binding.
Pickup ==
    /\ hand.pc = "pickup"
    /\ \/ ~Active /\ c' = c /\ hand' = [hand EXCEPT !.pc = "finish"]
       \/ \E f \in FreshIds :
             \E b \in {BindDiscovery(c, hand.job.id, f)} :
                 /\ c' = b.c
                 /\ hand' = [hand EXCEPT !.discoveryId = b.discoveryId,
                                         !.pc = IF b.discoveryId = NoId THEN "finish"
                                                                        ELSE "topology"]
    /\ UNCHANGED <<queue, sessions, selection, main>>

\* readHouseholdTopology: every request passes the dispatch fence.
ReadTopology ==
    /\ hand.pc = "topology"
    /\ \E result \in {"ok", "failed"} :
          /\ result = "ok" => Allowed(FALSE)
          /\ hand' = [hand EXCEPT !.pc = "topologyRead", !.result = result]
    /\ UNCHANGED <<c, queue, sessions, selection, main>>

\* RoomSelection::update keeps the selected room while it is eligible;
\* RoomSelection::cycle moves to another one.
NextSelected(eligible, cycle) ==
    IF eligible = {} THEN {NoRoom}
    ELSE LET kept == IF selected \in eligible THEN {selected} ELSE eligible
         IN  IF ~cycle THEN kept
             ELSE {r \in eligible : \E k \in kept : r # k \/ eligible = {k}}

Abandon ==
    /\ hand' = [hand EXCEPT !.pc = "finish", !.result = "none"]
    /\ UNCHANGED <<c, selection>>

\* The locked section after the topology read: the health of the household,
\* the room projection, and which session the job will use.
UseTopology(d, eligible, chosen) ==
    LET ok == hand.result = "ok" /\ d.accepted
        shown == IF ok THEN d.c ELSE [d.c EXCEPT !.display.stale = TRUE]
        target == IF IsRead(hand.job) THEN chosen ELSE hand.job.room
        usable == ok /\ target \in eligible
        changed == shown.display.target # chosen \/ hand.job.kind \in {"select", "cycle"}
    IN  /\ chosen \in IF ok THEN NextSelected(eligible, hand.job.kind = "cycle") ELSE {selected}
        /\ eligible # rooms => ok
        /\ rooms' = eligible
        /\ selected' = chosen
        /\ c' = SelectObservedRoom(shown, chosen)
        /\ hand' = [hand EXCEPT !.result = "none",
                       !.room = IF usable THEN target ELSE NoRoom,
                       !.pc = IF ~usable THEN "unavailable"
                              ELSE IF ~IsRead(hand.job) THEN "submit"
                              ELSE IF changed THEN "invalidate" ELSE "read"]

ApplyTopology ==
    /\ hand.pc = "topologyRead"
    /\ IF ~Active THEN Abandon
       ELSE \E f \in FreshIds, host \in Hosts, eligible \in Topologies \cup {rooms},
               chosen \in Rooms \cup {NoRoom} :
               \E d \in {DiscoveryResult(c, hand.job.id, hand.discoveryId, hand.result = "ok",
                                         host, f)} : UseTopology(d, eligible, chosen)
    /\ UNCHANGED <<queue, sessions, main>>

PublishSession(state) ==
    Publish(c, hand.job.id, hand.room, state, selected, Stopping)

\* No usable target: the display is published again, marked stale.
PublishUnavailable ==
    /\ hand.pc = "unavailable"
    /\ c' = Publish(c, hand.job.id, c.display.target,
                    [stale |-> TRUE, status |-> c.display.status,
                     recovery |-> c.display.recovery], selected, Stopping)
    /\ hand' = [hand EXCEPT !.pc = "finish"]
    /\ UNCHANGED <<queue, sessions, selection, main>>

\* A changed room drops its session's observation, then shows a loading state.
Invalidate ==
    /\ hand.pc = "invalidate"
    /\ sessions' = [sessions EXCEPT ![hand.room].stale = TRUE]
    /\ c' = PublishSession(sessions'[hand.room])
    /\ hand' = [hand EXCEPT !.pc = "loading"]
    /\ UNCHANGED <<queue, selection, main>>

Loading ==
    /\ hand.pc = "loading"
    /\ c' = PublishSession(NewAppState)
    /\ hand' = [hand EXCEPT !.pc = "read"]
    /\ UNCHANGED <<queue, sessions, selection, main>>

\* Application::reconcile, the network part
ReadRoom ==
    /\ hand.pc = "read"
    /\ \E result \in {"ok", "failed"} :
          /\ result = "ok" => Allowed(FALSE)
          /\ hand' = [hand EXCEPT !.pc = "roomRead", !.result = result,
                                  !.retained = sessions[hand.room]]
    /\ UNCHANGED <<c, queue, sessions, selection, main>>

\* Application::reconcile, the session's new state and its publication
PublishRead ==
    /\ hand.pc = "roomRead"
    /\ sessions' = [sessions EXCEPT ![hand.room] =
           IF hand.result = "ok" THEN [@ EXCEPT !.stale = FALSE, !.recovery = FALSE]
                                 ELSE [@ EXCEPT !.stale = TRUE]]
    /\ c' = PublishSession(sessions'[hand.room])
    /\ hand' = [hand EXCEPT !.pc = "finish"]
    /\ UNCHANGED <<queue, selection, main>>

\* Application::submit: an uncertain session refuses the command unpublished.
Submit ==
    /\ hand.pc = "submit"
    /\ IF sessions[hand.room].recovery
       THEN /\ hand' = [hand EXCEPT !.pc = "finish", !.result = "failed",
                                    !.retained = sessions[hand.room]]
            /\ UNCHANGED <<c, sessions>>
       ELSE /\ sessions' = [sessions EXCEPT ![hand.room].status = "pending"]
            /\ c' = PublishSession(sessions'[hand.room])
            /\ hand' = [hand EXCEPT !.pc = "prepare", !.retained = sessions[hand.room]]
    /\ UNCHANGED <<queue, selection, main>>

\* transport_.prepare only reads.
Prepare ==
    /\ hand.pc = "prepare"
    /\ \/ /\ Allowed(FALSE)
          /\ hand' = [hand EXCEPT !.pc = "execute"]
       \/ hand' = [hand EXCEPT !.pc = "conclude", !.result = "failed"]
    /\ UNCHANGED <<c, queue, sessions, selection, main>>

\* One planned operation: progress is published, then it is dispatched.
Execute ==
    /\ hand.pc = "execute"
    /\ c' = PublishSession(sessions[hand.room])
    /\ \/ /\ Allowed(TRUE)
          /\ \/ UNCHANGED hand
             \/ hand' = [hand EXCEPT !.pc = "verify"]
             \/ hand' = [hand EXCEPT !.pc = "conclude", !.result = "uncertain"]
       \/ hand' = [hand EXCEPT !.pc = "conclude", !.result = "failed"]
    /\ UNCHANGED <<queue, sessions, selection, main>>

\* A result that was not observed is uncertain, never failed.
Verify ==
    /\ hand.pc = "verify"
    /\ c' = PublishSession(sessions[hand.room])
    /\ \E result \in {"ok", "uncertain"} :
          /\ result = "ok" => Allowed(FALSE)
          /\ hand' = [hand EXCEPT !.pc = "conclude", !.result = result]
    /\ UNCHANGED <<queue, sessions, selection, main>>

\* The command's outcome.  A failure is followed by a plain refresh, which
\* may freshen the observation but settles nothing.
Conclude ==
    /\ hand.pc = "conclude"
    /\ \E fresh \in BOOLEAN :
          /\ fresh => hand.result = "ok" \/ Allowed(FALSE)
          /\ hand.result = "ok" => fresh
          /\ sessions' = [sessions EXCEPT ![hand.room] =
                [stale |-> ~fresh, recovery |-> hand.result = "uncertain",
                 status |-> IF hand.result = "ok" THEN "succeeded" ELSE hand.result]]
    /\ c' = PublishSession(sessions'[hand.room])
    /\ hand' = [hand EXCEPT !.pc = "finish"]
    /\ UNCHANGED <<queue, selection, main>>

\* Mutant: a cancelled read keeps what it saw.
DiscardedPartly(finish, state) ==
    CASE finish = "Preempted" -> hand.retained
      [] finish = "Cancelled" /\ IsRead(hand.job) -> [state EXCEPT !.stale = TRUE]
      [] finish = "Cancelled" /\ ~IsRead(hand.job) ->
            [stale |-> TRUE, status |-> "uncertain", recovery |-> TRUE]
      [] OTHER -> state

\* discardJobResult: what the session keeps of a job that did not count.
Discarded(finish, state) ==
    CASE finish = "Preempted" -> hand.retained
      [] finish = "Cancelled" /\ IsRead(hand.job) -> [hand.retained EXCEPT !.stale = TRUE]
      [] finish = "Cancelled" /\ ~IsRead(hand.job) ->
            [stale |-> TRUE, status |-> "uncertain", recovery |-> TRUE]
      [] OTHER -> state

\* finishJob under the lock, then the session's cleanup on the same task.
Finish ==
    /\ hand.pc = "finish"
    /\ \E usable \in {hand.room # NoRoom}, transportFailed \in BOOLEAN :
          \E done \in {FinishJob(c, hand.job.id,
                          [targetUsable |-> usable, sessionOk |-> hand.result = "ok",
                           transportFailed |-> usable /\ transportFailed])} :
             /\ c' = done.c
             /\ sessions' = IF usable
                            THEN [sessions EXCEPT ![hand.room] = Discarded(done.finish, @)]
                            ELSE sessions
    /\ hand' = IdleHand
    /\ UNCHANGED <<queue, selection, main>>

------------------------------------------------------------------------------
(* Time.  Each timer runs down by itself: the budgets stand in no proportion *)
(* to one another.                                                           *)

WorkerTime == c.worker.left > 0 /\ c' = [c EXCEPT !.worker.left = Elapsed(@)]
WifiTime == c.wifi.left > 0 /\ c' = [c EXCEPT !.wifi.left = Elapsed(@)]
SonosTime == c.sonos.left > 0 /\ c' = [c EXCEPT !.sonos.left = Elapsed(@)]
RequestTime ==
    c.subscription.left > 0 /\ c' = [c EXCEPT !.subscription.left = Elapsed(@)]
LeaseTime ==
    /\ c.subscription.leaseLeft > 0
    /\ c' = [c EXCEPT !.subscription.leaseLeft = Elapsed(@), !.subscription.renewLeft = Elapsed(@)]
RateTime == c.rateLeft > 0 /\ c' = [c EXCEPT !.rateLeft = Elapsed(@)]
PollTime == c.pollLeft > 0 /\ c' = [c EXCEPT !.pollLeft = Elapsed(@)]

Time ==
    /\ main = "up"
    /\ WorkerTime \/ WifiTime \/ SonosTime \/ RequestTime \/ LeaseTime \/ RateTime \/ PollTime
    /\ UNCHANGED <<queue, hand, sessions, selection, main>>

------------------------------------------------------------------------------
MainTask == Boot \/ MainService \/ MainServiceWifi \/ UserInput \/ AutomaticJob
              \/ Maintenance \/ PowerOff \/ MainShutdown

TopologyEvents == TakeRequest \/ RequestAnswered \/ NotifyArrives

WorkerTask == Receive \/ Pickup \/ ReadTopology \/ ApplyTopology \/ PublishUnavailable
                \/ Invalidate \/ Loading \/ ReadRoom \/ PublishRead \/ Submit \/ Prepare \/ Execute
                \/ Verify \/ Conclude \/ Finish

\* Deep sleep: the main task is gone and the worker task suspends itself.
Asleep == main = "down" /\ hand.pc = "idle" /\ UNCHANGED vars

Next == MainTask \/ TopologyEvents \/ WorkerTask \/ Time \/ Asleep

Spec == Init /\ [][Next]_vars

\* Fairness, with the enabling conditions written out: a service call is due
\* when it would change anything, the task is due when it holds or can take a job.
ServiceDue == main = "up" /\ \E f \in FreshIds : Service(c, f) # c
RadioDue ==
    main = "up" /\ \E f \in FreshIds, online \in RadioReports : ServiceWifi(c, online, f) # c
TurnDue == main = "up" /\ \E f \in FreshIds : AutomaticJobDue(Service(c, f), FALSE)
TaskDue ==
    \/ hand.pc \notin {"idle", "subscribing"}
    \/ hand.pc = "idle" /\ queue # <<>> /\ ~Stopping

\* The main loop runs and time passes, whatever becomes of the worker task.
LoopFairness ==
    /\ ([]<>~(main = "boot") \/ []<><<Boot>>_vars)
    /\ ([]<>~ServiceDue \/ []<><<MainService>>_vars)
    /\ ([]<>~(c.worker.left > 0) \/ []<><<WorkerTime>>_vars)

\* The worker task is scheduled too, the radio is sampled, and retries come
\* due.  A loop turn is far shorter than a discovery stays open, so that an
\* automatic turn that keeps falling due is taken.
TaskFairness ==
    /\ ([]<>~RadioDue \/ []<><<MainServiceWifi>>_vars)
    /\ ([]<>~(c.wifi.left > 0) \/ []<><<WifiTime>>_vars)
    /\ ([]<>~(c.sonos.left > 0) \/ []<><<SonosTime>>_vars)
    /\ ([]<>~(c.rateLeft > 0) \/ []<><<RateTime>>_vars)
    /\ ([]<>~(c.pollLeft > 0) \/ []<><<PollTime>>_vars)
    /\ ([]<>~TaskDue \/ []<><<WorkerTask>>_vars)
    /\ (<>[]~TurnDue \/ []<><<AutomaticJob>>_vars)

HungTaskSpec == Spec /\ LoopFairness
------------------------------------------------------------------------------
(* Properties *)

JobType ==
    [id : Nat, kind : {"none", "refresh", "select", "cycle", "mutation"}, origin : Origins,
     room : Rooms \cup {NoRoom}]
InSession ==
    {"invalidate", "loading", "read", "roomRead", "submit", "prepare", "execute", "verify", "conclude"}
HandType ==
    [pc : {"idle", "subscribing", "pickup", "topology", "topologyRead", "unavailable", "finish"}
            \cup InSession,
     job : JobType, discoveryId : Nat, room : Rooms \cup {NoRoom},
     result : {"none", "ok", "failed", "uncertain"}, retained : StateType \cup {NoSession},
     request : Nat]

\* A job has a room from the choice of its session until it is finished, what
\* may be restored from before it touched the session, and an outcome to state.
HandInSession ==
    /\ hand.pc \in InSession => hand.room \in Rooms
    /\ hand.room # NoRoom => hand.pc \in InSession \cup {"finish"}
    /\ /\ hand.pc \in {"roomRead", "prepare", "execute", "verify", "conclude", "finish"}
       /\ hand.room # NoRoom
       => hand.retained \in StateType
    /\ hand.pc = "conclude" => hand.result # "none"

\* Type invariant: the ranges of the variables, the session a job works in, and
\* the invariants the lifecycle headers state for their snapshots
\* (wifiInvariant, sonosInvariant, subscriptionInvariant).
TypeOK ==
    /\ c \in CoordinatorType
    /\ WifiInvariant(c.wifi) /\ SonosInvariant(c.sonos) /\ SubscriptionInvariant(c.subscription)
    /\ c.worker.running \/ c.worker = IdleWorker
    /\ queue \in Seq(JobType) /\ Len(queue) <= QueueDepth
    /\ hand \in HandType /\ HandInSession
    /\ sessions \in [Rooms -> StateType]
    /\ rooms \subseteq Rooms /\ selected \in rooms \cup {NoRoom}
    /\ main \in {"boot", "up", "stopping", "down"}

\* The pools of identities are large enough: none is ever held up by an
\* identity that everybody has done with.
PoolsSuffice == FreshIds # {} /\ FreshIn(JobIds, JobIdsHeld) # {}

\* Every fact an event leaves behind is delivered before the mutex is released
\* (RuntimeCoordinator.h: "effects record facts, then the coordinator delivers
\* explicit events"): no completion, availability or revocation is left over.
FactsDelivered ==
    /\ c.completion = NoCompletion /\ c.availability = "none"
    /\ ~c.invalidated /\ ~c.discoveryInvalidated /\ ~c.reconcile /\ ~c.topologyChanged

\* The peers agree about the network: Sonos is Offline exactly while Wi-Fi is
\* not Online, and no subscription survives the loss of the discovery that
\* found its publisher.
PeersAgree ==
    /\ c.sonos.network <=> c.wifi.ready
    /\ c.subscription.network => c.sonos.network

\* The job the worker lifecycle believes in is held by the task, and nothing
\* is queued behind it: admission never commits a job that nobody will finish,
\* and what waits ahead of a live job can only be ended jobs.
RunningJobHeld ==
    c.worker.running =>
        c.worker.jobId = IF queue = <<>> THEN hand.job.id ELSE queue[Len(queue)].id

\* Preempted identities wait only for tasks that still hold the job, so that
\* the list of eight can never drop one (RuntimeCoordinator::recordPreempted).
PreemptedJobsHeld ==
    /\ c.preemptedJobs \subseteq QueuedIds \cup {hand.job.id}
    /\ c.worker.jobId \notin c.preemptedJobs

\* Optimistic values on the display belong to the running user mutation: no
\* ending of it, and no job after it, leaves them behind.
PendingValuesOwned ==
    c.display.pending # NoId =>
        /\ c.worker.running /\ c.worker.jobId = c.display.pending
        /\ c.worker.origin = "user" /\ ~c.jobRefresh

\* While the device is up, a display that says "pending" speaks of a running
\* mutation in the task's hand, whose end will replace the word.
PendingStatusOwned ==
    main = "up" /\ c.display.status = "pending" =>
        /\ c.worker.running /\ c.worker.jobId = hand.job.id
        /\ hand.pc \in {"prepare", "execute", "verify", "conclude", "finish"}

\* What the coordinator says of jobs is always accounted for by the task and
\* its queue: the running job, the preempted ones, optimistic values and the
\* word "pending" all belong to a job that somebody will still finish.
JobRecordsHeld ==
    /\ PoolsSuffice /\ RunningJobHeld /\ PreemptedJobsHeld
    /\ PendingValuesOwned /\ PendingStatusOwned

\* A topology generation that is being discovered is never orphaned: until its
\* deadline it is offered to the next job, or the running job is bound to it
\* and has yet to report its result.
NoOrphanGeneration ==
    main = "up" /\ c.sonos.state = "Discovering" /\ c.sonos.left > 0 =>
        \/ c.discoveryPending
        \/ /\ c.worker.running /\ ~c.discoveryResultReceived
           /\ c.workerDiscoveryId = c.sonos.discoveryId

\* A mutation passes the dispatch fence only in a generation that this very
\* job's topology read made Ready, never under authority left by another job.
MutationUnderOwnTopology ==
    Allowed(TRUE) =>
        /\ c.discoveryResultReceived /\ c.workerDiscoveryId = hand.discoveryId
        /\ hand.pc \notin {"pickup", "topology", "topologyRead"}

\* What the task still does for a job that has ended is inert: while another
\* job runs in time, it changes nothing but the record of preemptions.  At most
\* it services the lifecycles, as any input does.
EndedJobIsInert ==
    [][/\ hand.job.id # NoId /\ hand' # hand
       /\ c.worker.running /\ c.worker.jobId # hand.job.id /\ c.worker.left > 0
       => \/ c' = [c EXCEPT !.preemptedJobs = c'.preemptedJobs]
          \/ \E f \in FreshIds : c' = Service(c, f)]_vars

\* Preempting a read is not a failure: the step that preempts leaves the
\* displayed observation, the command status and the schedule of
\* reconciliation as they were (a room selection replaces the room shown).
PreemptionIsNotFailure ==
    [][~(c'.preemptedJobs \subseteq c.preemptedJobs) =>
          /\ c'.reconciliationPending = c.reconciliationPending
          /\ c'.sonos.failures = c.sonos.failures
          /\ \/ c'.display.target # c.display.target
             \/ [c'.display EXCEPT !.pending = NoId] = [c.display EXCEPT !.pending = NoId]]_vars

\* Repeating the service call in the same millisecond does nothing: input is
\* admitted two or three times under one lock, and only the first may act.
ServiceSettles == \A f \in FreshIds : ServiceIsIdempotent(c, f)

\* An uncertain room accepts commands again only after a read that was still
\* admitted when it finished: neither a cancelled nor a preempted job, which
\* may have seen the room meanwhile, settles a command's result.
UncertainUntilRead ==
    [][/\ hand.pc = "finish" /\ hand'.pc = "idle" /\ hand.room # NoRoom
       /\ hand.retained.recovery /\ ~sessions'[hand.room].recovery
       => /\ IsRead(hand.job) /\ hand.result = "ok"
          /\ RuntimeJobActive(c.worker, hand.job.id, FALSE)]_vars

\* The display shows the selected room, whatever the job in progress reads.
DisplayShowsSelection == c.display.target = selected

\* Once the device is stopping nothing revives it: no job is admitted, no
\* network or household authority is gained, no observation is published.
StoppingIsFinal ==
    [][Stopping =>
          /\ c'.worker.running => c.worker.running
          /\ c'.wifi.ready => c.wifi.ready
          /\ c'.sonos.state = "Ready" => c.sonos.state = "Ready"
          /\ \/ c'.display.stale
             \/ [c'.display EXCEPT !.pending = c.display.pending] = c.display]_vars

\* Liveness: no job is believed in for ever, and its optimistic values do not
\* stay on the display, even if the worker task hangs in the middle of a request.
JobsEnd ==
    \A id \in JobIds : id \in {c.worker.jobId, c.display.pending}
                         ~> id \notin {c.worker.jobId, c.display.pending}

\* Liveness: a device that sees its network, and whose worker task does not
\* hang, keeps reading the household, however reads fail, time out or are
\* preempted.
ReadsGoOn == TaskFairness => (c.wifi.ready ~> c.worker.running)
=============================================================================

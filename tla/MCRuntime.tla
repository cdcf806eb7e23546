----------------------------- MODULE MCRuntime -----------------------------
(***************************************************************************)
(* Runtime for TLC.  Identities are compared for equality only, so a state *)
(* is the same as one in which they are renamed: `View' names each by the  *)
(* first place that holds it, and drops the fields that nothing reads:     *)
(*   discardHost                the address cache it clears is not         *)
(*                              modelled                                   *)
(*   workerDiscoveryId,         while no job runs: enqueueJob sets all     *)
(*   discoveryResultReceived,   three before they are read again           *)
(*   jobRefresh                                                            *)
(* The safety runs use the view; the liveness runs do without.             *)
(***************************************************************************)
EXTENDS Runtime

\* The bound of the run `rooms': the household and the network never fail.
HealthyHousehold == c.sonos.state # "Backoff" /\ c.wifi.state # "Backoff"

\* The bound of the run `subscription': one job in the queue and one in the hand.
QueueOfOne == Len(queue) <= 1

\* The first place in which an identity is held, if any
Place(id, held) ==
    LET places == {i \in DOMAIN held : held[i] = id}
    IN  CASE id = NoId -> 0
          [] id # NoId /\ places = {} -> -1
          [] OTHER -> CHOOSE i \in places : \A j \in places : i <= j

View ==
    LET running == c.worker.running
        jobs == <<hand.job.id, c.worker.jobId, c.display.pending>>
                  \o [i \in DOMAIN queue |-> queue[i].id]
        bound == IF running THEN c.workerDiscoveryId ELSE NoId
        generations == <<c.sonos.discoveryId, bound, hand.discoveryId>>
        requests == <<c.subscription.requestId, c.request, hand.request>>
    IN  <<[c EXCEPT !.discardHost = FALSE,
                    !.worker.jobId = Place(@, jobs),
                    !.display.pending = Place(@, jobs),
                    !.preemptedJobs = {Place(id, jobs) : id \in @},
                    !.sonos.discoveryId = Place(@, generations),
                    !.workerDiscoveryId = Place(bound, generations),
                    !.discoveryResultReceived = @ /\ running,
                    !.jobRefresh = @ /\ running,
                    !.subscription.requestId = Place(@, requests),
                    !.request = Place(@, requests)],
          [hand EXCEPT !.job.id = Place(@, jobs),
                       !.discoveryId = Place(@, generations),
                       !.request = Place(@, requests)],
          [i \in DOMAIN queue |-> [queue[i] EXCEPT !.id = Place(@, jobs)]],
          sessions, rooms, selected, main>>
=============================================================================

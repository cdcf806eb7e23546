---------------------------- MODULE RuntimeProofs ----------------------------
(***************************************************************************)
(* The coordinator: every method keeps its type and the invariants of the  *)
(* four machines, delivers every fact its events record, and leaves the    *)
(* machines in agreement about the network.  Between an event and the      *)
(* delivery of its facts only `Consistent' holds; what an event or a       *)
(* delivery may not touch is `Keeps'.                                      *)
(*                                                                         *)
(* The two tasks around it: type correctness, the delivery of facts, the   *)
(* agreement of the peers and the room on the display, for every value of  *)
(* the constants.                                                          *)
(***************************************************************************)
EXTENDS Runtime, LifecycleProofs

USE DEF NoId

Consistent(k) ==
    /\ k \in CoordinatorType
    /\ WorkerOK(k.worker) /\ WifiOK(k.wifi) /\ SonosOK(k.sonos) /\ SubOK(k.subscription)
    /\ k.discoveryInvalidated => k.invalidated

\* All facts but the availability, which has a delivery of its own
Delivered(k) ==
    /\ k.completion = NoCompletion
    /\ ~k.invalidated /\ ~k.discoveryInvalidated /\ ~k.reconcile /\ ~k.topologyChanged

Peers(k) ==
    /\ k.sonos.network <=> k.wifi.ready
    /\ k.subscription.network => k.sonos.network

Open(k) == Consistent(k) /\ k.availability = "none" /\ Peers(k)
CoordinatorOK(k) == Open(k) /\ Delivered(k)

Keeps(k, d) ==
    /\ d.wifi = k.wifi /\ d.availability = k.availability
    /\ d.display.target = k.display.target
    /\ d.sonos.network = k.sonos.network
    /\ d.subscription.network => k.subscription.network

\* What two steps in a row may not touch stays untouched by both.
LEMMA KeepsTransitive ==
    ASSUME NEW a, NEW b, NEW d, Keeps(a, b), Keeps(b, d)
    PROVE  Keeps(a, d)
BY DEF Keeps

\* A step that touches neither network flag wrongly keeps the peers in agreement.
LEMMA KeepsPeers ==
    ASSUME NEW k, NEW d, Peers(k), Keeps(k, d)
    PROVE  Peers(d)
BY DEF Keeps, Peers

------------------------------------------------------------------------------
(* Events *)

\* An event of the worker machine touches nothing but that machine and its completion.
LEMMA WorkerEventKeeps ==
    ASSUME NEW k, Consistent(k), NEW r, WorkerResultOK(r)
    PROVE  /\ Consistent(WorkerEvent(k, r)) /\ Keeps(k, WorkerEvent(k, r))
           /\ WorkerEvent(k, r).worker = r.worker
           /\ WorkerEvent(k, r).subscription = k.subscription
           /\ WorkerEvent(k, r).discoveryInvalidated = k.discoveryInvalidated
<1> DEFINE d == WorkerEvent(k, r)
<1>1. d \in CoordinatorType
  BY DEF WorkerEvent, Consistent, CoordinatorType, WorkerResultOK
<1>2. /\ d.worker = r.worker /\ d.wifi = k.wifi /\ d.sonos = k.sonos
      /\ d.subscription = k.subscription /\ d.availability = k.availability
      /\ d.display = k.display /\ d.invalidated = k.invalidated
      /\ d.discoveryInvalidated = k.discoveryInvalidated
  BY DEF WorkerEvent, Consistent, CoordinatorType
<1> HIDE DEF d
<1>3. Consistent(d)
  BY <1>1, <1>2 DEF Consistent, WorkerResultOK
<1>4. Keeps(k, d)
  BY <1>2 DEF Keeps
<1> QED
  BY <1>2, <1>3, <1>4 DEF d

\* An event of the Wi-Fi machine may leave an availability to deliver and nothing else.
LEMMA WifiEventKeeps ==
    ASSUME NEW k, Consistent(k), NEW r, WifiResultOK(r)
    PROVE  LET d == WifiEvent(k, r)
           IN  /\ Consistent(d)
               /\ d.wifi = r.wifi /\ d.sonos = k.sonos /\ d.subscription = k.subscription
               /\ d.worker = k.worker /\ d.display = k.display
               /\ d.availability = IF r.availability = "none" THEN k.availability
                                                              ELSE r.availability
               /\ Delivered(k) => Delivered(d)
<1> DEFINE d == WifiEvent(k, r)
<1>1. d \in CoordinatorType
  BY DEF WifiEvent, Consistent, CoordinatorType, WifiResultOK
<1>2. /\ d.wifi = r.wifi /\ d.sonos = k.sonos /\ d.subscription = k.subscription
      /\ d.worker = k.worker /\ d.display = k.display
      /\ d.availability = IF r.availability = "none" THEN k.availability ELSE r.availability
      /\ d.invalidated = k.invalidated /\ d.discoveryInvalidated = k.discoveryInvalidated
      /\ d.completion = k.completion /\ d.reconcile = k.reconcile
      /\ d.topologyChanged = k.topologyChanged
  BY DEF WifiEvent, Consistent, CoordinatorType
<1> HIDE DEF d
<1>3. Consistent(d)
  BY <1>1, <1>2 DEF Consistent, WifiResultOK, WifiOK
<1>4. Delivered(k) => Delivered(d)
  BY <1>2 DEF Delivered
<1> QED
  BY <1>2, <1>3, <1>4 DEF d

\* An event of the Sonos machine; the network half of Keeps is the caller's.
LEMMA SonosEventKeeps ==
    ASSUME NEW k, Consistent(k), NEW r, SonosResultOK(r)
    PROVE  LET d == SonosEvent(k, r)
           IN  /\ Consistent(d)
               /\ d.sonos = r.sonos /\ d.worker = k.worker /\ d.wifi = k.wifi
               /\ d.subscription = k.subscription /\ d.availability = k.availability
               /\ d.display = k.display /\ d.completion = k.completion
               /\ "invalidateDiscovery" \in r.fx => d.discoveryInvalidated
               /\ k.discoveryInvalidated => d.discoveryInvalidated
<1> DEFINE discovery == "invalidateDiscovery" \in r.fx
           revoked == discovery \/ "invalidateSession" \in r.fx
           d == SonosEvent(k, r)
<1>1. PICK offered, lost, lostDiscovery, discard, owed \in BOOLEAN :
          /\ offered = (~revoked /\ (k.discoveryPending \/ "discoveryRequested" \in r.fx))
          /\ lost = (k.invalidated \/ revoked)
          /\ lostDiscovery = (k.discoveryInvalidated \/ discovery)
          /\ discard = (k.discardHost \/ discovery)
          /\ owed = (k.reconcile \/ "reconcile" \in r.fx)
  BY Zenon
<1>2. d = [k EXCEPT !.sonos = r.sonos, !.discoveryPending = offered, !.invalidated = lost,
                    !.discoveryInvalidated = lostDiscovery, !.discardHost = discard,
                    !.reconcile = owed]
  BY <1>1 DEF SonosEvent
<1>3. (lostDiscovery => lost) /\ (discovery => lostDiscovery)
      /\ (k.discoveryInvalidated => lostDiscovery)
  BY <1>1 DEF Consistent
<1> HIDE DEF d
<1>4. d \in CoordinatorType
  <2>1. k \in CoordinatorType /\ r.sonos \in SonosType
    BY DEF Consistent, SonosResultOK
  <2>2. [k EXCEPT !.sonos = r.sonos, !.discoveryPending = offered, !.invalidated = lost,
                  !.discoveryInvalidated = lostDiscovery, !.discardHost = discard,
                  !.reconcile = owed] \in CoordinatorType
    BY <2>1 DEF CoordinatorType
  <2> QED
    BY <1>2, <2>2
<1>5. /\ d.sonos = r.sonos /\ d.worker = k.worker /\ d.wifi = k.wifi
      /\ d.subscription = k.subscription /\ d.availability = k.availability
      /\ d.display = k.display /\ d.completion = k.completion
      /\ d.invalidated = lost /\ d.discoveryInvalidated = lostDiscovery
  BY <1>2 DEF Consistent, CoordinatorType
<1>6. Consistent(d)
  BY <1>3, <1>4, <1>5 DEF Consistent, SonosResultOK, SonosOK
<1>7. ("invalidateDiscovery" \in r.fx => d.discoveryInvalidated)
      /\ (k.discoveryInvalidated => d.discoveryInvalidated)
  BY <1>3, <1>5
<1> QED
  BY <1>5, <1>6, <1>7 DEF d

\* An event of the subscription machine touches that machine, its request and its
\* topology change only.
LEMMA SubscriptionEventKeeps ==
    ASSUME NEW k, Consistent(k), NEW r, SubResultOK(r)
    PROVE  LET d == SubscriptionEvent(k, r)
           IN  /\ Consistent(d)
               /\ d.subscription = r.sub /\ d.worker = k.worker /\ d.wifi = k.wifi
               /\ d.sonos = k.sonos /\ d.availability = k.availability /\ d.display = k.display
               /\ d.completion = k.completion /\ d.invalidated = k.invalidated
               /\ d.discoveryInvalidated = k.discoveryInvalidated
               /\ d.reconcile = k.reconcile
               /\ ~k.topologyChanged /\ r.changed = FALSE => ~d.topologyChanged
<1> DEFINE changed == k.topologyChanged \/ r.changed
           sent == IF r.request = NoId THEN k.request ELSE r.request
           d == SubscriptionEvent(k, r)
<1>1. d = [k EXCEPT !.subscription = r.sub, !.request = sent, !.topologyChanged = changed]
  BY DEF SubscriptionEvent
<1>2. changed \in BOOLEAN
  OBVIOUS
<1>3. sent \in Nat
  BY DEF Consistent, CoordinatorType, SubResultOK
<1> HIDE DEF d, changed, sent
<1>4. d \in CoordinatorType
  BY <1>1, <1>2, <1>3 DEF Consistent, CoordinatorType, SubResultOK
<1>5. /\ d.subscription = r.sub /\ d.worker = k.worker /\ d.wifi = k.wifi
      /\ d.sonos = k.sonos /\ d.availability = k.availability /\ d.display = k.display
      /\ d.completion = k.completion /\ d.invalidated = k.invalidated
      /\ d.discoveryInvalidated = k.discoveryInvalidated /\ d.reconcile = k.reconcile
  BY <1>1 DEF Consistent, CoordinatorType
<1>6. Consistent(d)
  BY <1>4, <1>5 DEF Consistent, SubResultOK, SubOK
<1>7. ~k.topologyChanged /\ r.changed = FALSE => ~d.topologyChanged
  BY <1>1 DEF Consistent, CoordinatorType, changed
<1> QED
  BY <1>5, <1>6, <1>7 DEF d

------------------------------------------------------------------------------
(* Delivery *)

\* What every delivery of facts from k to d achieves.
Delivery(k, d) ==
    /\ Consistent(d) /\ Keeps(k, d)
    /\ d.worker = k.worker
    /\ ~d.invalidated /\ ~d.discoveryInvalidated /\ ~d.reconcile /\ ~d.topologyChanged
    /\ k.discoveryInvalidated => ~d.subscription.network

\* A revocation takes the subscription out of the network and settles the discovery
\* invalidation.
LEMMA RevokeKeeps ==
    ASSUME NEW k, Consistent(k)
    PROVE  LET d == RevokeSubscription(k)
           IN  /\ Consistent(d) /\ Keeps(k, d) /\ d.worker = k.worker
               /\ d.display = k.display /\ d.completion = k.completion
               /\ d.invalidated = k.invalidated /\ ~d.discoveryInvalidated
               /\ k.discoveryInvalidated => ~d.subscription.network
<1> DEFINE d == RevokeSubscription(k)
<1>1. CASE k.invalidated /\ k.discoveryInvalidated
  <2> DEFINE e == SubscriptionEvent(k, SubStop(k.subscription))
  <2>1. SubResultOK(SubStop(k.subscription)) /\ SubStop(k.subscription).sub.network = FALSE
    <3>1. NoSid \in Sids \cup {NoSid} /\ 0 \in Nat /\ 1 \in Nat \ {NoId} /\ NoHost \in Hosts \cup {NoHost}
      OBVIOUS
    <3> QED
      BY <3>1, SubscriptionHandlers, SubscriptionNetwork DEF Consistent
  <2>2. /\ Consistent(e) /\ e.subscription.network = FALSE
        /\ e.worker = k.worker /\ e.wifi = k.wifi /\ e.sonos = k.sonos
        /\ e.availability = k.availability /\ e.display = k.display
        /\ e.completion = k.completion /\ e.invalidated = k.invalidated
    BY <2>1, SubscriptionEventKeeps
  <2>3. d = [e EXCEPT !.discoveryInvalidated = FALSE, !.request = NoId]
    BY <1>1 DEF RevokeSubscription, StopSubscription
  <2> HIDE DEF d, e
  <2>4. /\ d \in CoordinatorType
        /\ d.worker = e.worker /\ d.wifi = e.wifi /\ d.sonos = e.sonos
        /\ d.subscription = e.subscription /\ d.availability = e.availability
        /\ d.display = e.display /\ d.completion = e.completion
        /\ d.invalidated = e.invalidated /\ d.discoveryInvalidated = FALSE
    BY <2>2, <2>3 DEF Consistent, CoordinatorType
  <2>5. Consistent(d)
    BY <2>2, <2>4 DEF Consistent
  <2>6. Keeps(k, d)
    BY <2>2, <2>4 DEF Keeps
  <2> QED
    BY <2>2, <2>4, <2>5, <2>6 DEF d
<1>2. CASE ~(k.invalidated /\ k.discoveryInvalidated)
  <2>1. d = k /\ ~k.discoveryInvalidated
    BY <1>2 DEF RevokeSubscription, Consistent
  <2> QED
    BY <2>1 DEF Keeps
<1> QED
  BY <1>1, <1>2

\* The facts of the Sonos and subscription machines; a completion waits.
LEMMA ApplySonosFactsDelivers ==
    ASSUME NEW k, Consistent(k)
    PROVE  /\ Delivery(k, ApplySonosFacts(k))
           /\ ApplySonosFacts(k).completion = k.completion
<1> DEFINE e == RevokeSubscription(k)
           d == ApplySonosFacts(k)
<1>1. /\ Consistent(e) /\ Keeps(k, e) /\ e.worker = k.worker
      /\ e.display = k.display /\ e.completion = k.completion
      /\ e.invalidated = k.invalidated /\ ~e.discoveryInvalidated
      /\ k.discoveryInvalidated => ~e.subscription.network
  BY RevokeKeeps
<1>2. PICK stale, owed \in BOOLEAN :
          d = [e EXCEPT !.invalidated = FALSE, !.display.stale = stale,
                        !.reconciliationPending = owed, !.reconcile = FALSE,
                        !.topologyChanged = FALSE]
  <2> DEFINE marked == [e EXCEPT !.invalidated = FALSE, !.display.stale = @ \/ k.invalidated]
  <2>1. PICK stale \in BOOLEAN : stale = (e.display.stale \/ k.invalidated)
    BY Zenon
  <2>2. marked = [e EXCEPT !.invalidated = FALSE, !.display.stale = stale]
    BY <2>1
  <2>3. PICK owed \in BOOLEAN :
            owed = (marked.reconciliationPending \/ marked.reconcile \/ marked.topologyChanged)
    BY Zenon
  <2>4. d = [marked EXCEPT !.reconciliationPending = owed, !.reconcile = FALSE,
                           !.topologyChanged = FALSE]
    BY <2>3 DEF ApplySonosFacts, OweReconciliation
  <2> QED
    BY <2>2, <2>4
<1> HIDE DEF d, e
<1>3. d \in CoordinatorType
  <2>1. e \in CoordinatorType
    BY <1>1 DEF Consistent
  <2>2. [e EXCEPT !.invalidated = FALSE, !.display.stale = stale, !.reconciliationPending = owed,
                  !.reconcile = FALSE, !.topologyChanged = FALSE] \in CoordinatorType
    BY <2>1 DEF CoordinatorType, DisplayType
  <2> QED
    BY <1>2, <2>2
<1>4. /\ d.worker = e.worker /\ d.wifi = e.wifi /\ d.sonos = e.sonos
      /\ d.subscription = e.subscription /\ d.availability = e.availability
      /\ d.completion = e.completion
      /\ d.discoveryInvalidated = e.discoveryInvalidated
      /\ d.invalidated = FALSE /\ d.reconcile = FALSE /\ d.topologyChanged = FALSE
      /\ d.display.target = e.display.target
  BY <1>1, <1>2 DEF Consistent, CoordinatorType, DisplayType
<1>5. Consistent(d)
  BY <1>1, <1>3, <1>4 DEF Consistent
<1>6. Keeps(e, d)
  BY <1>4 DEF Keeps
<1> QED
  BY <1>1, <1>4, <1>5, <1>6, KeepsTransitive DEF Delivery, d

\* Two deliveries in a row are a delivery.
LEMMA DeliveryTransitive ==
    ASSUME NEW a, NEW b, NEW d, Delivery(a, b), Delivery(b, d)
    PROVE  Delivery(a, d)
BY DEF Delivery, Keeps

\* Changing what the display says of its room undoes no delivery.
LEMMA DeliveryEdited ==
    ASSUME NEW k, NEW a, Delivery(k, a), NEW b, b \in CoordinatorType,
           b.worker = a.worker, b.wifi = a.wifi, b.sonos = a.sonos,
           b.subscription = a.subscription, b.availability = a.availability,
           b.display.target = a.display.target,
           b.invalidated = a.invalidated, b.discoveryInvalidated = a.discoveryInvalidated,
           b.reconcile = a.reconcile, b.topologyChanged = a.topologyChanged
    PROVE  Delivery(k, b)
BY DEF Delivery, Keeps, Consistent

\* An event that leaves the network alone, before its facts are delivered.
LEMMA SonosEventThenDelivery ==
    ASSUME NEW k, Consistent(k), NEW r, SonosResultOK(r), r.sonos.network = k.sonos.network,
           NEW d, Delivery(SonosEvent(k, r), d)
    PROVE  Delivery(k, d)
<1> DEFINE e == SonosEvent(k, r)
<1>1. /\ e.sonos = r.sonos /\ e.worker = k.worker /\ e.wifi = k.wifi
      /\ e.subscription = k.subscription /\ e.availability = k.availability
      /\ e.display = k.display
      /\ k.discoveryInvalidated => e.discoveryInvalidated
  BY SonosEventKeeps
<1> HIDE DEF e
<1>2. Keeps(k, e)
  BY <1>1 DEF Keeps
<1>3. Delivery(e, d)
  BY DEF e
<1> QED
  BY <1>1, <1>2, <1>3, KeepsTransitive DEF Delivery

\* Losing the session after an unanswered job delivers the facts that loss records.
LEMMA LoseSessionDelivers ==
    ASSUME NEW k, Consistent(k)
    PROVE  Delivery(k, LoseSession(k)) /\ LoseSession(k).completion = k.completion
<1> DEFINE r == SonosSessionFailure(k.sonos, k.workerDiscoveryId)
           x == IF k.workerDiscoveryId # NoId THEN SonosEvent(k, r) ELSE k
           lost == ApplySonosFacts(x)
           pending == lost.display.status = "pending"
           d == LoseSession(k)
<1>1. SonosResultOK(r) /\ r.sonos.network = k.sonos.network
  <2>1. k.workerDiscoveryId \in Nat /\ SonosOK(k.sonos) /\ 1 \in Nat \ {NoId}
    BY DEF Consistent, CoordinatorType
  <2>2. SonosResultOK(r)
    BY <2>1, SonosHandlers, Zenon
  <2>3. r.sonos.network = k.sonos.network
    BY <2>1, SonosResultNetwork
  <2> QED
    BY <2>2, <2>3
<1>2. Delivery(k, lost) /\ lost.completion = k.completion
  <2>1. CASE k.workerDiscoveryId # NoId
    <3>1. Consistent(SonosEvent(k, r)) /\ SonosEvent(k, r).completion = k.completion
      BY <1>1, SonosEventKeeps
    <3>2. x = SonosEvent(k, r)
      BY <2>1
    <3> HIDE DEF r, x
    <3>3. Delivery(SonosEvent(k, r), lost) /\ lost.completion = k.completion
      BY <3>1, <3>2, ApplySonosFactsDelivers
    <3> QED
      BY <1>1, <3>3, SonosEventThenDelivery
  <2>2. CASE k.workerDiscoveryId = NoId
    BY <2>2, ApplySonosFactsDelivers
  <2> QED
    BY <2>1, <2>2
<1>3. PICK recovery \in BOOLEAN : recovery = (lost.display.recovery \/ pending)
  BY Zenon
<1>4. PICK status \in Statuses : status = IF pending THEN "uncertain" ELSE lost.display.status
  BY <1>2 DEF Delivery, Consistent, CoordinatorType, DisplayType, Statuses
<1>5. d = [lost EXCEPT !.display.stale = TRUE, !.display.status = status,
                       !.display.recovery = recovery]
  BY <1>3, <1>4 DEF LoseSession, DisplayUncertain, FailSession
<1> HIDE DEF d, lost
<1>6. lost \in CoordinatorType
  BY <1>2 DEF Delivery, Consistent
<1>7. d \in CoordinatorType
  <2>1. [lost EXCEPT !.display.stale = TRUE, !.display.status = status,
                     !.display.recovery = recovery] \in CoordinatorType
    BY <1>6 DEF CoordinatorType, DisplayType
  <2> QED
    BY <1>5, <2>1
<1>8. /\ d.worker = lost.worker /\ d.wifi = lost.wifi /\ d.sonos = lost.sonos
      /\ d.subscription = lost.subscription /\ d.availability = lost.availability
      /\ d.display.target = lost.display.target /\ d.completion = lost.completion
      /\ d.invalidated = lost.invalidated /\ d.discoveryInvalidated = lost.discoveryInvalidated
      /\ d.reconcile = lost.reconcile /\ d.topologyChanged = lost.topologyChanged
  BY <1>5, <1>6 DEF CoordinatorType, DisplayType
<1>9. Delivery(k, d) /\ d.completion = k.completion
  BY <1>2, <1>7, <1>8, DeliveryEdited
<1> QED
  BY <1>9 DEF d

\* RuntimeCoordinator::applyFacts delivers everything but the availability.
LEMMA ApplyFactsDelivers ==
    ASSUME NEW k, Consistent(k), NEW reconcileFailure \in BOOLEAN
    PROVE  /\ Delivery(k, ApplyFacts(k, reconcileFailure))
           /\ Delivered(ApplyFacts(k, reconcileFailure))
<1> DEFINE a == ApplySonosFacts(k)
           ended == a.completion
           pending == IF a.display.pending = ended.id THEN NoId ELSE a.display.pending
           cleared == [a EXCEPT !.completion = NoCompletion,
                                !.display.pending = IF @ = ended.id THEN NoId ELSE @]
<1>1. Delivery(k, a) /\ a \in CoordinatorType
  BY ApplySonosFactsDelivers DEF Delivery, Consistent
<1>2. Delivery(k, cleared) /\ cleared.completion = NoCompletion
  <2>1. cleared = [a EXCEPT !.completion = NoCompletion, !.display.pending = pending]
    OBVIOUS
  <2>2. pending \in Nat
    BY <1>1 DEF CoordinatorType, DisplayType
  <2>3. NoCompletion \in CompletionType
    BY DEF NoCompletion, CompletionType
  <2> HIDE DEF a, pending
  <2>4. cleared \in CoordinatorType
    BY <1>1, <2>1, <2>2, <2>3 DEF CoordinatorType, DisplayType
  <2>5. /\ cleared.worker = a.worker /\ cleared.wifi = a.wifi /\ cleared.sonos = a.sonos
        /\ cleared.subscription = a.subscription /\ cleared.availability = a.availability
        /\ cleared.display.target = a.display.target /\ cleared.completion = NoCompletion
        /\ cleared.invalidated = a.invalidated
        /\ cleared.discoveryInvalidated = a.discoveryInvalidated
        /\ cleared.reconcile = a.reconcile /\ cleared.topologyChanged = a.topologyChanged
    BY <1>1, <2>1 DEF CoordinatorType, DisplayType
  <2> QED
    BY <1>1, <2>4, <2>5, DeliveryEdited
<1> HIDE DEF cleared
<1>3. \A b \in BOOLEAN :
          LET owed == [cleared EXCEPT !.reconciliationPending = b]
          IN  Delivery(k, owed) /\ owed.completion = NoCompletion
  <2> SUFFICES ASSUME NEW b \in BOOLEAN
               PROVE  LET owed == [cleared EXCEPT !.reconciliationPending = b]
                      IN  Delivery(k, owed) /\ owed.completion = NoCompletion
    OBVIOUS
  <2> DEFINE owed == [cleared EXCEPT !.reconciliationPending = b]
  <2>1. cleared \in CoordinatorType
    BY <1>2 DEF Delivery, Consistent
  <2>2. /\ owed \in CoordinatorType
        /\ owed.worker = cleared.worker /\ owed.wifi = cleared.wifi
        /\ owed.sonos = cleared.sonos
        /\ owed.subscription = cleared.subscription
        /\ owed.availability = cleared.availability
        /\ owed.display.target = cleared.display.target /\ owed.completion = cleared.completion
        /\ owed.invalidated = cleared.invalidated
        /\ owed.discoveryInvalidated = cleared.discoveryInvalidated
        /\ owed.reconcile = cleared.reconcile
        /\ owed.topologyChanged = cleared.topologyChanged
    BY <2>1 DEF CoordinatorType
  <2> HIDE DEF owed
  <2>3. Delivery(k, owed) /\ owed.completion = NoCompletion
    BY <1>2, <2>2, DeliveryEdited
  <2> QED
    BY <2>3 DEF owed
<1> DEFINE lost == LoseSession([cleared EXCEPT !.reconciliationPending = TRUE])
<1>4. Delivery(k, lost) /\ lost.completion = NoCompletion
  <2> DEFINE owed == [cleared EXCEPT !.reconciliationPending = TRUE]
  <2>1. Delivery(k, owed) /\ owed.completion = NoCompletion
    BY <1>3
  <2>2. lost = LoseSession(owed)
    OBVIOUS
  <2> HIDE DEF owed, lost
  <2>3. Consistent(owed)
    BY <2>1 DEF Delivery
  <2> QED
    BY <2>1, <2>2, <2>3, LoseSessionDelivers, DeliveryTransitive
<1>5. PICK b \in BOOLEAN :
          b = (cleared.reconciliationPending \/ (ended.outcome = "Failure" /\ reconcileFailure))
  BY Zenon
<1>6. \/ ApplyFacts(k, reconcileFailure) = a /\ a.completion = NoCompletion
      \/ ApplyFacts(k, reconcileFailure) = cleared
      \/ ApplyFacts(k, reconcileFailure) = [cleared EXCEPT !.reconciliationPending = b]
      \/ ApplyFacts(k, reconcileFailure) = lost
  BY <1>5 DEF ApplyFacts, DeliverCompletion, EndJob, TakeCompletion, cleared
<1> HIDE DEF a, lost
<1>7. \A d : Delivery(k, d) /\ d.completion = NoCompletion => Delivered(d)
  BY DEF Delivery, Delivered
<1> QED
  BY <1>1, <1>2, <1>3, <1>4, <1>6, <1>7

------------------------------------------------------------------------------
(* Events and deliveries while the peers agree *)

\* Fields that are not the machines' or the facts' may change freely.
SameMachines(k, d) ==
    /\ d.worker = k.worker /\ d.wifi = k.wifi /\ d.sonos = k.sonos
    /\ d.subscription = k.subscription /\ d.availability = k.availability
    /\ d.completion = k.completion
    /\ d.invalidated = k.invalidated /\ d.discoveryInvalidated = k.discoveryInvalidated
    /\ d.reconcile = k.reconcile /\ d.topologyChanged = k.topologyChanged

\* Editing fields outside the machines and facts keeps a coordinator well formed.
LEMMA EditedOpen ==
    ASSUME NEW k, Open(k), NEW d \in CoordinatorType, SameMachines(k, d)
    PROVE  Open(d) /\ (CoordinatorOK(k) => CoordinatorOK(d))
BY DEF SameMachines, Open, CoordinatorOK, Consistent, Delivered, Peers

\* applyFacts delivers everything and leaves the running job and the room shown.
LEMMA AppliedFacts ==
    ASSUME NEW k, Open(k), NEW reconcileFailure \in BOOLEAN
    PROVE  LET d == ApplyFacts(k, reconcileFailure)
           IN  CoordinatorOK(d) /\ d.worker = k.worker /\ d.display.target = k.display.target
<1> DEFINE d == ApplyFacts(k, reconcileFailure)
<1>1. Delivery(k, d) /\ Delivered(d)
  BY ApplyFactsDelivers DEF Open
<1> HIDE DEF d
<1>2. Peers(d)
  BY <1>1, KeepsPeers DEF Delivery, Open
<1>3. CoordinatorOK(d) /\ d.worker = k.worker /\ d.display.target = k.display.target
  BY <1>1, <1>2 DEF Delivery, Keeps, Open, CoordinatorOK
<1> QED
  BY <1>3 DEF d

\* After a worker event the coordinator awaits delivery with the peers in agreement.
LEMMA WorkerEventOpen ==
    ASSUME NEW k, Open(k), NEW r, WorkerResultOK(r)
    PROVE  LET d == WorkerEvent(k, r)
           IN  Open(d) /\ d.worker = r.worker /\ d.display.target = k.display.target
<1> DEFINE d == WorkerEvent(k, r)
<1>1. Consistent(d) /\ Keeps(k, d) /\ d.worker = r.worker
  BY WorkerEventKeeps DEF Open
<1> HIDE DEF d
<1>2. Open(d) /\ d.worker = r.worker /\ d.display.target = k.display.target
  BY <1>1, KeepsPeers DEF Open, Keeps
<1> QED
  BY <1>2 DEF d

\* After a Sonos event that keeps the network flag the coordinator awaits delivery.
LEMMA SonosEventOpen ==
    ASSUME NEW k, Open(k), NEW r, SonosResultOK(r), r.sonos.network = k.sonos.network
    PROVE  LET d == SonosEvent(k, r)
           IN  /\ Open(d) /\ d.sonos = r.sonos /\ d.worker = k.worker
               /\ d.display.target = k.display.target
<1> DEFINE d == SonosEvent(k, r)
<1>1. /\ Consistent(d) /\ d.sonos = r.sonos /\ d.worker = k.worker /\ d.wifi = k.wifi
      /\ d.subscription = k.subscription /\ d.availability = k.availability
      /\ d.display = k.display
  BY SonosEventKeeps DEF Open
<1> HIDE DEF d
<1>2. /\ Open(d) /\ d.sonos = r.sonos /\ d.worker = k.worker
      /\ d.display.target = k.display.target
  BY <1>1 DEF Open, Peers
<1> QED
  BY <1>2 DEF d

\* After a subscription event that gains no network the coordinator awaits delivery.
LEMMA SubscriptionEventOpen ==
    ASSUME NEW k, Open(k), NEW r, SubResultOK(r), r.sub.network => k.sonos.network
    PROVE  LET d == SubscriptionEvent(k, r)
           IN  Open(d) /\ d.worker = k.worker /\ d.display.target = k.display.target
<1> DEFINE d == SubscriptionEvent(k, r)
<1>1. /\ Consistent(d) /\ d.subscription = r.sub /\ d.worker = k.worker /\ d.wifi = k.wifi
      /\ d.sonos = k.sonos /\ d.availability = k.availability /\ d.display = k.display
  BY SubscriptionEventKeeps DEF Open
<1> HIDE DEF d
<1>2. Open(d) /\ d.worker = k.worker /\ d.display.target = k.display.target
  BY <1>1 DEF Open, Peers
<1> QED
  BY <1>2 DEF d

------------------------------------------------------------------------------
(* The methods *)

FreshOK(f) == f.gen \in Nat \ {NoId} /\ f.request \in Nat \ {NoId}

\* What a method promises: the invariant again, and the display's room.
Sound(k, d) == CoordinatorOK(d) /\ d.display.target = k.display.target

\* Two sound methods called in a row are sound.
LEMMA SoundTransitive ==
    ASSUME NEW a, NEW b, NEW d, Sound(a, b), Sound(b, d)
    PROVE  Sound(a, d)
BY DEF Sound

\* A worker event with the delivery of its facts is sound.
LEMMA WorkerEventApplied ==
    ASSUME NEW k, Open(k), NEW r, WorkerResultOK(r), NEW reconcileFailure \in BOOLEAN
    PROVE  LET d == ApplyFacts(WorkerEvent(k, r), reconcileFailure)
           IN  Sound(k, d) /\ d.worker = r.worker
<1> DEFINE e == WorkerEvent(k, r)
<1>1. Open(e) /\ e.worker = r.worker /\ e.display.target = k.display.target
  BY WorkerEventOpen
<1> HIDE DEF e
<1>2. LET d == ApplyFacts(e, reconcileFailure)
      IN  CoordinatorOK(d) /\ d.worker = e.worker /\ d.display.target = e.display.target
  BY <1>1, AppliedFacts
<1> QED
  BY <1>1, <1>2 DEF e, Sound

\* A Sonos event that keeps the network flag, with its delivery, is sound.
LEMMA SonosEventApplied ==
    ASSUME NEW k, Open(k), NEW r, SonosResultOK(r), r.sonos.network = k.sonos.network
    PROVE  LET d == ApplyFacts(SonosEvent(k, r), TRUE)
           IN  Sound(k, d) /\ d.worker = k.worker
<1> DEFINE e == SonosEvent(k, r)
<1>1. Open(e) /\ e.worker = k.worker /\ e.display.target = k.display.target
  BY SonosEventOpen
<1> HIDE DEF e
<1>2. LET d == ApplyFacts(e, TRUE)
      IN  CoordinatorOK(d) /\ d.worker = e.worker /\ d.display.target = e.display.target
  BY <1>1, AppliedFacts
<1> QED
  BY <1>1, <1>2 DEF e, Sound

\* A subscription event with the delivery of its facts is sound.
LEMMA SubscriptionEventApplied ==
    ASSUME NEW k, Open(k), NEW r, SubResultOK(r), r.sub.network => k.sonos.network
    PROVE  LET d == ApplyFacts(SubscriptionEvent(k, r), TRUE)
           IN  Sound(k, d) /\ d.worker = k.worker
<1> DEFINE e == SubscriptionEvent(k, r)
<1>1. Open(e) /\ e.worker = k.worker /\ e.display.target = k.display.target
  BY SubscriptionEventOpen
<1> HIDE DEF e
<1>2. LET d == ApplyFacts(e, TRUE)
      IN  CoordinatorOK(d) /\ d.worker = e.worker /\ d.display.target = e.display.target
  BY <1>1, AppliedFacts
<1> QED
  BY <1>1, <1>2 DEF e, Sound

\* What the lemmas about the machines say of those of a consistent coordinator.
LEMMA MachineResults ==
    ASSUME NEW k, Open(k), NEW f, FreshOK(f), NEW id \in Nat
    PROVE  /\ WorkerResultOK(WorkerDeadlineExpired(k.worker))
           /\ WorkerResultOK(WorkerNetworkUnavailable(k.worker))
           /\ WorkerResultOK(WorkerShutdown(k.worker))
           /\ WorkerResultOK(WorkerPreempt(k.worker))
           /\ \A r \in {SonosRefreshRequested(k.sonos, f.gen), SonosTick(k.sonos, f.gen),
                        SonosDiscoverySucceeded(k.sonos, id), SonosDiscoveryFailed(k.sonos, id),
                        SonosSessionFailure(k.sonos, id), SonosSessionSucceeded(k.sonos, id)} :
                  SonosResultOK(r) /\ r.sonos.network = k.sonos.network
           /\ \A r \in {SubTick(k.subscription, f.request), SubRequestFailed(k.subscription, id)} :
                  SubResultOK(r) /\ (r.sub.network => k.sonos.network)
<1>1. WorkerOK(k.worker) /\ SonosOK(k.sonos) /\ SubOK(k.subscription)
  BY DEF Open, Consistent
<1>2. f.gen \in Nat \ {NoId} /\ f.request \in Nat \ {NoId} /\ 1 \in Nat
      /\ "user" \in Origins /\ "Success" \in Outcomes
      /\ NoSid \in Sids \cup {NoSid} /\ NoHost \in Hosts \cup {NoHost}
  BY DEF FreshOK, Origins, Outcomes
<1>3. /\ WorkerResultOK(WorkerDeadlineExpired(k.worker))
      /\ WorkerResultOK(WorkerNetworkUnavailable(k.worker))
      /\ WorkerResultOK(WorkerShutdown(k.worker))
      /\ WorkerResultOK(WorkerPreempt(k.worker))
  BY <1>1, <1>2, WorkerHandlers, Zenon
<1>4. \A r \in {SonosRefreshRequested(k.sonos, f.gen), SonosTick(k.sonos, f.gen),
               SonosDiscoverySucceeded(k.sonos, id), SonosDiscoveryFailed(k.sonos, id),
               SonosSessionFailure(k.sonos, id), SonosSessionSucceeded(k.sonos, id)} :
          SonosResultOK(r)
  BY <1>1, <1>2, SonosHandlers
<1>5. \A r \in {SonosRefreshRequested(k.sonos, f.gen), SonosTick(k.sonos, f.gen)} :
          r.sonos.network = k.sonos.network
  <2>1. /\ SonosRefreshRequested(k.sonos, f.gen).sonos.network = k.sonos.network
        /\ SonosTick(k.sonos, f.gen).sonos.network = k.sonos.network
    BY <1>1, <1>2, SonosNetwork, Zenon
  <2> QED
    BY <2>1
<1>6. \A r \in {SonosDiscoverySucceeded(k.sonos, id), SonosDiscoveryFailed(k.sonos, id),
               SonosSessionFailure(k.sonos, id), SonosSessionSucceeded(k.sonos, id)} :
          r.sonos.network = k.sonos.network
  BY <1>1, SonosResultNetwork
<1>7. k.subscription.network => k.sonos.network
  BY DEF Open, Peers
<1>8. \A r \in {SubTick(k.subscription, f.request), SubRequestFailed(k.subscription, id)} :
          SubResultOK(r) /\ (r.sub.network => k.sonos.network)
  <2>1. SubResultOK(SubTick(k.subscription, f.request)) /\ SubResultOK(SubRequestFailed(k.subscription, id))
    BY <1>1, <1>2, SubscriptionHandlers, Zenon
  <2>2. /\ SubTick(k.subscription, f.request).sub.network = k.subscription.network
        /\ SubRequestFailed(k.subscription, id).sub.network = k.subscription.network
    BY <1>1, <1>2, SubscriptionNetwork
  <2> QED
    BY <1>7, <2>1, <2>2
<1> QED
  <2>1. \A r \in {SonosRefreshRequested(k.sonos, f.gen), SonosTick(k.sonos, f.gen),
               SonosDiscoverySucceeded(k.sonos, id), SonosDiscoveryFailed(k.sonos, id),
               SonosSessionFailure(k.sonos, id), SonosSessionSucceeded(k.sonos, id)} :
          SonosResultOK(r) /\ r.sonos.network = k.sonos.network
    BY <1>4, <1>5, <1>6
  <2> QED
    BY <1>3, <1>8, <2>1

\* RuntimeCoordinator::expireWorker is sound.
LEMMA ExpireWorkerSound ==
    ASSUME NEW k, CoordinatorOK(k)
    PROVE  /\ Sound(k, ExpireWorker(k))
           /\ ExpireWorker(k).worker = WorkerDeadlineExpired(k.worker).worker
<1>1. Open(k) /\ WorkerResultOK(WorkerDeadlineExpired(k.worker))
  <2>1. FreshOK([gen |-> 1, request |-> 1]) /\ 1 \in Nat
    BY DEF FreshOK
  <2> QED
    BY <2>1, MachineResults DEF CoordinatorOK
<1> QED
  BY <1>1, WorkerEventApplied DEF ExpireWorker

\* RuntimeCoordinator::service is sound.
LEMMA ServiceSound ==
    ASSUME NEW k, CoordinatorOK(k), NEW f, FreshOK(f)
    PROVE  Sound(k, Service(k, f))
<1> DEFINE e == ExpireWorker(k)
           s == ApplyFacts(SonosEvent(e, SonosTick(e.sonos, f.gen)), TRUE)
           d == ApplyFacts(SubscriptionEvent(s, SubTick(s.subscription, f.request)), TRUE)
<1>1. Sound(k, e)
  BY ExpireWorkerSound
<1>2. Sound(e, s)
  <2> HIDE DEF e
  <2>1. Open(e) /\ 1 \in Nat
    BY <1>1 DEF Sound, CoordinatorOK
  <2>2. LET r == SonosTick(e.sonos, f.gen)
        IN  SonosResultOK(r) /\ r.sonos.network = e.sonos.network
    BY <2>1, MachineResults
  <2> QED
    BY <2>1, <2>2, SonosEventApplied
<1>3. Sound(s, d)
  <2> HIDE DEF s
  <2>1. Open(s) /\ 1 \in Nat
    BY <1>2 DEF Sound, CoordinatorOK
  <2>2. LET r == SubTick(s.subscription, f.request)
        IN  SubResultOK(r) /\ (r.sub.network => s.sonos.network)
    BY <2>1, MachineResults
  <2> QED
    BY <2>1, <2>2, SubscriptionEventApplied
<1>4. Service(k, f) = d
  BY DEF Service, TickSonos, TickSubscription
<1> HIDE DEF e, s, d
<1> QED
  BY <1>1, <1>2, <1>3, <1>4, SoundTransitive

\* A coordinator whose Wi-Fi machine has just reported a change of the network.
Reported(k) ==
    /\ Consistent(k) /\ Delivered(k)
    /\ k.availability = "none" => Peers(k)
    /\ k.availability = "up" => k.wifi.ready = TRUE
    /\ k.availability = "down" => k.wifi.ready = FALSE
    /\ k.subscription.network => k.sonos.network

\* applyAvailability brings the peers back into agreement after a Wi-Fi report.
LEMMA ApplyAvailabilitySound ==
    ASSUME NEW k, Reported(k), NEW f, FreshOK(f)
    PROVE  Sound(k, ApplyAvailability(k, f))
<1> DEFINE taken == [k EXCEPT !.availability = "none"]
<1>1. /\ Consistent(taken) /\ taken.availability = "none"
      /\ taken.worker = k.worker /\ taken.wifi = k.wifi /\ taken.sonos = k.sonos
      /\ taken.subscription = k.subscription /\ taken.display = k.display
  <2>1. /\ taken \in CoordinatorType /\ taken.availability = "none"
        /\ taken.worker = k.worker /\ taken.wifi = k.wifi /\ taken.sonos = k.sonos
        /\ taken.subscription = k.subscription /\ taken.display = k.display
        /\ taken.invalidated = k.invalidated
        /\ taken.discoveryInvalidated = k.discoveryInvalidated
    BY DEF Reported, Consistent, CoordinatorType
  <2> HIDE DEF taken
  <2> QED
    BY <2>1 DEF Reported, Consistent
<1>2. CASE k.availability = "up"
  <2> DEFINE r == SonosNetworkAvailable(taken.sonos, f.gen)
             up == SonosEvent(taken, r)
             owed == [up EXCEPT !.reconciliationPending = TRUE]
             d == ApplyFacts(owed, TRUE)
  <2>1. SonosResultOK(r) /\ r.sonos.network = TRUE
    <3>1. SonosOK(taken.sonos) /\ f.gen \in Nat \ {NoId} /\ 1 \in Nat
      BY <1>1 DEF Consistent, FreshOK
    <3>2. SonosResultOK(r)
      BY <3>1, SonosHandlers, Zenon
    <3>3. r.sonos.network = TRUE
      BY <3>1, SonosNetwork, Zenon
    <3> QED
      BY <3>2, <3>3
  <2>2. /\ Consistent(up) /\ up.sonos = r.sonos /\ up.wifi = k.wifi
        /\ up.subscription = k.subscription /\ up.availability = "none"
        /\ up.display = k.display
    <3> HIDE DEF taken, r
    <3> QED
      BY <1>1, <2>1, SonosEventKeeps
  <2> HIDE DEF up, r
  <2>3. Open(up)
    BY <1>2, <2>1, <2>2 DEF Open, Peers, Reported
  <2>4. Open(owed) /\ owed.display = k.display
    <3>1. /\ owed \in CoordinatorType /\ SameMachines(up, owed) /\ owed.display = up.display
      BY <2>2 DEF Consistent, CoordinatorType, SameMachines
    <3> QED
      BY <2>2, <2>3, <3>1, EditedOpen
  <2> HIDE DEF owed
  <2>5. CoordinatorOK(d) /\ d.display.target = owed.display.target
    BY <2>4, AppliedFacts
  <2>6. ApplyAvailability(k, f) = d
    BY <1>2 DEF ApplyAvailability, DeliverAvailability, d, owed, up, r
  <2> QED
    BY <2>4, <2>5, <2>6 DEF Sound
<1>3. CASE k.availability = "down"
  <2> DEFINE r == SonosStop(taken.sonos)
             down == SonosEvent(taken, r)
             w == WorkerEvent(down, WorkerNetworkUnavailable(taken.worker))
             d == ApplyFacts(w, TRUE)
             stale == [d EXCEPT !.display.stale = TRUE]
  <2>1. /\ SonosResultOK(r) /\ r.sonos.network = FALSE
        /\ k.sonos.network => "invalidateDiscovery" \in r.fx
    BY <1>1, SonosStopNetwork DEF Consistent
  <2>2. /\ Consistent(down) /\ down.sonos = r.sonos /\ down.wifi = k.wifi
        /\ down.subscription = k.subscription /\ down.availability = "none"
        /\ down.display = k.display
        /\ "invalidateDiscovery" \in r.fx => down.discoveryInvalidated
    <3> HIDE DEF taken, r
    <3> QED
      BY <1>1, <2>1, SonosEventKeeps
  <2> HIDE DEF down, r
  <2>3. WorkerResultOK(WorkerNetworkUnavailable(taken.worker))
    <3>1. WorkerOK(taken.worker) /\ 1 \in Nat /\ "user" \in Origins /\ "Success" \in Outcomes
      BY <1>1 DEF Consistent, Origins, Outcomes
    <3> QED
      BY <3>1, WorkerHandlers, Zenon
  <2>4. /\ Consistent(w) /\ Keeps(down, w) /\ w.subscription = down.subscription
        /\ w.discoveryInvalidated = down.discoveryInvalidated
    BY <2>2, <2>3, WorkerEventKeeps
  <2> HIDE DEF w
  <2>5. Delivery(w, d) /\ Delivered(d)
    BY <2>4, ApplyFactsDelivers
  <2> HIDE DEF d
  <2>6. /\ Consistent(d) /\ d.availability = "none"
        /\ d.sonos.network = FALSE /\ d.wifi = k.wifi
        /\ d.display.target = k.display.target
    BY <2>1, <2>2, <2>4, <2>5 DEF Delivery, Keeps
  <2>7. ~d.subscription.network
    <3>1. d.subscription.network => k.subscription.network
      BY <2>2, <2>4, <2>5 DEF Delivery, Keeps
    <3>2. k.sonos.network => w.discoveryInvalidated
      BY <2>1, <2>2, <2>4
    <3> QED
      BY <2>5, <3>1, <3>2 DEF Delivery, Reported
  <2>8. CoordinatorOK(d)
    BY <1>3, <2>5, <2>6, <2>7 DEF CoordinatorOK, Open, Peers, Reported
  <2>9. CoordinatorOK(stale) /\ stale.display.target = d.display.target
    <3>1. /\ stale \in CoordinatorType /\ SameMachines(d, stale)
          /\ stale.display.target = d.display.target
      BY <2>6 DEF Consistent, CoordinatorType, DisplayType, SameMachines
    <3> QED
      BY <2>8, <3>1, EditedOpen DEF CoordinatorOK
  <2>10. ApplyAvailability(k, f) = stale
    BY <1>3 DEF ApplyAvailability, DeliverAvailability, StopSonos, stale, d, w, down, r
  <2> QED
    BY <2>6, <2>9, <2>10 DEF Sound
<1>4. CASE k.availability = "none"
  <2>1. ApplyAvailability(k, f) = k
    <3>1. [k EXCEPT !.availability = "none"] = k
      BY <1>4 DEF Reported, Consistent, CoordinatorType
    <3> QED
      BY <1>4, <3>1 DEF ApplyAvailability, DeliverAvailability
  <2> QED
    BY <1>4, <2>1 DEF Sound, CoordinatorOK, Open, Reported
<1>5. k.availability \in {"none", "up", "down"}
  BY DEF Reported, Consistent, CoordinatorType
<1> QED
  BY <1>2, <1>3, <1>4, <1>5

\* A Wi-Fi event that reports the network as it is.
LEMMA WifiEventReported ==
    ASSUME NEW k, CoordinatorOK(k), NEW r, WifiResultOK(r),
           r.availability = "none" => r.wifi.ready = k.wifi.ready,
           r.availability = "up" => r.wifi.ready = TRUE,
           r.availability = "down" => r.wifi.ready = FALSE
    PROVE  LET d == WifiEvent(k, r)
           IN  /\ Reported(d) /\ d.display = k.display /\ d.wifi = r.wifi
               /\ r.availability = "none" => CoordinatorOK(d)
<1> DEFINE d == WifiEvent(k, r)
<1>1. /\ Consistent(d)
      /\ d.wifi = r.wifi /\ d.sonos = k.sonos /\ d.subscription = k.subscription
      /\ d.display = k.display
      /\ d.availability = r.availability
      /\ Delivered(d)
  BY WifiEventKeeps DEF CoordinatorOK, Open
<1> HIDE DEF d
<1>2. d.availability = "none" => Peers(d)
  BY <1>1 DEF CoordinatorOK, Open, Peers
<1>3. d.subscription.network => d.sonos.network
  BY <1>1 DEF CoordinatorOK, Open, Peers
<1>4. Reported(d)
  BY <1>1, <1>2, <1>3 DEF Reported
<1>5. r.availability = "none" => CoordinatorOK(d)
  BY <1>1, <1>2 DEF CoordinatorOK, Open
<1> QED
  BY <1>1, <1>4, <1>5 DEF d

\* RuntimeCoordinator::configAvailable is sound.
LEMMA ConfigAvailableSound ==
    ASSUME NEW k, CoordinatorOK(k), NEW f, FreshOK(f)
    PROVE  Sound(k, ConfigAvailable(k, f))
<1> DEFINE r == WifiConfigAvailable(k.wifi)
           d == WifiEvent(k, r)
<1>1. WifiOK(k.wifi)
  BY DEF CoordinatorOK, Open, Consistent
<1>2. WifiResultOK(r) /\ r.availability = "none" /\ r.wifi.ready = k.wifi.ready
  BY <1>1, WifiHandlers, WifiReports
<1>3. Reported(d) /\ d.display = k.display
  <2> HIDE DEF r
  <2> QED
    BY <1>2, WifiEventReported
<1> HIDE DEF d
<1>4. Sound(d, ApplyAvailability(d, f))
  BY <1>3, ApplyAvailabilitySound
<1> QED
  BY <1>3, <1>4 DEF ConfigAvailable, Sound, d

\* RuntimeCoordinator::serviceWifi is sound, whatever the radio reports.
LEMMA ServiceWifiSound ==
    ASSUME NEW k, CoordinatorOK(k), NEW online \in BOOLEAN, NEW f, FreshOK(f)
    PROVE  Sound(k, ServiceWifi(k, online, f))
<1> DEFINE t == WifiEvent(k, WifiTick(k.wifi))
           seen == IF t.wifi.state = "Connecting" /\ online /\ ~t.connect
                   THEN WifiEvent(t, WifiConnected(t.wifi))
                   ELSE IF t.wifi.state = "Online" /\ ~online
                   THEN WifiEvent(t, WifiDisconnected(t.wifi))
                   ELSE t
<1>1. CoordinatorOK(t) /\ t.display = k.display
  <2> DEFINE r == WifiTick(k.wifi)
  <2>1. WifiOK(k.wifi)
    BY DEF CoordinatorOK, Open, Consistent
  <2>2. WifiResultOK(r) /\ r.availability = "none" /\ r.wifi.ready = k.wifi.ready
    BY <2>1, WifiHandlers, WifiReports
  <2> HIDE DEF r
  <2>3. CoordinatorOK(WifiEvent(k, r)) /\ WifiEvent(k, r).display = k.display
    BY <2>2, WifiEventReported
  <2> QED
    BY <2>3 DEF r
<1> HIDE DEF t
<1>2. WifiOK(t.wifi)
  BY <1>1 DEF CoordinatorOK, Open, Consistent
<1>3. \A r \in {WifiConnected(t.wifi), WifiDisconnected(t.wifi)} :
          Reported(WifiEvent(t, r)) /\ WifiEvent(t, r).display = t.display
  <2> SUFFICES ASSUME NEW r \in {WifiConnected(t.wifi), WifiDisconnected(t.wifi)}
               PROVE  Reported(WifiEvent(t, r)) /\ WifiEvent(t, r).display = t.display
    OBVIOUS
  <2>1. WifiResultOK(r)
    BY <1>2, WifiHandlers
  <2>2. /\ r.availability = "none" => r.wifi.ready = t.wifi.ready
        /\ r.availability = "up" => r.wifi.ready = TRUE
        /\ r.availability = "down" => r.wifi.ready = FALSE
    BY <1>2, WifiLinkReports
  <2> QED
    BY <1>1, <2>1, <2>2, WifiEventReported
<1>4. Reported(t)
  BY <1>1 DEF Reported, CoordinatorOK, Open, Peers
<1>5. Reported(seen) /\ seen.display = k.display
  BY <1>1, <1>3, <1>4
<1>6. ServiceWifi(k, online, f) = ApplyAvailability(seen, f)
  BY DEF ServiceWifi, ObserveRadio, t
<1> HIDE DEF seen
<1>7. Sound(seen, ApplyAvailability(seen, f))
  BY <1>5, ApplyAvailabilitySound
<1> QED
  BY <1>5, <1>6, <1>7 DEF Sound

\* RuntimeCoordinator::shutdown is sound although it drops the last availability.
LEMMA ShutdownSound ==
    ASSUME NEW k, CoordinatorOK(k)
    PROVE  Sound(k, Shutdown(k))
<1> DEFINE stopped == ApplyFacts(WorkerEvent(k, WorkerShutdown(k.worker)), TRUE)
           wifi == WifiEvent(stopped, WifiShutdown(stopped.wifi))
           offline == [wifi EXCEPT !.connect = FALSE]
           cut == SonosEvent(offline, SonosStop(offline.sonos))
           ended == ApplyFacts(cut, TRUE)
           left == SubscriptionEvent(ended, SubStop(ended.subscription))
           d == [left EXCEPT !.request = NoId, !.availability = "none"]
<1>1. Sound(k, stopped)
  <2>1. FreshOK([gen |-> 1, request |-> 1]) /\ 1 \in Nat /\ Open(k)
    BY DEF FreshOK, CoordinatorOK
  <2>2. WorkerResultOK(WorkerShutdown(k.worker))
    BY <2>1, MachineResults
  <2> QED
    BY <2>1, <2>2, WorkerEventApplied
<1> HIDE DEF stopped
<1>2. /\ Consistent(wifi) /\ Delivered(wifi) /\ wifi.wifi.ready = FALSE
      /\ wifi.display = stopped.display
  <2>1. WifiOK(stopped.wifi) /\ Consistent(stopped) /\ Delivered(stopped)
    BY <1>1 DEF Sound, CoordinatorOK, Open, Consistent
  <2>2. WifiResultOK(WifiShutdown(stopped.wifi)) /\ WifiShutdown(stopped.wifi).wifi.ready = FALSE
    BY <2>1, WifiHandlers, WifiReports
  <2> QED
    BY <2>1, <2>2, WifiEventKeeps
<1> HIDE DEF wifi
<1>3. /\ Consistent(offline) /\ offline.wifi.ready = FALSE /\ offline.display = wifi.display
  <2>1. /\ offline \in CoordinatorType /\ SameMachines(wifi, offline)
        /\ offline.display = wifi.display
    BY <1>2 DEF Consistent, CoordinatorType, SameMachines
  <2> HIDE DEF offline
  <2> QED
    BY <1>2, <2>1 DEF SameMachines, Consistent
<1> HIDE DEF offline
<1>4. /\ Consistent(cut) /\ cut.sonos.network = FALSE /\ cut.wifi = offline.wifi
      /\ cut.display = offline.display
  <2>1. SonosResultOK(SonosStop(offline.sonos)) /\ SonosStop(offline.sonos).sonos.network = FALSE
    BY <1>3, SonosStopNetwork DEF Consistent
  <2> QED
    BY <1>3, <2>1, SonosEventKeeps
<1> HIDE DEF cut
<1>5. Delivery(cut, ended) /\ Delivered(ended)
  BY <1>4, ApplyFactsDelivers
<1> HIDE DEF ended
<1>6. /\ Consistent(ended) /\ Delivered(ended)
      /\ ended.sonos.network = FALSE /\ ended.wifi.ready = FALSE
      /\ ended.display.target = k.display.target
  BY <1>1, <1>2, <1>3, <1>4, <1>5 DEF Delivery, Keeps, Sound
<1>7. /\ Consistent(left) /\ Delivered(left)
      /\ left.sonos = ended.sonos /\ left.wifi = ended.wifi
      /\ left.subscription.network = FALSE /\ left.display = ended.display
  <2> DEFINE r == SubStop(ended.subscription)
  <2>1. r.changed = FALSE
    BY DEF SubStop, SubIs
  <2>2. SubResultOK(r) /\ r.sub.network = FALSE
    <3>1. NoSid \in Sids \cup {NoSid} /\ 0 \in Nat /\ 1 \in Nat \ {NoId} /\ NoHost \in Hosts \cup {NoHost}
      OBVIOUS
    <3> QED
      BY <1>6, <3>1, SubscriptionHandlers, SubscriptionNetwork DEF Consistent
  <2>3. left = SubscriptionEvent(ended, r)
    OBVIOUS
  <2> HIDE DEF r, left
  <2>4. /\ Consistent(left) /\ left.subscription = r.sub
        /\ left.sonos = ended.sonos /\ left.wifi = ended.wifi /\ left.display = ended.display
        /\ left.completion = ended.completion /\ left.invalidated = ended.invalidated
        /\ left.discoveryInvalidated = ended.discoveryInvalidated
        /\ left.reconcile = ended.reconcile
        /\ ~ended.topologyChanged => ~left.topologyChanged
    BY <1>6, <2>1, <2>2, <2>3, SubscriptionEventKeeps
  <2> QED
    BY <1>6, <2>2, <2>4 DEF Delivered
<1> HIDE DEF left
<1>8. /\ d \in CoordinatorType /\ d.availability = "none"
      /\ d.worker = left.worker /\ d.wifi = left.wifi /\ d.sonos = left.sonos
      /\ d.subscription = left.subscription /\ d.completion = left.completion
      /\ d.invalidated = left.invalidated
      /\ d.discoveryInvalidated = left.discoveryInvalidated
      /\ d.reconcile = left.reconcile /\ d.topologyChanged = left.topologyChanged
      /\ d.display = left.display
  BY <1>7 DEF Consistent, CoordinatorType
<1> HIDE DEF d
<1>9. Consistent(d) /\ Delivered(d)
  BY <1>7, <1>8 DEF Consistent, Delivered
<1>10. Peers(d)
  BY <1>6, <1>7, <1>8 DEF Peers
<1>11. d.display.target = k.display.target
  BY <1>6, <1>7, <1>8
<1> QED
  BY <1>8, <1>9, <1>10, <1>11
  DEF Shutdown, ShutdownWorker, ShutdownWifi, ShutdownSonos, StopSonos, StopSubscription,
      Sound, CoordinatorOK, Open, d, left, ended, cut, offline, wifi, stopped

\* Bookkeeping keeps the invariant: it changes neither machines nor facts.
LEMMA EditedSound ==
    ASSUME NEW k, CoordinatorOK(k), NEW d \in CoordinatorType, SameMachines(k, d)
    PROVE  CoordinatorOK(d)
BY EditedOpen DEF CoordinatorOK

\* RuntimeCoordinator::preemptAutomatic is sound.
LEMMA PreemptAutomaticSound ==
    ASSUME NEW k, CoordinatorOK(k)
    PROVE  Sound(k, PreemptAutomatic(k))
<1> DEFINE e == ExpireWorker(k)
           r == WorkerPreempt(e.worker)
           w == WorkerEvent(e, r)
<1>1. CoordinatorOK(e) /\ e.display.target = k.display.target
  BY ExpireWorkerSound DEF Sound
<1> HIDE DEF e
<1>2. CASE e.worker.running /\ e.worker.origin = "automatic"
  <2>1. WorkerResultOK(r) /\ Open(e)
    <3>1. FreshOK([gen |-> 1, request |-> 1]) /\ 1 \in Nat /\ Open(e)
      BY <1>1 DEF FreshOK, CoordinatorOK
    <3> QED
      BY <3>1, MachineResults
  <2> HIDE DEF r
  <2>2. Open(w) /\ w.display.target = e.display.target
    BY <2>1, WorkerEventOpen
  <2> HIDE DEF w
  <2>3. PICK offered \in BOOLEAN :
            offered = (w.discoveryPending
                         \/ (/\ e.sonos.state = "Discovering" /\ e.workerDiscoveryId # NoId
                             /\ e.workerDiscoveryId = e.sonos.discoveryId))
    BY Zenon
  <2> DEFINE d == [w EXCEPT !.preemptedJobs = @ \cup {e.worker.jobId}, !.discoveryPending = offered]
  <2>4. Open(d) /\ d.display.target = w.display.target
    <3>1. e.worker.jobId \in Nat
      BY <1>1 DEF CoordinatorOK, Open, Consistent, WorkerOK, WorkerType
    <3>2. /\ d \in CoordinatorType /\ SameMachines(w, d) /\ d.display = w.display
      BY <2>2, <3>1 DEF Open, Consistent, CoordinatorType, SameMachines
    <3> HIDE DEF d
    <3> QED
      BY <2>2, <3>2, EditedOpen
  <2>5. PreemptAutomatic(k) = ApplyFacts(d, TRUE)
    BY <1>2, <2>3 DEF PreemptAutomatic, PreemptRunning, e, w, r
  <2> HIDE DEF d
  <2>6. LET a == ApplyFacts(d, TRUE)
        IN  CoordinatorOK(a) /\ a.display.target = d.display.target
    BY <2>4, AppliedFacts
  <2> QED
    BY <1>1, <2>2, <2>4, <2>5, <2>6 DEF Sound
<1>3. CASE ~(e.worker.running /\ e.worker.origin = "automatic")
  <2>1. PreemptAutomatic(k) = e
    BY <1>3 DEF PreemptAutomatic, PreemptRunning, e
  <2> QED
    BY <1>1, <2>1 DEF Sound
<1> QED
  BY <1>2, <1>3

\* The commit of an admitted job, with the preemption it may need, is sound.
LEMMA CommitJobSound ==
    ASSUME NEW k, CoordinatorOK(k), NEW id \in Nat, NEW refresh \in BOOLEAN, NEW origin \in Origins
    PROVE  Sound(k, CommitJob(k, id, refresh, origin))
<1> DEFINE p == IF Preemptable(k, origin) THEN PreemptAutomatic(k) ELSE k
           budget == IF refresh THEN ReadBudget ELSE MutationBudget
           r == WorkerSubmit(p.worker, id, budget, origin)
           s == WorkerEvent(p, r)
           pending == IF ~refresh /\ origin = "user" THEN id ELSE s.display.pending
           d == [s EXCEPT !.workerDiscoveryId = NoId, !.discoveryResultReceived = FALSE,
                          !.jobRefresh = refresh, !.display.pending = pending]
<1>1. CoordinatorOK(p) /\ p.display.target = k.display.target
  BY PreemptAutomaticSound DEF Sound
<1>2. CommitJob(k, id, refresh, origin) = d
  BY DEF CommitJob, StartJob
<1> HIDE DEF p
<1>3. WorkerResultOK(r) /\ r.ended = NoCompletion
  <2>1. budget \in Nat /\ WorkerOK(p.worker) /\ "Success" \in Outcomes
    BY <1>1, RuntimeAssumption DEF CoordinatorOK, Open, Consistent, Outcomes
  <2>2. WorkerResultOK(r)
    BY <2>1, WorkerHandlers, Zenon
  <2>3. r.ended = NoCompletion
    BY DEF WorkerSubmit, WorkerStays
  <2> QED
    BY <2>2, <2>3
<1> HIDE DEF r
<1>4. CoordinatorOK(s) /\ s.display = p.display
  <2>1. Open(s)
    BY <1>1, <1>3, WorkerEventOpen DEF CoordinatorOK
  <2>2. /\ s.completion = p.completion /\ s.invalidated = p.invalidated
        /\ s.discoveryInvalidated = p.discoveryInvalidated
        /\ s.reconcile = p.reconcile /\ s.topologyChanged = p.topologyChanged
        /\ s.display = p.display
    BY <1>1, <1>3 DEF WorkerEvent, CoordinatorOK, Open, Consistent, CoordinatorType
  <2> HIDE DEF s
  <2>3. Delivered(s)
    BY <1>1, <2>2 DEF CoordinatorOK, Delivered
  <2> QED
    BY <2>1, <2>2, <2>3 DEF CoordinatorOK
<1> HIDE DEF s
<1>5. CoordinatorOK(d) /\ d.display.target = s.display.target
  <2>1. pending \in Nat /\ s \in CoordinatorType
    BY <1>4 DEF CoordinatorOK, Open, Consistent, CoordinatorType, DisplayType
  <2> HIDE DEF pending
  <2>2. d \in CoordinatorType /\ SameMachines(s, d) /\ d.display.target = s.display.target
    BY <2>1 DEF CoordinatorType, DisplayType, SameMachines
  <2> HIDE DEF d
  <2> QED
    BY <1>4, <2>2, EditedSound
<1> QED
  BY <1>1, <1>2, <1>4, <1>5 DEF Sound

\* Taking an automatic turn is sound.
LEMMA TakeAutomaticTurnSound ==
    ASSUME NEW k, CoordinatorOK(k)
    PROVE  Sound(k, TakeAutomaticTurn(k))
<1> DEFINE d == TakeAutomaticTurn(k)
<1>1. d \in CoordinatorType /\ SameMachines(k, d) /\ d.display = k.display
  BY RuntimeAssumption
  DEF TakeAutomaticTurn, CoordinatorOK, Open, Consistent, CoordinatorType, SameMachines
<1> HIDE DEF d
<1>2. CoordinatorOK(d)
  BY <1>1, EditedSound
<1> QED
  BY <1>1, <1>2 DEF Sound, d

\* RuntimeCoordinator::bindDiscovery is sound and returns an identity.
LEMMA BindDiscoverySound ==
    ASSUME NEW k, CoordinatorOK(k), NEW jobId, NEW f, FreshOK(f)
    PROVE  LET b == BindDiscovery(k, jobId, f)
           IN  Sound(k, b.c) /\ b.discoveryId \in Nat
<1> DEFINE s == Service(k, f)
           r == OpenGeneration(s, f.gen)
           d == [r EXCEPT !.workerDiscoveryId = r.sonos.discoveryId, !.discoveryPending = FALSE,
                          !.discardHost = FALSE]
<1>1. Sound(k, s)
  BY ServiceSound
<1> HIDE DEF s
<1>2. Sound(k, r)
  <2>1. Open(s) /\ s.display.target = k.display.target
    BY <1>1 DEF Sound, CoordinatorOK
  <2>2. CASE s.workerDiscoveryId = NoId
    <3>1. LET e == SonosRefreshRequested(s.sonos, f.gen)
          IN  SonosResultOK(e) /\ e.sonos.network = s.sonos.network
      <4>1. 1 \in Nat
        OBVIOUS
      <4> QED
        BY <2>1, <4>1, MachineResults
    <3>2. Sound(s, ApplyFacts(SonosEvent(s, SonosRefreshRequested(s.sonos, f.gen)), TRUE))
      BY <2>1, <3>1, SonosEventApplied
    <3> QED
      BY <1>1, <2>2, <3>2, SoundTransitive DEF OpenGeneration
  <2>3. CASE s.workerDiscoveryId # NoId
    <3>1. r = ApplyFacts(s, TRUE)
      BY <2>3 DEF OpenGeneration
    <3> QED
      BY <2>1, <3>1, AppliedFacts DEF Sound
  <2> QED
    BY <2>2, <2>3
<1> HIDE DEF r
<1>3. r.sonos.discoveryId \in Nat /\ r \in CoordinatorType
  BY <1>2 DEF Sound, CoordinatorOK, Open, Consistent, SonosOK, SonosType
<1>4. Sound(k, d)
  <2>1. d \in CoordinatorType /\ SameMachines(r, d) /\ d.display = r.display
    BY <1>3 DEF CoordinatorType, SameMachines
  <2> HIDE DEF d
  <2> QED
    BY <1>2, <2>1, EditedSound DEF Sound
<1>5. BindDiscovery(k, jobId, f) \in
          {[c |-> s, discoveryId |-> NoId], [c |-> r, discoveryId |-> NoId],
           [c |-> d, discoveryId |-> r.sonos.discoveryId]}
  BY DEF BindDiscovery, BindActiveJob, BindGeneration, s, r
<1> HIDE DEF d
<1> QED
  BY <1>1, <1>2, <1>3, <1>4, <1>5

\* RuntimeCoordinator::discoveryResult is sound, accepted or not.
LEMMA DiscoveryResultSound ==
    ASSUME NEW k, CoordinatorOK(k), NEW jobId, NEW discoveryId \in Nat, NEW ok \in BOOLEAN,
           NEW host \in Hosts, NEW f, FreshOK(f)
    PROVE  Sound(k, DiscoveryResult(k, jobId, discoveryId, ok, host, f).c)
<1> DEFINE e == ExpireWorker(k)
           received == [e EXCEPT !.discoveryResultReceived = TRUE]
           result == IF ok THEN SonosDiscoverySucceeded(e.sonos, discoveryId)
                           ELSE SonosDiscoveryFailed(e.sonos, discoveryId)
           r == ApplyFacts(SonosEvent(received, result), TRUE)
           found == SubNetworkAvailable(r.subscription, host, f.request)
           w == SubscriptionEvent(r, found)
           read == [w EXCEPT !.reconciliationPending = @ /\ ~r.jobRefresh]
           d == ApplyFacts(read, TRUE)
<1>1. Sound(k, e)
  BY ExpireWorkerSound
<1> HIDE DEF e
<1>2. Open(received) /\ received.sonos = e.sonos /\ received.display = e.display
  <2>1. /\ received \in CoordinatorType /\ SameMachines(e, received)
        /\ received.display = e.display
    BY <1>1 DEF Sound, CoordinatorOK, Open, Consistent, CoordinatorType, SameMachines
  <2> HIDE DEF received
  <2> QED
    BY <1>1, <2>1, EditedOpen DEF Sound, CoordinatorOK, SameMachines
<1>3. SonosResultOK(result) /\ result.sonos.network = received.sonos.network
  <2>1. Open(e) /\ [gen |-> 1, request |-> 1].gen = 1
    BY <1>1 DEF Sound, CoordinatorOK
  <2> QED
    BY <1>2, <2>1, MachineResults
<1> HIDE DEF received, result
<1>4. Sound(k, r)
  BY <1>1, <1>2, <1>3, SonosEventApplied DEF Sound
<1> HIDE DEF r
<1>5. SonosUsable(r.sonos, discoveryId) => Sound(k, d)
  <2> SUFFICES ASSUME SonosUsable(r.sonos, discoveryId)
               PROVE  Sound(k, d)
    OBVIOUS
  <2>1. SubResultOK(found) /\ (found.sub.network => r.sonos.network)
    <3>1. /\ SubOK(r.subscription) /\ host \in Hosts \cup {NoHost}
          /\ f.request \in Nat \ {NoId} /\ NoSid \in Sids \cup {NoSid} /\ 1 \in Nat
      BY <1>4 DEF Sound, CoordinatorOK, Open, Consistent, FreshOK
    <3>2. SubResultOK(found)
      BY <3>1, SubscriptionHandlers, Zenon
    <3>3. r.sonos.network
      BY DEF SonosUsable
    <3> QED
      BY <3>2, <3>3
  <2> HIDE DEF found
  <2>2. Open(w) /\ w.display.target = r.display.target
    BY <1>4, <2>1, SubscriptionEventOpen DEF Sound, CoordinatorOK
  <2> HIDE DEF w
  <2>3. PICK b \in BOOLEAN : b = (w.reconciliationPending /\ ~r.jobRefresh)
    BY Zenon
  <2>4. read = [w EXCEPT !.reconciliationPending = b]
    BY <2>3
  <2>5. w \in CoordinatorType
    BY <2>2 DEF Open, Consistent
  <2> HIDE DEF read
  <2>6. [w EXCEPT !.reconciliationPending = b] \in CoordinatorType
    BY <2>5 DEF CoordinatorType
  <2>7. read \in CoordinatorType /\ SameMachines(w, read) /\ read.display = w.display
    BY <2>4, <2>5, <2>6 DEF CoordinatorType, SameMachines
  <2>8. Open(read)
    BY <2>2, <2>7, EditedOpen
  <2> QED
    BY <1>4, <2>2, <2>7, <2>8, AppliedFacts DEF Sound
<1>6. \/ DiscoveryResult(k, jobId, discoveryId, ok, host, f).c \in {e, r}
      \/ /\ SonosUsable(r.sonos, discoveryId)
         /\ DiscoveryResult(k, jobId, discoveryId, ok, host, f).c = d
  <2>1. r = ReportDiscovery(e, discoveryId, ok)
    BY DEF ReportDiscovery, r, received, result
  <2>2. d = UseHousehold(r, host, f.request)
    BY DEF UseHousehold
  <2> HIDE DEF d
  <2> QED
    BY <2>1, <2>2 DEF DiscoveryResult, TakeDiscoveryResult, AcceptHousehold, e
<1> QED
  BY <1>1, <1>4, <1>5, <1>6

\* What a finished job tells the Sonos machine leaves only the delivery to do.
LEMMA ReportHealthOpen ==
    ASSUME NEW k, CoordinatorOK(k), NEW input
    PROVE  Open(ReportHealth(k, input)) /\ ReportHealth(k, input).display.target = k.display.target
<1> DEFINE id == k.workerDiscoveryId
           failed == ApplyFacts(SonosEvent(k, SonosDiscoveryFailed(k.sonos, id)), TRUE)
           lost == ApplyFacts(SonosEvent(k, SonosSessionFailure(k.sonos, id)), TRUE)
           well == SonosEvent(k, SonosSessionSucceeded(k.sonos, id))
<1>1. /\ Open(k)
      /\ \A r \in {SonosDiscoveryFailed(k.sonos, id), SonosSessionFailure(k.sonos, id),
                   SonosSessionSucceeded(k.sonos, id)} :
             SonosResultOK(r) /\ r.sonos.network = k.sonos.network
  <2>1. Open(k) /\ id \in Nat /\ FreshOK([gen |-> 1, request |-> 1])
    BY DEF CoordinatorOK, Open, Consistent, CoordinatorType, FreshOK
  <2> QED
    BY <2>1, MachineResults
<1>2. Sound(k, failed) /\ Sound(k, lost)
  BY <1>1, SonosEventApplied
<1>3. Open(well) /\ well.display.target = k.display.target
  BY <1>1, SonosEventOpen
<1>4. ReportHealth(k, input) \in {failed, lost, well, k}
  BY DEF ReportHealth, FailDiscovery, FailSession
<1> HIDE DEF failed, lost, well
<1> QED
  BY <1>1, <1>2, <1>3, <1>4 DEF Sound, CoordinatorOK

\* RuntimeCoordinator::finishJob is sound for accepted, cancelled and preempted jobs.
LEMMA FinishJobSound ==
    ASSUME NEW k, CoordinatorOK(k), NEW jobId \in Nat, NEW input
    PROVE  Sound(k, FinishJob(k, jobId, input).c)
<1> DEFINE e == ExpireWorker(k)
           accepted == e.worker.running /\ e.worker.jobId = jobId
           h == IF accepted THEN ReportHealth(e, input) ELSE e
           outcome == IF input.targetUsable /\ input.sessionOk THEN "Success" ELSE "Failure"
           r == WorkerResult(h.worker, jobId, outcome)
           erased == ErasePreempted(e, jobId)
<1>1. Sound(k, e)
  BY ExpireWorkerSound
<1> HIDE DEF e
<1>2. Open(h) /\ h.display.target = k.display.target
  BY <1>1, ReportHealthOpen DEF Sound, CoordinatorOK
<1>3. PICK reconcileFailure \in BOOLEAN :
          reconcileFailure =
            (accepted => FailureOwesRead(h, input))
  BY Zenon
<1> HIDE DEF h
<1>4. WorkerResultOK(r)
  <2>1. /\ WorkerOK(h.worker) /\ outcome \in Outcomes /\ "user" \in Origins /\ 1 \in Nat
    BY <1>2 DEF Open, Consistent, Outcomes, Origins
  <2> HIDE DEF outcome
  <2> QED
    BY <2>1, WorkerHandlers, Zenon
<1> HIDE DEF r
<1>5. Sound(k, ApplyFacts(WorkerEvent(h, r), reconcileFailure))
  BY <1>2, <1>4, WorkerEventApplied DEF Sound
<1>6. Sound(k, erased)
  <2>1. erased \in CoordinatorType /\ SameMachines(e, erased) /\ erased.display = e.display
    BY <1>1 DEF ErasePreempted, Sound, CoordinatorOK, Open, Consistent, CoordinatorType, SameMachines
  <2> HIDE DEF erased
  <2> QED
    BY <1>1, <2>1, EditedSound DEF Sound
<1>7. FinishJob(k, jobId, input).c \in
          {erased, ApplyFacts(WorkerEvent(h, r), reconcileFailure)}
  BY <1>3 DEF FinishJob, FinishExpired, EndRunningJob, ReportResult, FailureOwesRead, e, h, r
<1> QED
  BY <1>5, <1>6, <1>7

\* The display shows a room's state: the machines are not concerned.
LEMMA DisplayChanged ==
    ASSUME NEW k, CoordinatorOK(k), NEW display \in DisplayType
    PROVE  LET d == [k EXCEPT !.display = display] IN CoordinatorOK(d) /\ d.display = display
<1> DEFINE d == [k EXCEPT !.display = display]
<1>1. d \in CoordinatorType /\ SameMachines(k, d) /\ d.display = display
  BY DEF CoordinatorOK, Open, Consistent, CoordinatorType, SameMachines
<1> HIDE DEF d
<1>2. CoordinatorOK(d)
  BY <1>1, EditedSound
<1> QED
  BY <1>1, <1>2 DEF d

\* A publication shows the room it is of, and only if that room is selected.
LEMMA PublishSound ==
    ASSUME NEW k, CoordinatorOK(k), NEW jobId, NEW room \in Rooms \cup {NoRoom},
           NEW state \in StateType, NEW chosen, NEW stopping
    PROVE  LET d == Publish(k, jobId, room, state, chosen, stopping)
           IN  CoordinatorOK(d) /\ d.display.target \in {k.display.target, chosen}
<1> DEFINE shown == Displayed(state, room, k.display.pending)
           d == [k EXCEPT !.display = shown]
<1>1. shown \in DisplayType /\ shown.target = room
  BY DEF Displayed, CoordinatorOK, Open, Consistent, CoordinatorType, StateType, DisplayType
<1> HIDE DEF shown
<1>2. CoordinatorOK(d) /\ d.display.target = room
  BY <1>1, DisplayChanged
<1>3. \/ Publish(k, jobId, room, state, chosen, stopping) = k
      \/ room = chosen /\ Publish(k, jobId, room, state, chosen, stopping) = d
  BY DEF Publish, shown
<1> HIDE DEF d
<1> QED
  BY <1>2, <1>3

\* Selecting a room shows that room.
LEMMA SelectObservedRoomSound ==
    ASSUME NEW k, CoordinatorOK(k), NEW room \in Rooms \cup {NoRoom}
    PROVE  LET d == SelectObservedRoom(k, room) IN CoordinatorOK(d) /\ d.display.target = room
<1> DEFINE shown == Displayed(NewAppState, room, NoId)
           d == [k EXCEPT !.display = shown]
<1>1. shown \in DisplayType /\ shown.target = room
  BY DEF Displayed, NewAppState, DisplayType, Statuses
<1> HIDE DEF shown
<1>2. CoordinatorOK(d) /\ d.display.target = room
  BY <1>1, DisplayChanged
<1>3. \/ k.display.target = room /\ SelectObservedRoom(k, room) = k
      \/ SelectObservedRoom(k, room) = d
  BY DEF SelectObservedRoom, shown
<1> HIDE DEF d
<1> QED
  BY <1>2, <1>3

\* RuntimeCoordinator::subscriptionResult is sound, however late it comes.
LEMMA SubscriptionResultSound ==
    ASSUME NEW k, CoordinatorOK(k), NEW id \in Nat, NEW ok \in BOOLEAN,
           NEW sid \in Sids \cup {NoSid}, NEW lease \in Nat
    PROVE  Sound(k, SubscriptionResult(k, id, ok, sid, lease))
<1> DEFINE r == IF ok THEN SubRequestSucceeded(k.subscription, id, sid, lease)
                      ELSE SubRequestFailed(k.subscription, id)
<1>0. k.subscription.network => k.sonos.network
  BY DEF CoordinatorOK, Open, Peers
<1>1. Open(k) /\ SubOK(k.subscription)
      /\ 1 \in Nat \ {NoId} /\ NoHost \in Hosts \cup {NoHost}
  BY DEF CoordinatorOK, Open, Consistent, Peers
<1>2. SubResultOK(r)
  <2>1. /\ SubResultOK(SubRequestSucceeded(k.subscription, id, sid, lease))
        /\ SubResultOK(SubRequestFailed(k.subscription, id))
    BY <1>1, SubscriptionHandlers, Zenon
  <2> QED
    BY <2>1
<1>3. r.sub.network = k.subscription.network
  <2>1. SubRequestSucceeded(k.subscription, id, sid, lease).sub.network = k.subscription.network
    BY <1>1, SubscriptionGrantNetwork
  <2>2. SubRequestFailed(k.subscription, id).sub.network = k.subscription.network
    BY <1>1, SubscriptionNetwork
  <2> QED
    BY <2>1, <2>2
<1>4. SubscriptionResult(k, id, ok, sid, lease) = ApplyFacts(SubscriptionEvent(k, r), TRUE)
  BY DEF SubscriptionResult
<1> HIDE DEF r
<1> QED
  BY <1>0, <1>1, <1>2, <1>3, <1>4, SubscriptionEventApplied

\* RuntimeCoordinator::notify is sound.
LEMMA NotifySound ==
    ASSUME NEW k, CoordinatorOK(k), NEW sid \in Sids \cup {NoSid}, NEW stopping
    PROVE  Sound(k, Notify(k, sid, stopping))
<1> DEFINE r == SubNotifyReceived(k.subscription, sid)
<1>0. k.subscription.network => k.sonos.network
  BY DEF CoordinatorOK, Open, Peers
<1>1. Open(k) /\ SubOK(k.subscription)
      /\ 1 \in Nat \ {NoId} /\ 1 \in Nat /\ NoHost \in Hosts \cup {NoHost}
  BY DEF CoordinatorOK, Open, Consistent, Peers
<1>2. SubResultOK(r)
  BY <1>1, SubscriptionHandlers, Zenon
<1>3. r.sub.network = k.subscription.network
  BY <1>1, SubscriptionNetwork, Zenon
<1>4. Notify(k, sid, stopping) \in {k, ApplyFacts(SubscriptionEvent(k, r), TRUE)}
  BY DEF Notify
<1> HIDE DEF r
<1> QED
  BY <1>0, <1>1, <1>2, <1>3, <1>4, SubscriptionEventApplied DEF Sound

------------------------------------------------------------------------------
(* The two tasks *)

\* The variables of the tasks, apart from the coordinator
TasksOK ==
    /\ queue \in Seq(JobType) /\ Len(queue) <= QueueDepth
    /\ hand \in HandType /\ HandInSession
    /\ sessions \in [Rooms -> StateType]
    /\ rooms \subseteq Rooms /\ selected \in rooms \cup {NoRoom}
    /\ main \in {"boot", "up", "stopping", "down"}

IInv == CoordinatorOK(c) /\ TasksOK /\ DisplayShowsSelection

\* The invariant contains the properties it is made for.
LEMMA InvariantImplies ==
    IInv => TypeOK /\ FactsDelivered /\ PeersAgree /\ DisplayShowsSelection
<1> SUFFICES ASSUME IInv PROVE TypeOK /\ FactsDelivered /\ PeersAgree
  BY DEF IInv
<1>1. CoordinatorOK(c) /\ TasksOK
  BY DEF IInv
<1>2. c \in CoordinatorType /\ c.availability = "none" /\ Delivered(c) /\ Peers(c)
  BY <1>1 DEF CoordinatorOK, Open, Consistent
<1>3. /\ c.worker.running \/ c.worker = IdleWorker
      /\ WifiInvariant(c.wifi) /\ SonosInvariant(c.sonos) /\ SubscriptionInvariant(c.subscription)
  BY <1>1 DEF CoordinatorOK, Open, Consistent, WorkerOK, WifiOK, SonosOK, SubOK
<1>4. TypeOK
  BY <1>1, <1>2, <1>3 DEF TypeOK, TasksOK
<1>5. FactsDelivered
  BY <1>2 DEF FactsDelivered, Delivered
<1>6. PeersAgree
  BY <1>2 DEF PeersAgree, Peers
<1> QED
  BY <1>4, <1>5, <1>6

\* Identities that are given out are never NoId.
LEMMA FreshIdsOK ==
    /\ \A f \in FreshIds : FreshOK(f)
    /\ \A used : FreshIn(JobIds, used) \subseteq Nat
<1>1. \A f \in FreshIds : f.gen \in GenerationIds /\ f.request \in RequestIds
  BY DEF FreshIds, FreshIn
<1> QED
  BY <1>1, RuntimeTaskAssumption DEF FreshOK, FreshIn

\* Steps that leave the tasks' variables alone keep what is said of them.
LEMMA TasksUnchanged ==
    ASSUME IInv, UNCHANGED <<queue, hand, sessions, selection>>, Sound(c, c'),
           main' \in {"boot", "up", "stopping", "down"}
    PROVE  IInv'
<1>1. TasksOK'
  BY DEF IInv, TasksOK, HandInSession, selection
<1>2. c.display.target = selected
  BY DEF IInv, DisplayShowsSelection
<1> QED
  BY <1>1, <1>2 DEF IInv, Sound, DisplayShowsSelection, selection

\* Fields that belong to no machine and record no fact may be written directly.
LEMMA WrittenDirectly ==
    ASSUME NEW x, CoordinatorOK(x)
    PROVE  /\ Sound(x, [x EXCEPT !.connect = FALSE])
           /\ Sound(x, [x EXCEPT !.connect = FALSE, !.reconciliationPending = TRUE])
           /\ Sound(x, [x EXCEPT !.request = NoId])
           /\ Sound(x, [x EXCEPT !.display.stale = TRUE])
           /\ \A n \in Nat : Sound(x, [x EXCEPT !.rateLeft = n]) /\ Sound(x, [x EXCEPT !.pollLeft = n])
<1>1. x \in CoordinatorType
  BY DEF CoordinatorOK, Open, Consistent
<1>2. \A d \in CoordinatorType :
          SameMachines(x, d) /\ d.display.target = x.display.target => Sound(x, d)
  BY EditedSound DEF Sound
<1>3. Sound(x, [x EXCEPT !.connect = FALSE])
  <2> DEFINE d == [x EXCEPT !.connect = FALSE]
  <2>1. d \in CoordinatorType /\ SameMachines(x, d) /\ d.display.target = x.display.target
    BY <1>1 DEF CoordinatorType, SameMachines
  <2> QED
    BY <1>2, <2>1
<1>4. Sound(x, [x EXCEPT !.connect = FALSE, !.reconciliationPending = TRUE])
  <2> DEFINE d == [x EXCEPT !.connect = FALSE, !.reconciliationPending = TRUE]
  <2>1. d \in CoordinatorType /\ SameMachines(x, d) /\ d.display.target = x.display.target
    BY <1>1 DEF CoordinatorType, SameMachines
  <2> QED
    BY <1>2, <2>1
<1>5. Sound(x, [x EXCEPT !.request = NoId])
  <2> DEFINE d == [x EXCEPT !.request = NoId]
  <2>1. d \in CoordinatorType /\ SameMachines(x, d) /\ d.display.target = x.display.target
    BY <1>1 DEF CoordinatorType, SameMachines
  <2> QED
    BY <1>2, <2>1
<1>6. Sound(x, [x EXCEPT !.display.stale = TRUE])
  <2> DEFINE d == [x EXCEPT !.display.stale = TRUE]
  <2>1. d \in CoordinatorType /\ SameMachines(x, d) /\ d.display.target = x.display.target
    BY <1>1 DEF CoordinatorType, SameMachines, DisplayType
  <2> QED
    BY <1>2, <2>1
<1>7. ASSUME NEW n \in Nat
      PROVE  Sound(x, [x EXCEPT !.rateLeft = n]) /\ Sound(x, [x EXCEPT !.pollLeft = n])
  <2> DEFINE d == [x EXCEPT !.rateLeft = n]
             e == [x EXCEPT !.pollLeft = n]
  <2>1. d \in CoordinatorType /\ SameMachines(x, d) /\ d.display.target = x.display.target
    BY <1>1 DEF CoordinatorType, SameMachines
  <2>2. e \in CoordinatorType /\ SameMachines(x, e) /\ e.display.target = x.display.target
    BY <1>1 DEF CoordinatorType, SameMachines
  <2> QED
    BY <1>2, <2>1, <2>2
<1> QED
  BY <1>3, <1>4, <1>5, <1>6, <1>7

------------------------------------------------------------------------------
(* The main task *)

\* Starting the device, servicing the lifecycles and the radio, preempting for
\* maintenance and stopping keep the invariant.
LEMMA DeviceSteps ==
    ASSUME IInv, Boot \/ MainService \/ MainServiceWifi \/ Maintenance \/ PowerOff \/ MainShutdown
    PROVE  IInv'
<1>1. CoordinatorOK(c) /\ main \in {"boot", "up", "stopping", "down"}
  BY DEF IInv, TasksOK
<1>2. CASE Boot
  <2>1. PICK f \in FreshIds, configured \in BOOLEAN :
            c' = [ServiceWifi(IF configured THEN ConfigAvailable(c, f) ELSE c, FALSE, f)
                     EXCEPT !.connect = FALSE, !.reconciliationPending = TRUE]
    BY <1>2 DEF Boot
  <2> DEFINE started == IF configured THEN ConfigAvailable(c, f) ELSE c
             serviced == ServiceWifi(started, FALSE, f)
  <2>2. FreshOK(f) /\ FALSE \in BOOLEAN
    BY FreshIdsOK
  <2>3. Sound(c, started)
    BY <1>1, <2>2, ConfigAvailableSound DEF Sound
  <2>4. Sound(started, serviced)
    <3>1. CoordinatorOK(started)
      BY <2>3 DEF Sound
    <3> HIDE DEF started
    <3> QED
      BY <2>2, <3>1, ServiceWifiSound
  <2>5. Sound(serviced, c')
    BY <2>1, <2>4, WrittenDirectly DEF Sound
  <2>6. Sound(c, c')
    <3> HIDE DEF serviced, started
    <3> QED
      BY <2>3, <2>4, <2>5, SoundTransitive
  <2> QED
    BY <1>2, <2>6, TasksUnchanged DEF Boot
<1>3. CASE MainService
  <2>1. Sound(c, c')
    BY <1>1, <1>3, FreshIdsOK, ServiceSound DEF MainService
  <2> QED
    BY <1>1, <1>3, <2>1, TasksUnchanged DEF MainService
<1>4. CASE MainServiceWifi
  <2>1. PICK f \in FreshIds, online \in RadioReports :
            c' = [ServiceWifi(c, online, f) EXCEPT !.connect = FALSE]
    BY <1>4 DEF MainServiceWifi
  <2>2. Sound(c, ServiceWifi(c, online, f))
    BY <1>1, FreshIdsOK, ServiceWifiSound, RuntimeTaskAssumption
  <2>3. Sound(ServiceWifi(c, online, f), c')
    BY <2>1, <2>2, WrittenDirectly DEF Sound
  <2>4. Sound(c, c')
    BY <2>2, <2>3, SoundTransitive
  <2> QED
    BY <1>1, <1>4, <2>4, TasksUnchanged DEF MainServiceWifi
<1>5. CASE Maintenance
  <2>1. Sound(c, c')
    BY <1>1, <1>5, PreemptAutomaticSound DEF Maintenance, Sound
  <2> QED
    BY <1>1, <1>5, <2>1, TasksUnchanged DEF Maintenance
<1>6. CASE PowerOff
  <2>1. Sound(c, c')
    BY <1>1, <1>6 DEF PowerOff, Sound
  <2> QED
    BY <1>6, <2>1, TasksUnchanged DEF PowerOff
<1>7. CASE MainShutdown
  <2>1. Sound(c, c')
    BY <1>1, <1>7, ShutdownSound DEF MainShutdown
  <2> QED
    BY <1>7, <2>1, TasksUnchanged DEF MainShutdown
<1> QED
  BY <1>2, <1>3, <1>4, <1>5, <1>6, <1>7

\* Admitted input and automatic reads: what is queued is a job, and a selected
\* room is both the selection and the display's room.
LEMMA AdmissionSteps ==
    ASSUME IInv, UserInput \/ AutomaticJob
    PROVE  IInv'
<1>1. CoordinatorOK(c) /\ TasksOK /\ c.display.target = selected
  BY DEF IInv, DisplayShowsSelection
<1>2. ASSUME NEW job \in JobType, Len(queue) < QueueDepth
      PROVE  Append(queue, job) \in Seq(JobType) /\ Len(Append(queue, job)) <= QueueDepth
  <2> HIDE DEF IInv
  <2>1. queue \in Seq(JobType)
    BY <1>1 DEF TasksOK
  <2> QED
    BY <1>2, <2>1 DEF QueueDepth
<1>3. CASE UserInput
  <2>1. PICK kind \in UserKinds, room \in Rooms \cup {NoRoom} : UserJob(kind, room)
    BY <1>3 DEF UserInput
  <2>2. PICK f \in FreshIds, id \in FreshIn(JobIds, JobIdsHeld) :
            LET committed == CommitJob(Service(c, f), id, kind # "mutation", "user")
            IN  /\ queue' = Append(queue, [id |-> id, kind |-> kind, origin |-> "user",
                                           room |-> room])
                /\ c' = IF kind = "select" THEN SelectObservedRoom(committed, room)
                                           ELSE committed
    BY <2>1 DEF UserJob, AcceptUserJob
  <2> DEFINE job == [id |-> id, kind |-> kind, origin |-> "user", room |-> room]
             committed == CommitJob(Service(c, f), id, kind # "mutation", "user")
  <2>3. id \in Nat /\ FreshOK(f) /\ (kind # "mutation") \in BOOLEAN /\ "user" \in Origins
    BY FreshIdsOK DEF Origins
  <2>4. job \in JobType
    BY <2>3, RuntimeTaskAssumption DEF JobType
  <2>5. Sound(c, committed)
    <3>1. Sound(c, Service(c, f))
      BY <1>1, <2>3, ServiceSound
    <3>2. Sound(Service(c, f), committed)
      BY <2>3, <3>1, CommitJobSound, Zenon DEF Sound
    <3> QED
      BY <3>1, <3>2, SoundTransitive
  <2>6. CoordinatorOK(c') /\ c'.display.target = selected'
    <3>1. CASE kind = "select"
      BY <2>1, <2>2, <2>5, <3>1, SelectObservedRoomSound DEF Sound, UserJob
    <3>2. CASE kind # "select"
      BY <1>1, <2>1, <2>2, <2>5, <3>2 DEF Sound, UserJob
    <3> QED
      BY <3>1, <3>2
  <2>7. TasksOK'
    <3>1. queue' \in Seq(JobType) /\ Len(queue') <= QueueDepth
      BY <1>2, <2>1, <2>2, <2>4 DEF UserJob
    <3>2. selected' \in rooms' \cup {NoRoom}
      BY <1>1, <2>1 DEF UserJob, TasksOK
    <3> QED
      BY <1>1, <2>1, <3>1, <3>2 DEF UserJob, TasksOK, HandInSession
  <2> QED
    BY <2>6, <2>7 DEF IInv, DisplayShowsSelection
<1>4. CASE AutomaticJob
  <2>1. PICK f \in FreshIds, id \in FreshIn(JobIds, JobIdsHeld) :
            LET s == TakeAutomaticTurn(Service(c, f))
            IN  IF Admitted(s, TRUE, "automatic", FALSE) /\ Len(queue) < QueueDepth
                THEN /\ c' = CommitJob(s, id, TRUE, "automatic")
                     /\ queue' = Append(queue, [id |-> id, kind |-> "refresh",
                                                origin |-> "automatic", room |-> NoRoom])
                ELSE c' = s /\ UNCHANGED queue
    BY <1>4 DEF AutomaticJob, QueueAutomaticJob
  <2> DEFINE s == TakeAutomaticTurn(Service(c, f))
             job == [id |-> id, kind |-> "refresh", origin |-> "automatic", room |-> NoRoom]
  <2>2. id \in Nat /\ FreshOK(f) /\ TRUE \in BOOLEAN /\ "automatic" \in Origins
    BY FreshIdsOK DEF Origins
  <2>3. job \in JobType
    BY <2>2 DEF JobType
  <2>4. Sound(c, s)
    <3>1. Sound(c, Service(c, f))
      BY <1>1, <2>2, ServiceSound
    <3>2. Sound(Service(c, f), s)
      BY <3>1, TakeAutomaticTurnSound DEF Sound
    <3> QED
      BY <3>1, <3>2, SoundTransitive
  <2>5. Sound(s, CommitJob(s, id, TRUE, "automatic"))
    <3>1. CoordinatorOK(s)
      BY <2>4 DEF Sound
    <3> HIDE DEF s
    <3> QED
      BY <2>2, <3>1, CommitJobSound, Zenon
  <2>6. Sound(c, CommitJob(s, id, TRUE, "automatic"))
    <3> HIDE DEF s
    <3> QED
      BY <2>4, <2>5, SoundTransitive
  <2>7. Sound(c, c')
    BY <2>1, <2>4, <2>6
  <2>8. queue' \in Seq(JobType) /\ Len(queue') <= QueueDepth
    BY <1>1, <1>2, <2>1, <2>3 DEF TasksOK
  <2>9. TasksOK'
    BY <1>1, <1>4, <2>8 DEF AutomaticJob, TasksOK, HandInSession, selection
  <2> QED
    BY <1>1, <1>4, <2>7, <2>9 DEF AutomaticJob, selection, IInv, Sound, DisplayShowsSelection
<1> QED
  BY <1>3, <1>4

------------------------------------------------------------------------------
(* The worker task *)

\* A task that has nothing in hand is well formed.
LEMMA IdleHandOK ==
    /\ NoJob \in JobType /\ NoSession \in StateType \cup {NoSession} /\ IdleHand \in HandType
    /\ IdleHand.pc = "idle" /\ IdleHand.room = NoRoom
<1>1. NoJob \in JobType
  BY DEF NoJob, JobType, Origins
<1>2. IdleHand \in HandType /\ IdleHand.pc = "idle" /\ IdleHand.room = NoRoom
  BY <1>1 DEF IdleHand, HandType
<1> QED
  BY <1>1, <1>2

\* Topology events keep the invariant, whenever the publisher answers.
LEMMA TopologyEventSteps ==
    ASSUME IInv, TopologyEvents
    PROVE  IInv'
<1>1. CoordinatorOK(c) /\ TasksOK /\ c.display.target = selected
  BY DEF IInv, DisplayShowsSelection
<1>2. c.request \in Nat /\ hand \in HandType /\ hand.request \in Nat
  BY <1>1 DEF CoordinatorOK, Open, Consistent, CoordinatorType, TasksOK, HandType
<1>3. CASE TakeRequest
  <2>1. Sound(c, c')
    BY <1>1, <1>3, WrittenDirectly DEF TakeRequest
  <2> DEFINE taken == [IdleHand EXCEPT !.pc = "subscribing", !.request = c.request]
  <2>2. taken \in HandType /\ taken.pc = "subscribing" /\ taken.room = NoRoom
    BY <1>2, IdleHandOK DEF HandType
  <2>3. hand' \in HandType /\ hand'.pc \in {"subscribing", "idle"} /\ hand'.room = NoRoom
    BY <1>3, <2>2, IdleHandOK DEF TakeRequest
  <2>4. TasksOK'
    BY <1>1, <1>3, <2>3 DEF TakeRequest, TasksOK, HandInSession, InSession, selection
  <2> QED
    BY <1>1, <1>3, <2>1, <2>4 DEF TakeRequest, IInv, Sound, DisplayShowsSelection, selection
<1>4. CASE RequestAnswered
  <2>1. Sound(c, c')
    <3>1. CASE c' = SubscriptionResult(c, hand.request, FALSE, NoSid, 0)
      <4>1. FALSE \in BOOLEAN /\ NoSid \in Sids \cup {NoSid} /\ 0 \in Nat
        OBVIOUS
      <4> QED
        BY <1>1, <1>2, <3>1, <4>1, SubscriptionResultSound
    <3>2. ASSUME NEW sid \in Sids \cup {NoSid}, NEW lease \in Leases,
                 c' = SubscriptionResult(c, hand.request, TRUE, sid, lease)
          PROVE  Sound(c, c')
      <4>1. TRUE \in BOOLEAN /\ lease \in Nat
        BY RuntimeTaskAssumption
      <4> QED
        BY <1>1, <1>2, <3>2, <4>1, SubscriptionResultSound
    <3> QED
      BY <1>4, <3>1, <3>2 DEF RequestAnswered
  <2>2. TasksOK'
    BY <1>1, <1>4, IdleHandOK DEF RequestAnswered, TasksOK, HandInSession, InSession, selection
  <2> QED
    BY <1>1, <1>4, <2>1, <2>2 DEF RequestAnswered, IInv, Sound, DisplayShowsSelection, selection
<1>5. CASE NotifyArrives
  <2>1. Sound(c, c')
    BY <1>1, <1>5, NotifySound DEF NotifyArrives
  <2>2. main' \in {"boot", "up", "stopping", "down"}
    BY <1>1, <1>5 DEF NotifyArrives, TasksOK
  <2> QED
    BY <1>5, <2>1, <2>2, TasksUnchanged DEF NotifyArrives
<1> QED
  BY <1>3, <1>4, <1>5 DEF TopologyEvents

\* A step of the task that moves only its hand, its rooms still its own.
LEMMA HandMoves ==
    ASSUME IInv, UNCHANGED <<queue, sessions, selection, main>>, Sound(c, c'),
           hand' \in HandType, HandInSession'
    PROVE  IInv'
<1>1. TasksOK' /\ c.display.target = selected
  BY DEF IInv, TasksOK, selection, DisplayShowsSelection
<1> QED
  BY <1>1 DEF IInv, Sound, DisplayShowsSelection, selection

\* Taking a job and reading the household topology for it keep the invariant.
LEMMA JobSteps ==
    ASSUME IInv, Receive \/ Pickup \/ ReadTopology
    PROVE  IInv'
<1>1. CoordinatorOK(c) /\ TasksOK /\ c.display.target = selected
  BY DEF IInv, DisplayShowsSelection
<1>2. hand \in HandType /\ HandInSession /\ hand.discoveryId \in Nat /\ Sound(c, c)
  BY <1>1 DEF TasksOK, HandType, Sound
<1>3. CASE Receive
  <2>1. queue \in Seq(JobType) /\ queue # <<>> /\ Len(queue) <= QueueDepth
    BY <1>1, <1>3 DEF Receive, TasksOK
  <2>2. Head(queue) \in JobType /\ Tail(queue) \in Seq(JobType) /\ Len(Tail(queue)) <= QueueDepth
    BY <2>1 DEF QueueDepth
  <2> DEFINE h == [IdleHand EXCEPT !.pc = "pickup", !.job = Head(queue)]
  <2>3. h \in HandType /\ h.pc = "pickup" /\ h.room = NoRoom
    BY <2>2, IdleHandOK DEF HandType
  <2>4. TasksOK'
    BY <1>1, <1>3, <2>2, <2>3 DEF Receive, TasksOK, HandInSession, InSession, selection
  <2> QED
    BY <1>1, <1>3, <2>4 DEF Receive, IInv, DisplayShowsSelection, selection
<1>4. CASE Pickup
  <2>1. hand.pc = "pickup" /\ hand.room = NoRoom
    BY <1>2, <1>4 DEF Pickup, HandInSession, InSession
  <2>2. CASE c' = c /\ hand' = [hand EXCEPT !.pc = "finish"]
    <3>1. hand' \in HandType /\ hand'.pc = "finish" /\ hand'.room = NoRoom
      BY <1>2, <2>1, <2>2 DEF HandType
    <3>2. HandInSession'
      BY <3>1 DEF HandInSession, InSession
    <3> QED
      BY <1>2, <1>4, <2>2, <3>1, <3>2, HandMoves DEF Pickup
  <2>3. ASSUME NEW f \in FreshIds,
               c' = BindDiscovery(c, hand.job.id, f).c,
               hand' = [hand EXCEPT !.discoveryId = BindDiscovery(c, hand.job.id, f).discoveryId,
                            !.pc = IF BindDiscovery(c, hand.job.id, f).discoveryId = NoId
                                   THEN "finish" ELSE "topology"]
        PROVE  IInv'
    <3> DEFINE b == BindDiscovery(c, hand.job.id, f)
    <3>1. Sound(c, b.c) /\ b.discoveryId \in Nat
      BY <1>1, FreshIdsOK, BindDiscoverySound
    <3>2. Sound(c, c')
      BY <2>3, <3>1
    <3>3. PICK next \in {"finish", "topology"}, n \in Nat :
              hand' = [hand EXCEPT !.discoveryId = n, !.pc = next]
      BY <2>3, <3>1
    <3>4. hand' \in HandType /\ hand'.pc \in {"finish", "topology"} /\ hand'.room = NoRoom
      BY <1>2, <2>1, <3>3 DEF HandType
    <3>5. HandInSession'
      BY <3>4 DEF HandInSession, InSession
    <3> QED
      BY <1>4, <3>2, <3>4, <3>5, HandMoves DEF Pickup
  <2> QED
    BY <1>4, <2>2, <2>3, Zenon DEF Pickup
<1>5. CASE ReadTopology
  <2>1. PICK result \in {"ok", "failed"} :
            hand' = [hand EXCEPT !.pc = "topologyRead", !.result = result]
    BY <1>5 DEF ReadTopology
  <2>2. hand.room = NoRoom
    BY <1>2, <1>5 DEF ReadTopology, HandInSession, InSession
  <2>3. hand' \in HandType /\ hand'.pc = "topologyRead" /\ hand'.room = NoRoom
    BY <1>2, <2>1, <2>2 DEF HandType
  <2>4. HandInSession'
    BY <2>3 DEF HandInSession, InSession
  <2>5. Sound(c, c')
    BY <1>2, <1>5 DEF ReadTopology
  <2> QED
    BY <1>5, <2>3, <2>4, <2>5, HandMoves DEF ReadTopology
<1> QED
  BY <1>3, <1>4, <1>5

\* The selection after a topology read is an eligible room, or no room.
LEMMA NextSelectedEligible ==
    ASSUME NEW eligible, NEW cycle \in BOOLEAN, NEW chosen \in NextSelected(eligible, cycle)
    PROVE  chosen \in eligible \cup {NoRoom}
BY DEF NextSelected

\* What the topology read found is projected under the lock: the coordinator,
\* the eligible rooms, the selection and the display change together.
LEMMA TopologySteps ==
    ASSUME IInv, ApplyTopology
    PROVE  IInv'
<1>1. CoordinatorOK(c) /\ TasksOK /\ c.display.target = selected /\ hand.pc = "topologyRead"
  BY DEF IInv, DisplayShowsSelection, ApplyTopology
<1>2. hand \in HandType /\ hand.discoveryId \in Nat /\ hand.room = NoRoom /\ Sound(c, c)
  BY <1>1 DEF TasksOK, HandType, HandInSession, InSession, Sound
<1>3. CASE Abandon
  <2>1. hand' = [hand EXCEPT !.pc = "finish", !.result = "none"] /\ Sound(c, c')
    BY <1>2, <1>3 DEF Abandon
  <2>2. hand' \in HandType /\ hand'.pc = "finish" /\ hand'.room = NoRoom
    BY <1>2, <2>1 DEF HandType
  <2>3. HandInSession'
    BY <2>2 DEF HandInSession, InSession
  <2> QED
    BY <1>3, <2>1, <2>2, <2>3, HandMoves DEF Abandon, ApplyTopology
<1>4. ASSUME NEW f \in FreshIds, NEW host \in Hosts, NEW eligible \in Topologies \cup {rooms},
             NEW chosen \in Rooms \cup {NoRoom},
             UseTopology(DiscoveryResult(c, hand.job.id, hand.discoveryId, hand.result = "ok",
                                         host, f), eligible, chosen)
      PROVE  IInv'
  <2> DEFINE d == DiscoveryResult(c, hand.job.id, hand.discoveryId, hand.result = "ok", host, f)
             ok == hand.result = "ok" /\ d.accepted
             stale == [d.c EXCEPT !.display.stale = TRUE]
             shown == IF ok THEN d.c ELSE stale
             target == IF IsRead(hand.job) THEN chosen ELSE hand.job.room
             usable == ok /\ target \in eligible
  <2>1. /\ chosen \in IF ok THEN NextSelected(eligible, hand.job.kind = "cycle") ELSE {selected}
        /\ eligible # rooms => ok
        /\ rooms' = eligible /\ selected' = chosen
        /\ c' = SelectObservedRoom(shown, chosen)
    BY <1>4 DEF UseTopology
  <2>2. /\ hand'.room = IF usable THEN target ELSE NoRoom
        /\ hand' \in HandType
        /\ hand'.pc \in IF usable THEN {"submit", "invalidate", "read"} ELSE {"unavailable"}
    <3>1. PICK next \in {"submit", "invalidate", "read", "unavailable"} :
              /\ hand' = [hand EXCEPT !.result = "none", !.room = IF usable THEN target ELSE NoRoom,
                                      !.pc = next]
              /\ next \in IF usable THEN {"submit", "invalidate", "read"} ELSE {"unavailable"}
      BY <1>4 DEF UseTopology
    <3>2. (IF usable THEN target ELSE NoRoom) \in Rooms \cup {NoRoom}
      BY <1>1, RuntimeTaskAssumption DEF TasksOK
    <3>3. ASSUME NEW room \in Rooms \cup {NoRoom},
                 NEW h, h = [hand EXCEPT !.result = "none", !.room = room, !.pc = next]
          PROVE  h \in HandType /\ h.room = room /\ h.pc = next
      BY <1>2, <3>3 DEF HandType, InSession
    <3> HIDE DEF usable, target
    <3>4. PICK room \in Rooms \cup {NoRoom} :
              /\ room = (IF usable THEN target ELSE NoRoom)
              /\ hand' = [hand EXCEPT !.result = "none", !.room = room, !.pc = next]
      BY <3>1, <3>2, Zenon
    <3>5. hand' \in HandType /\ hand'.room = room /\ hand'.pc = next
      BY <3>3, <3>4, Zenon
    <3> QED
      BY <3>1, <3>4, <3>5
  <2>3. Sound(c, d.c)
    <3>1. FreshOK(f) /\ (hand.result = "ok") \in BOOLEAN
      BY FreshIdsOK
    <3> QED
      BY <1>1, <1>2, <3>1, DiscoveryResultSound, Zenon
  <2>4. CoordinatorOK(shown)
    <3>1. CoordinatorOK(d.c)
      BY <2>3 DEF Sound
    <3>2. CoordinatorOK(stale)
      <4> HIDE DEF d
      <4> QED
        BY <3>1, WrittenDirectly DEF Sound
    <3> QED
      BY <3>1, <3>2
  <2> HIDE DEF d, stale
  <2>5. CoordinatorOK(c') /\ c'.display.target = selected'
    <3> HIDE DEF shown
    <3> QED
      BY <2>1, <2>4, SelectObservedRoomSound
  <2>6. rooms' \subseteq Rooms /\ selected' \in rooms' \cup {NoRoom}
    <3>1. eligible \subseteq Rooms
      BY <1>1, RuntimeTaskAssumption DEF TasksOK
    <3>2. CASE ok
      BY <2>1, <3>1, <3>2, NextSelectedEligible
    <3>3. CASE ~ok
      BY <1>1, <2>1, <3>1, <3>3 DEF TasksOK
    <3> QED
      BY <3>2, <3>3
  <2>7. HandInSession'
    <3>1. usable => target \in Rooms
      BY <2>1, <1>1, RuntimeTaskAssumption DEF TasksOK
    <3> QED
      BY <2>2, <3>1 DEF HandInSession, InSession
  <2>8. TasksOK'
    BY <1>1, <2>2, <2>6, <2>7 DEF ApplyTopology, TasksOK
  <2> QED
    BY <2>5, <2>8 DEF IInv, DisplayShowsSelection
<1> QED
  BY <1>3, <1>4 DEF ApplyTopology

\* A publication keeps the coordinator well formed and the display on the
\* selected room.
LEMMA PublicationSound ==
    ASSUME IInv, NEW room \in Rooms \cup {NoRoom}, NEW state \in StateType,
           c' = Publish(c, hand.job.id, room, state, selected, Stopping)
    PROVE  Sound(c, c')
<1>1. CoordinatorOK(c) /\ c.display.target = selected
  BY DEF IInv, DisplayShowsSelection
<1>2. CoordinatorOK(c') /\ c'.display.target \in {c.display.target, selected}
  BY <1>1, PublishSound
<1> QED
  BY <1>1, <1>2 DEF Sound

\* A step of the task inside its session.
LEMMA SessionMoves ==
    ASSUME IInv, UNCHANGED <<queue, selection, main>>, Sound(c, c'),
           sessions' \in [Rooms -> StateType], hand' \in HandType, HandInSession'
    PROVE  IInv'
<1>1. TasksOK' /\ c.display.target = selected
  BY DEF IInv, TasksOK, selection, DisplayShowsSelection
<1> QED
  BY <1>1 DEF IInv, Sound, DisplayShowsSelection, selection

\* Every publication of a job in its session keeps the invariant.
LEMMA ReadSteps ==
    ASSUME IInv, PublishUnavailable \/ Invalidate \/ Loading \/ ReadRoom \/ PublishRead
    PROVE  IInv'
<1>1. CoordinatorOK(c) /\ TasksOK /\ hand \in HandType /\ HandInSession /\ Sound(c, c)
  BY DEF IInv, TasksOK, Sound
<1>2. sessions \in [Rooms -> StateType]
  BY <1>1 DEF TasksOK
<1>3. NewAppState \in StateType
  BY DEF NewAppState, StateType, Statuses
<1>4. CASE PublishUnavailable
  <2>1. [stale |-> TRUE, status |-> c.display.status, recovery |-> c.display.recovery] \in StateType
        /\ c.display.target \in Rooms \cup {NoRoom}
    BY <1>1 DEF CoordinatorOK, Open, Consistent, CoordinatorType, DisplayType, StateType
  <2>2. Sound(c, c')
    BY <1>4, <2>1, PublicationSound DEF PublishUnavailable
  <2>3. hand' \in HandType /\ HandInSession'
    BY <1>1, <1>4 DEF PublishUnavailable, HandType, HandInSession, InSession
  <2> QED
    BY <1>2, <1>4, <2>2, <2>3, SessionMoves DEF PublishUnavailable
<1>5. CASE Invalidate
  <2>1. hand.room \in Rooms
    BY <1>1, <1>5 DEF Invalidate, HandInSession, InSession
  <2>2. sessions' \in [Rooms -> StateType] /\ sessions'[hand.room] \in StateType
    BY <1>2, <1>5, <2>1 DEF Invalidate, StateType
  <2>3. Sound(c, c')
    BY <1>5, <2>1, <2>2, PublicationSound DEF Invalidate, PublishSession
  <2>4. hand' \in HandType /\ HandInSession'
    BY <1>1, <1>5, <2>1 DEF Invalidate, HandType, HandInSession, InSession
  <2> QED
    BY <1>5, <2>2, <2>3, <2>4, SessionMoves DEF Invalidate
<1>6. CASE Loading
  <2>1. hand.room \in Rooms
    BY <1>1, <1>6 DEF Loading, HandInSession, InSession
  <2>2. Sound(c, c')
    BY <1>3, <1>6, <2>1, PublicationSound DEF Loading, PublishSession
  <2>3. hand' \in HandType /\ HandInSession'
    BY <1>1, <1>6, <2>1 DEF Loading, HandType, HandInSession, InSession
  <2> QED
    BY <1>2, <1>6, <2>2, <2>3, SessionMoves DEF Loading
<1>7. CASE ReadRoom
  <2>1. hand.room \in Rooms /\ sessions[hand.room] \in StateType
    BY <1>1, <1>2, <1>7 DEF ReadRoom, HandInSession, InSession
  <2>2. hand' \in HandType /\ HandInSession'
    BY <1>1, <1>7, <2>1 DEF ReadRoom, HandType, HandInSession, InSession
  <2> QED
    BY <1>1, <1>2, <1>7, <2>2, SessionMoves DEF ReadRoom
<1>8. CASE PublishRead
  <2>1. hand.room \in Rooms
    BY <1>1, <1>8 DEF PublishRead, HandInSession, InSession
  <2>2. sessions' \in [Rooms -> StateType] /\ sessions'[hand.room] \in StateType
    BY <1>2, <1>8, <2>1 DEF PublishRead, StateType
  <2>3. Sound(c, c')
    BY <1>8, <2>1, <2>2, PublicationSound DEF PublishRead, PublishSession
  <2>4. hand' \in HandType /\ HandInSession'
    BY <1>1, <1>8, <2>1 DEF PublishRead, HandType, HandInSession, InSession
  <2> QED
    BY <1>8, <2>2, <2>3, <2>4, SessionMoves DEF PublishRead
<1> QED
  BY <1>4, <1>5, <1>6, <1>7, <1>8

\* The steps of a command keep the invariant: each is published with the state
\* its session is in, and the outcome is one a command can have.
LEMMA CommandSteps ==
    ASSUME IInv, Submit \/ Prepare \/ Execute \/ Verify \/ Conclude
    PROVE  IInv'
<1>1. CoordinatorOK(c) /\ TasksOK /\ hand \in HandType /\ HandInSession /\ Sound(c, c)
  BY DEF IInv, TasksOK, Sound
<1>2. sessions \in [Rooms -> StateType] /\ hand.room \in Rooms /\ sessions[hand.room] \in StateType
  BY <1>1 DEF TasksOK, HandInSession, InSession, Submit, Prepare, Execute, Verify, Conclude
<1>3. CASE Submit
  <2>1. CASE sessions[hand.room].recovery
    <3>1. hand' = [hand EXCEPT !.pc = "finish", !.result = "failed", !.retained = sessions[hand.room]]
          /\ c' = c /\ sessions' = sessions
      BY <1>3, <2>1 DEF Submit
    <3>2. hand' \in HandType /\ HandInSession'
      BY <1>1, <1>2, <3>1 DEF HandType, HandInSession, InSession
    <3> QED
      BY <1>1, <1>2, <1>3, <3>1, <3>2, SessionMoves DEF Submit
  <2>2. CASE ~sessions[hand.room].recovery
    <3>1. /\ hand' = [hand EXCEPT !.pc = "prepare", !.retained = sessions[hand.room]]
          /\ sessions' = [sessions EXCEPT ![hand.room].status = "pending"]
          /\ c' = PublishSession(sessions'[hand.room])
      BY <1>3, <2>2 DEF Submit
    <3>2. sessions' \in [Rooms -> StateType] /\ sessions'[hand.room] \in StateType
      BY <1>2, <3>1 DEF StateType, Statuses
    <3>3. hand' \in HandType /\ HandInSession'
      BY <1>1, <1>2, <3>1 DEF HandType, HandInSession, InSession
    <3>4. Sound(c, c')
      BY <1>2, <3>1, <3>2, PublicationSound DEF PublishSession
    <3> QED
      BY <1>3, <3>2, <3>3, <3>4, SessionMoves DEF Submit
  <2> QED
    BY <2>1, <2>2
<1>4. CASE Prepare
  <2>1. hand' = [hand EXCEPT !.pc = "execute"] \/ hand' = [hand EXCEPT !.pc = "conclude", !.result = "failed"]
    BY <1>4 DEF Prepare
  <2>2. hand' \in HandType /\ HandInSession'
    BY <1>1, <1>2, <1>4, <2>1 DEF Prepare, HandType, HandInSession, InSession
  <2> QED
    BY <1>1, <1>2, <1>4, <2>2, SessionMoves DEF Prepare
<1>5. CASE Execute
  <2>1. \/ hand' = hand
        \/ hand' = [hand EXCEPT !.pc = "verify"]
        \/ \E result \in {"uncertain", "failed"} :
              hand' = [hand EXCEPT !.pc = "conclude", !.result = result]
    BY <1>5 DEF Execute
  <2>2. hand' \in HandType /\ HandInSession'
    BY <1>1, <1>2, <1>5, <2>1 DEF Execute, HandType, HandInSession, InSession
  <2>3. Sound(c, c')
    BY <1>2, <1>5, PublicationSound DEF Execute, PublishSession
  <2> QED
    BY <1>2, <1>5, <2>2, <2>3, SessionMoves DEF Execute
<1>6. CASE Verify
  <2>1. \E result \in {"ok", "uncertain"} :
            hand' = [hand EXCEPT !.pc = "conclude", !.result = result]
    BY <1>6 DEF Verify
  <2>2. hand' \in HandType /\ HandInSession'
    BY <1>1, <1>2, <1>6, <2>1 DEF Verify, HandType, HandInSession, InSession
  <2>3. Sound(c, c')
    BY <1>2, <1>6, PublicationSound DEF Verify, PublishSession
  <2> QED
    BY <1>2, <1>6, <2>2, <2>3, SessionMoves DEF Verify
<1>7. CASE Conclude
  <2>1. PICK fresh \in BOOLEAN :
            sessions' = [sessions EXCEPT ![hand.room] =
                [stale |-> ~fresh, recovery |-> hand.result = "uncertain",
                 status |-> IF hand.result = "ok" THEN "succeeded" ELSE hand.result]]
    BY <1>7 DEF Conclude
  <2>2. hand.result \in {"ok", "failed", "uncertain"}
    BY <1>1, <1>7 DEF Conclude, HandType, HandInSession
  <2>3. PICK stale, recovery \in BOOLEAN, status \in Statuses :
            sessions' = [sessions EXCEPT ![hand.room] =
                            [stale |-> stale, recovery |-> recovery, status |-> status]]
    <3>1. (~fresh) \in BOOLEAN /\ (hand.result = "uncertain") \in BOOLEAN
      OBVIOUS
    <3>2. (IF hand.result = "ok" THEN "succeeded" ELSE hand.result) \in Statuses
      BY <2>2 DEF Statuses
    <3> QED
      BY <2>1, <3>1, <3>2, Zenon
  <2>4. sessions' \in [Rooms -> StateType] /\ sessions'[hand.room] \in StateType
    BY <1>2, <2>3 DEF StateType
  <2>5. hand' \in HandType /\ HandInSession'
    BY <1>1, <1>2, <1>7 DEF Conclude, HandType, HandInSession, InSession
  <2>6. Sound(c, c')
    BY <1>2, <1>7, <2>4, PublicationSound DEF Conclude, PublishSession
  <2> QED
    BY <1>7, <2>4, <2>5, <2>6, SessionMoves DEF Conclude
<1> QED
  BY <1>3, <1>4, <1>5, <1>6, <1>7

\* Finishing a job, and what its session keeps of it.
LEMMA FinishStep ==
    ASSUME IInv, Finish
    PROVE  IInv'
<1>1. CoordinatorOK(c) /\ TasksOK /\ hand \in HandType /\ HandInSession /\ hand.pc = "finish"
  BY DEF IInv, TasksOK, Finish
<1>2. PICK transportFailed \in BOOLEAN :
          LET usable == hand.room # NoRoom
              done == FinishJob(c, hand.job.id,
                         [targetUsable |-> usable, sessionOk |-> hand.result = "ok",
                          transportFailed |-> usable /\ transportFailed])
          IN  /\ c' = done.c
              /\ sessions' = IF usable
                             THEN [sessions EXCEPT ![hand.room] = Discarded(done.finish, @)]
                             ELSE sessions
  BY DEF Finish
<1> DEFINE input == [targetUsable |-> hand.room # NoRoom, sessionOk |-> hand.result = "ok",
                     transportFailed |-> hand.room # NoRoom /\ transportFailed]
           done == FinishJob(c, hand.job.id, input)
<1>3. Sound(c, c')
  <2>1. hand.job.id \in Nat
    BY <1>1 DEF HandType, JobType
  <2>2. Sound(c, done.c)
    BY <1>1, <2>1, FinishJobSound
  <2> QED
    BY <1>2, <2>2
<1>4. sessions' \in [Rooms -> StateType]
  <2>1. sessions \in [Rooms -> StateType] /\ hand.room \in Rooms \cup {NoRoom}
    BY <1>1 DEF TasksOK, HandType
  <2>2. CASE hand.room = NoRoom
    BY <1>2, <2>1, <2>2
  <2>3. CASE hand.room # NoRoom
    <3>1. hand.room \in Rooms /\ hand.retained \in StateType
      BY <1>1, <2>1, <2>3 DEF HandInSession
    <3>2. \A state \in StateType : Discarded(done.finish, state) \in StateType
      <4> HIDE DEF done
      <4>1. ASSUME NEW state \in StateType
            PROVE  \/ Discarded(done.finish, state) \in {hand.retained, state}
                   \/ Discarded(done.finish, state) = [hand.retained EXCEPT !.stale = TRUE]
                   \/ Discarded(done.finish, state) =
                          [stale |-> TRUE, status |-> "uncertain", recovery |-> TRUE]
        BY DEF Discarded
      <4>2. [hand.retained EXCEPT !.stale = TRUE] \in StateType
        BY <3>1 DEF StateType
      <4>3. [stale |-> TRUE, status |-> "uncertain", recovery |-> TRUE] \in StateType
        BY DEF StateType, Statuses
      <4> QED
        BY <3>1, <4>1, <4>2, <4>3
    <3>3. sessions' = [sessions EXCEPT ![hand.room] = Discarded(done.finish, sessions[hand.room])]
      BY <1>2, <2>3
    <3> HIDE DEF done
    <3> QED
      BY <2>1, <3>1, <3>2, <3>3
  <2> QED
    BY <2>2, <2>3
<1>5. hand' \in HandType /\ HandInSession' /\ UNCHANGED <<queue, selection, main>>
  BY IdleHandOK DEF Finish, HandInSession, InSession
<1> QED
  BY <1>3, <1>4, <1>5, SessionMoves

------------------------------------------------------------------------------
(* Time *)


\* A timer that runs down leaves its machine within its budgets, in the state
\* it was in; the states without a timer have nothing to run down.
LEMMA TimersRunDown ==
    ASSUME NEW x, CoordinatorOK(x)
    PROVE  /\ x.worker.left > 0 => WorkerOK([x.worker EXCEPT !.left = Elapsed(@)])
           /\ x.wifi.left > 0 => WifiOK([x.wifi EXCEPT !.left = Elapsed(@)])
           /\ x.sonos.left > 0 => SonosOK([x.sonos EXCEPT !.left = Elapsed(@)])
           /\ x.subscription.left > 0 => SubOK([x.subscription EXCEPT !.left = Elapsed(@)])
           /\ x.subscription.leaseLeft > 0 =>
                  SubOK([x.subscription EXCEPT !.leaseLeft = Elapsed(@), !.renewLeft = Elapsed(@)])
<1>1. WorkerOK(x.worker) /\ WifiOK(x.wifi) /\ SonosOK(x.sonos) /\ SubOK(x.subscription)
  BY DEF CoordinatorOK, Open, Consistent
<1>2. ASSUME x.worker.left > 0
      PROVE  WorkerOK([x.worker EXCEPT !.left = Elapsed(@)])
  <2>1. x.worker \in WorkerType /\ x.worker.running
    BY <1>1, <1>2 DEF WorkerOK, IdleWorker
  <2>2. PICK n \in Nat : n = Elapsed(x.worker.left)
    BY <2>1, ElapsedNat DEF WorkerType
  <2>3. WorkerOK([x.worker EXCEPT !.left = n])
    BY <2>1 DEF WorkerOK, WorkerType
  <2> QED
    BY <2>2, <2>3
<1>3. ASSUME x.wifi.left > 0
      PROVE  WifiOK([x.wifi EXCEPT !.left = Elapsed(@)])
  <2>1. x.wifi \in WifiType /\ WifiInvariant(x.wifi)
    BY <1>1 DEF WifiOK
  <2>2. PICK n \in Nat : n = Elapsed(x.wifi.left) /\ n <= x.wifi.left
    BY <2>1, ElapsedNat DEF WifiType
  <2>3. x.wifi.state \in {"Connecting", "Backoff"} /\ x.wifi.ready = FALSE
    <3>1. x.wifi.state \notin {"Unconfigured", "Online"}
      BY <1>3, <2>1 DEF WifiInvariant, WifiType
    <3>2. x.wifi.ready \in BOOLEAN /\ x.wifi.state \in WifiStates
      BY <2>1 DEF WifiType
    <3>3. x.wifi.ready = FALSE
      BY <2>1, <3>1, <3>2, Zenon DEF WifiInvariant
    <3> QED
      BY <3>1, <3>2, <3>3 DEF WifiStates
  <2> DEFINE w == [x.wifi EXCEPT !.left = n]
  <2>4. w \in WifiType /\ w.state = x.wifi.state /\ w.ready = FALSE /\ w.left = n
        /\ w.attempts = x.wifi.attempts
    BY <2>1, <2>3 DEF WifiType
  <2> HIDE DEF w
  <2>5. WifiInvariant(w)
    <3>1. /\ x.wifi.state = "Connecting" => x.wifi.left <= ConnectBudget /\ x.wifi.attempts > 0
          /\ x.wifi.state = "Backoff" => x.wifi.left <= MaximumBackoff
      BY <2>1 DEF WifiInvariant
    <3>2. x.wifi.left \in Nat /\ ConnectBudget \in Nat /\ MaximumBackoff \in Nat
      BY <2>1, ConnectAssumption, BackoffAssumption DEF WifiType
    <3> QED
      BY <2>2, <2>3, <2>4, <3>1, <3>2 DEF WifiInvariant
  <2> QED
    BY <2>2, <2>4, <2>5 DEF w, WifiOK
<1>4. ASSUME x.sonos.left > 0
      PROVE  SonosOK([x.sonos EXCEPT !.left = Elapsed(@)])
  <2>1. x.sonos \in SonosType /\ SonosInvariant(x.sonos)
    BY <1>1 DEF SonosOK
  <2>2. PICK n \in Nat : n = Elapsed(x.sonos.left) /\ n <= x.sonos.left
    BY <2>1, ElapsedNat DEF SonosType
  <2>3. x.sonos.state \in {"Discovering", "Backoff"}
    <3>1. x.sonos.state # "Offline"
      BY <1>4, <2>1 DEF SonosInvariant, OfflineSonos
    <3>2. x.sonos.state # "Ready"
      BY <1>4, <2>1 DEF SonosInvariant
    <3> QED
      BY <2>1, <3>1, <3>2 DEF SonosType, SonosStates
  <2> DEFINE s == [x.sonos EXCEPT !.left = n]
  <2>4. s \in SonosType /\ s.state = x.sonos.state /\ s.left = n
        /\ s.discoveryId = x.sonos.discoveryId /\ s.attempts = x.sonos.attempts
        /\ s.recovering = x.sonos.recovering /\ s.network = x.sonos.network
    BY <2>1 DEF SonosType
  <2> HIDE DEF s
  <2>5. SonosInvariant(s)
    <3>1. x.sonos.left \in Nat /\ DiscoveryBudget \in Nat /\ MaximumBackoff \in Nat
      BY <2>1, DiscoveryAssumption, BackoffAssumption DEF SonosType
    <3> QED
      BY <2>1, <2>2, <2>3, <2>4, <3>1 DEF SonosInvariant
  <2> QED
    BY <2>2, <2>4, <2>5 DEF s, SonosOK
<1>5. ASSUME x.subscription.left > 0
      PROVE  SubOK([x.subscription EXCEPT !.left = Elapsed(@)])
  <2>1. x.subscription \in SubscriptionType(Hosts, Sids) /\ SubscriptionInvariant(x.subscription)
    BY <1>1 DEF SubOK
  <2>2. PICK n \in Nat : n = Elapsed(x.subscription.left) /\ n <= x.subscription.left
    BY <2>1, ElapsedNat DEF SubscriptionType
  <2>3. x.subscription.state \notin {"Inactive", "Healthy"}
    BY <1>5, <2>1 DEF SubscriptionInvariant
  <2> DEFINE s == [x.subscription EXCEPT !.left = n]
  <2>4. s \in SubscriptionType(Hosts, Sids) /\ s.state = x.subscription.state /\ s.left = n
        /\ s.sid = x.subscription.sid /\ s.requestId = x.subscription.requestId
        /\ s.address = x.subscription.address /\ s.network = x.subscription.network
        /\ s.attempts = x.subscription.attempts /\ s.leaseLeft = x.subscription.leaseLeft
        /\ s.renewLeft = x.subscription.renewLeft
    BY <2>1 DEF SubscriptionType
  <2> HIDE DEF s
  <2>5. SubscriptionInvariant(s)
    <3>1. x.subscription.left \in Nat /\ RequestBudget \in Nat /\ MaximumBackoff \in Nat
      BY <2>1, SubscriptionAssumption, BackoffAssumption DEF SubscriptionType
    <3> QED
      BY <2>1, <2>2, <2>3, <2>4, <3>1 DEF SubscriptionInvariant
  <2> QED
    BY <2>2, <2>4, <2>5 DEF s, SubOK
<1>6. ASSUME x.subscription.leaseLeft > 0
      PROVE  SubOK([x.subscription EXCEPT !.leaseLeft = Elapsed(@), !.renewLeft = Elapsed(@)])
  <2>1. x.subscription \in SubscriptionType(Hosts, Sids) /\ SubscriptionInvariant(x.subscription)
    BY <1>1 DEF SubOK
  <2>2. PICK n, m \in Nat : /\ n = Elapsed(x.subscription.leaseLeft) /\ n <= x.subscription.leaseLeft
                            /\ m = Elapsed(x.subscription.renewLeft)
    BY <2>1, ElapsedNat DEF SubscriptionType
  <2>3. x.subscription.state \in Leased
    BY <1>6, <2>1 DEF SubscriptionInvariant
  <2> DEFINE s == [x.subscription EXCEPT !.leaseLeft = n, !.renewLeft = m]
  <2>4. s \in SubscriptionType(Hosts, Sids) /\ s.state = x.subscription.state
        /\ s.left = x.subscription.left
        /\ s.sid = x.subscription.sid /\ s.requestId = x.subscription.requestId
        /\ s.address = x.subscription.address /\ s.network = x.subscription.network
        /\ s.attempts = x.subscription.attempts /\ s.leaseLeft = n
    BY <2>1 DEF SubscriptionType
  <2> HIDE DEF s
  <2>5. SubscriptionInvariant(s)
    <3>1. x.subscription.leaseLeft \in Nat /\ MaximumLease \in Nat
      BY <2>1, SubscriptionAssumption DEF SubscriptionType
    <3> QED
      BY <2>1, <2>2, <2>3, <2>4, <3>1 DEF SubscriptionInvariant
  <2> QED
    BY <2>2, <2>4, <2>5 DEF s, SubOK
<1> QED
  BY <1>2, <1>3, <1>4, <1>5, <1>6

\* Replacing a machine by one in the same relation to the network keeps the
\* coordinator well formed.
LEMMA MachineReplaced ==
    ASSUME NEW x, CoordinatorOK(x)
    PROVE  /\ \A w : WorkerOK(w) => Sound(x, [x EXCEPT !.worker = w])
           /\ \A w : WifiOK(w) /\ w.ready = x.wifi.ready => Sound(x, [x EXCEPT !.wifi = w])
           /\ \A s : SonosOK(s) /\ s.network = x.sonos.network => Sound(x, [x EXCEPT !.sonos = s])
           /\ \A s : SubOK(s) /\ s.network = x.subscription.network
                        => Sound(x, [x EXCEPT !.subscription = s])
<1>1. Consistent(x) /\ x \in CoordinatorType
  BY DEF CoordinatorOK, Open, Consistent
<1>2. \A d \in CoordinatorType :
          /\ WorkerOK(d.worker) /\ WifiOK(d.wifi) /\ SonosOK(d.sonos) /\ SubOK(d.subscription)
          /\ d.wifi.ready = x.wifi.ready /\ d.sonos.network = x.sonos.network
          /\ d.subscription.network = x.subscription.network
          /\ d.availability = x.availability /\ d.completion = x.completion
          /\ d.display = x.display
          /\ d.invalidated = x.invalidated /\ d.discoveryInvalidated = x.discoveryInvalidated
          /\ d.reconcile = x.reconcile /\ d.topologyChanged = x.topologyChanged
          => Sound(x, d)
  BY DEF CoordinatorOK, Open, Consistent, Peers, Delivered, Sound
<1>3. ASSUME NEW w, WorkerOK(w)
      PROVE  Sound(x, [x EXCEPT !.worker = w])
  <2> DEFINE d == [x EXCEPT !.worker = w]
  <2>1. w \in WorkerType
    BY <1>3 DEF WorkerOK
  <2>2. /\ d \in CoordinatorType /\ d.worker = w /\ d.wifi = x.wifi
        /\ d.sonos = x.sonos /\ d.subscription = x.subscription
        /\ d.availability = x.availability /\ d.completion = x.completion
        /\ d.display = x.display
        /\ d.invalidated = x.invalidated /\ d.discoveryInvalidated = x.discoveryInvalidated
        /\ d.reconcile = x.reconcile /\ d.topologyChanged = x.topologyChanged
    BY <1>1, <2>1 DEF CoordinatorType
  <2> HIDE DEF d
  <2> QED
    BY <1>1, <1>2, <1>3, <2>2 DEF Consistent, d
<1>4. ASSUME NEW w, WifiOK(w), w.ready = x.wifi.ready
      PROVE  Sound(x, [x EXCEPT !.wifi = w])
  <2> DEFINE d == [x EXCEPT !.wifi = w]
  <2>1. w \in WifiType
    BY <1>4 DEF WifiOK
  <2>2. /\ d \in CoordinatorType /\ d.wifi = w /\ d.worker = x.worker
        /\ d.sonos = x.sonos /\ d.subscription = x.subscription
        /\ d.availability = x.availability /\ d.completion = x.completion
        /\ d.display = x.display
        /\ d.invalidated = x.invalidated /\ d.discoveryInvalidated = x.discoveryInvalidated
        /\ d.reconcile = x.reconcile /\ d.topologyChanged = x.topologyChanged
    BY <1>1, <2>1 DEF CoordinatorType
  <2> HIDE DEF d
  <2> QED
    BY <1>1, <1>2, <1>4, <2>2 DEF Consistent, d
<1>5. ASSUME NEW s, SonosOK(s), s.network = x.sonos.network
      PROVE  Sound(x, [x EXCEPT !.sonos = s])
  <2> DEFINE d == [x EXCEPT !.sonos = s]
  <2>1. s \in SonosType
    BY <1>5 DEF SonosOK
  <2>2. /\ d \in CoordinatorType /\ d.sonos = s /\ d.worker = x.worker
        /\ d.wifi = x.wifi /\ d.subscription = x.subscription
        /\ d.availability = x.availability /\ d.completion = x.completion
        /\ d.display = x.display
        /\ d.invalidated = x.invalidated /\ d.discoveryInvalidated = x.discoveryInvalidated
        /\ d.reconcile = x.reconcile /\ d.topologyChanged = x.topologyChanged
    BY <1>1, <2>1 DEF CoordinatorType
  <2> HIDE DEF d
  <2> QED
    BY <1>1, <1>2, <1>5, <2>2 DEF Consistent, d
<1>6. ASSUME NEW s, SubOK(s), s.network = x.subscription.network
      PROVE  Sound(x, [x EXCEPT !.subscription = s])
  <2> DEFINE d == [x EXCEPT !.subscription = s]
  <2>1. s \in SubscriptionType(Hosts, Sids)
    BY <1>6 DEF SubOK
  <2>2. /\ d \in CoordinatorType /\ d.subscription = s /\ d.worker = x.worker
        /\ d.wifi = x.wifi /\ d.sonos = x.sonos
        /\ d.availability = x.availability /\ d.completion = x.completion
        /\ d.display = x.display
        /\ d.invalidated = x.invalidated /\ d.discoveryInvalidated = x.discoveryInvalidated
        /\ d.reconcile = x.reconcile /\ d.topologyChanged = x.topologyChanged
    BY <1>1, <2>1 DEF CoordinatorType
  <2> HIDE DEF d
  <2> QED
    BY <1>1, <1>2, <1>6, <2>2 DEF Consistent, d
<1> QED
  BY <1>3, <1>4, <1>5, <1>6

\* The passing of time keeps the invariant.
LEMMA TimeSteps ==
    ASSUME IInv, Time
    PROVE  IInv'
<1>1. CoordinatorOK(c) /\ main \in {"boot", "up", "stopping", "down"} /\ c \in CoordinatorType
  BY DEF IInv, TasksOK, CoordinatorOK, Open, Consistent
<1>2. Sound(c, c')
  <2>1. CASE WorkerTime
    <3> DEFINE w == [c.worker EXCEPT !.left = Elapsed(@)]
    <3>1. c' = [c EXCEPT !.worker = w]
      BY <2>1 DEF WorkerTime
    <3>2. WorkerOK(w)
      BY <1>1, <2>1, TimersRunDown DEF WorkerTime
    <3> HIDE DEF w
    <3> QED
      BY <1>1, <3>1, <3>2, MachineReplaced
  <2>2. CASE WifiTime
    <3> DEFINE w == [c.wifi EXCEPT !.left = Elapsed(@)]
    <3>1. c' = [c EXCEPT !.wifi = w] /\ w.ready = c.wifi.ready
      BY <1>1, <2>2 DEF WifiTime, CoordinatorType, WifiType
    <3>2. WifiOK(w)
      BY <1>1, <2>2, TimersRunDown DEF WifiTime
    <3> HIDE DEF w
    <3> QED
      BY <1>1, <3>1, <3>2, MachineReplaced
  <2>3. CASE SonosTime
    <3> DEFINE s == [c.sonos EXCEPT !.left = Elapsed(@)]
    <3>1. c' = [c EXCEPT !.sonos = s] /\ s.network = c.sonos.network
      BY <1>1, <2>3 DEF SonosTime, CoordinatorType, SonosType
    <3>2. SonosOK(s)
      BY <1>1, <2>3, TimersRunDown DEF SonosTime
    <3> HIDE DEF s
    <3> QED
      BY <1>1, <3>1, <3>2, MachineReplaced
  <2>4. CASE RequestTime
    <3> DEFINE s == [c.subscription EXCEPT !.left = Elapsed(@)]
    <3>1. c' = [c EXCEPT !.subscription = s] /\ s.network = c.subscription.network
      BY <1>1, <2>4 DEF RequestTime, CoordinatorType, SubscriptionType
    <3>2. SubOK(s)
      BY <1>1, <2>4, TimersRunDown DEF RequestTime
    <3> HIDE DEF s
    <3> QED
      BY <1>1, <3>1, <3>2, MachineReplaced
  <2>5. CASE LeaseTime
    <3> DEFINE s == [c.subscription EXCEPT !.leaseLeft = Elapsed(@), !.renewLeft = Elapsed(@)]
    <3>1. c' = [c EXCEPT !.subscription = s] /\ s.network = c.subscription.network
      BY <1>1, <2>5 DEF LeaseTime, CoordinatorType, SubscriptionType
    <3>2. SubOK(s)
      BY <1>1, <2>5, TimersRunDown DEF LeaseTime
    <3> HIDE DEF s
    <3> QED
      BY <1>1, <3>1, <3>2, MachineReplaced
  <2>6. CASE RateTime \/ PollTime
    <3>1. PICK r, p \in Nat : r = Elapsed(c.rateLeft) /\ p = Elapsed(c.pollLeft)
      BY <1>1, ElapsedNat DEF CoordinatorType
    <3>2. c' = [c EXCEPT !.rateLeft = r] \/ c' = [c EXCEPT !.pollLeft = p]
      BY <2>6, <3>1 DEF RateTime, PollTime
    <3>3. Sound(c, [c EXCEPT !.rateLeft = r]) /\ Sound(c, [c EXCEPT !.pollLeft = p])
      BY <1>1, WrittenDirectly
    <3> QED
      BY <3>2, <3>3
  <2> QED
    BY <2>1, <2>2, <2>3, <2>4, <2>5, <2>6 DEF Time
<1> QED
  BY <1>1, <1>2, TasksUnchanged DEF Time

------------------------------------------------------------------------------
(* The specification *)

\* A device that starts satisfies the invariant.
LEMMA InitInvariant == Init => IInv
<1> SUFFICES ASSUME Init PROVE IInv
  OBVIOUS
<1>1. c = InitialCoordinator
  BY DEF Init
<1>2. WorkerOK(IdleWorker) /\ WifiOK(UnconfiguredWifi) /\ SonosOK(OfflineSonos)
      /\ SubOK(InactiveSubscription)
  <2>1. WorkerOK(IdleWorker)
    BY DEF WorkerOK, IdleWorker, WorkerType, Origins
  <2>2. WifiOK(UnconfiguredWifi)
    BY DEF WifiOK, UnconfiguredWifi, WifiType, WifiStates, WifiInvariant
  <2>3. SonosOK(OfflineSonos)
    BY DEF SonosOK, OfflineSonos, SonosType, SonosStates, SonosInvariant
  <2>4. SubOK(InactiveSubscription)
    BY DEF SubOK, InactiveSubscription, SubscriptionType, SubscriptionStates, SubscriptionInvariant,
           Requesting, Leased
  <2> QED
    BY <2>1, <2>2, <2>3, <2>4
<1>3. c \in CoordinatorType
  <2>1. /\ IdleWorker \in WorkerType /\ UnconfiguredWifi \in WifiType /\ OfflineSonos \in SonosType
        /\ InactiveSubscription \in SubscriptionType(Hosts, Sids)
    BY <1>2 DEF WorkerOK, WifiOK, SonosOK, SubOK
  <2>2. NoCompletion \in CompletionType
    BY DEF NoCompletion, CompletionType
  <2>3. Displayed(NewAppState, NoRoom, NoId) \in DisplayType
    BY DEF Displayed, NewAppState, DisplayType, Statuses
  <2> QED
    BY <1>1, <2>1, <2>2, <2>3, RuntimeAssumption DEF InitialCoordinator, CoordinatorType
<1>4. /\ c.worker = IdleWorker /\ c.wifi = UnconfiguredWifi /\ c.sonos = OfflineSonos
      /\ c.subscription = InactiveSubscription /\ c.availability = "none"
      /\ c.completion = NoCompletion /\ ~c.invalidated /\ ~c.discoveryInvalidated /\ ~c.reconcile
      /\ ~c.topologyChanged /\ c.display.target = NoRoom
  BY <1>1 DEF InitialCoordinator, Displayed
<1>5. CoordinatorOK(c)
  <2>1. UnconfiguredWifi.ready = FALSE /\ OfflineSonos.network = FALSE
        /\ InactiveSubscription.network = FALSE
    BY DEF UnconfiguredWifi, OfflineSonos, InactiveSubscription
  <2> QED
    BY <1>2, <1>3, <1>4, <2>1 DEF CoordinatorOK, Open, Consistent, Peers, Delivered
<1>6. TasksOK
  <2>1. queue \in Seq(JobType) /\ Len(queue) <= QueueDepth
    BY DEF Init, QueueDepth
  <2>2. sessions \in [Rooms -> StateType]
    BY DEF Init, NewAppState, StateType, Statuses
  <2> QED
    BY <2>1, <2>2, IdleHandOK DEF Init, TasksOK, HandInSession, InSession
<1> QED
  BY <1>4, <1>5, <1>6 DEF Init, IInv, DisplayShowsSelection

\* Every step of the device keeps the invariant.
LEMMA NextInvariant == IInv /\ [Next]_vars => IInv'
<1> SUFFICES ASSUME IInv, [Next]_vars PROVE IInv'
  OBVIOUS
<1>1. CASE MainTask
  BY <1>1, DeviceSteps, AdmissionSteps DEF MainTask
<1>2. CASE TopologyEvents
  BY <1>2, TopologyEventSteps
<1>3. CASE WorkerTask
  BY <1>3, JobSteps, TopologySteps, ReadSteps, CommandSteps, FinishStep DEF WorkerTask
<1>4. CASE Time
  BY <1>4, TimeSteps
<1>5. CASE Asleep \/ UNCHANGED vars
  BY <1>5 DEF Asleep, vars, selection, IInv, TasksOK, HandInSession, DisplayShowsSelection
<1> QED
  BY <1>1, <1>2, <1>3, <1>4, <1>5 DEF Next

\* The inductive invariant holds in every reachable state of the device.
THEOREM Invariance == Spec => []IInv
BY InitInvariant, NextInvariant, PTL DEF Spec

\* The device is type correct and every lifecycle machine satisfies the
\* invariant its header states, whatever the budgets, the household, the radio
\* and the publisher do.
THEOREM TypeCorrect == Spec => []TypeOK
BY Invariance, InvariantImplies, PTL

\* No call returns with a fact undelivered.
THEOREM FactsAlwaysDelivered == Spec => []FactsDelivered
BY Invariance, InvariantImplies, PTL

\* Sonos has a network exactly while Wi-Fi is online, and no subscription
\* outlives either.
THEOREM PeersAlwaysAgree == Spec => []PeersAgree
BY Invariance, InvariantImplies, PTL

\* The display never shows a room that is not the selected one.
THEOREM DisplayFollowsSelection == Spec => []DisplayShowsSelection
BY Invariance, InvariantImplies, PTL
=============================================================================

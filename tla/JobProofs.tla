------------------------------- MODULE JobProofs -------------------------------
(***************************************************************************)
(* What the coordinator says of jobs and generations is accounted for by   *)
(* the worker task and its queue, whatever ends a job and whenever: the    *)
(* running job, the preempted ones, the optimistic values, the word        *)
(* "pending" and the generation that is being discovered.                  *)
(***************************************************************************)
EXTENDS RuntimeProofs

USE DEF NoId

\* What the coordinator keeps of jobs on its own.
PendingOwned(x) ==
    x.display.pending # NoId =>
        /\ x.worker.running /\ x.worker.jobId = x.display.pending
        /\ x.worker.origin = "user" /\ ~x.jobRefresh

GenerationHeld(x) ==
    x.sonos.state = "Discovering" /\ x.sonos.left > 0 =>
        \/ x.discoveryPending
        \/ /\ x.worker.running /\ ~x.discoveryResultReceived
           /\ x.workerDiscoveryId = x.sonos.discoveryId

\* A generation the job is bound to became Ready by the job's own read.
ReadyByOwnRead(x) ==
    x.sonos.state = "Ready" /\ x.workerDiscoveryId = x.sonos.discoveryId
        => x.discoveryResultReceived

JobOK(x) == PendingOwned(x) /\ GenerationHeld(x) /\ ReadyByOwnRead(x)

\* What the tasks hold of jobs.
Working == hand.pc \notin {"idle", "subscribing"}
Commanding == {"submit", "prepare", "execute", "verify", "conclude"}
Unsettled == {"prepare", "execute", "verify", "conclude"}
Reading == {"invalidate", "loading", "read", "roomRead"}

QueuedOK ==
    /\ \A i \in DOMAIN queue :
          /\ queue[i].id # NoId /\ queue[i].id # hand.job.id
          /\ ~IsRead(queue[i]) => queue[i].origin = "user"
    /\ \A i, j \in DOMAIN queue : i # j => queue[i].id # queue[j].id

InHandOK ==
    /\ IF Working THEN hand.job.id # NoId ELSE hand.job = NoJob
    /\ ~IsRead(hand.job) => hand.job.origin = "user"
    /\ hand.pc \in Commanding => ~IsRead(hand.job)
    /\ hand.pc \in Reading => IsRead(hand.job)
    /\ ~Working \/ hand.pc = "pickup" => hand.discoveryId = NoId

\* The job the worker lifecycle runs is the last one that was admitted.
LastJob == IF queue = <<>> THEN hand.job ELSE queue[Len(queue)]
LastJobRuns ==
    c.worker.running =>
        /\ LastJob.id # NoId
        /\ c.worker.jobId = LastJob.id /\ c.worker.origin = LastJob.origin

\* A job is told the generation it is bound to, and its read is reported once.
BoundAsTold ==
    c.worker.running =>
        /\ queue # <<>> \/ hand.pc \in {"pickup", "topology", "topologyRead"}
               => ~c.discoveryResultReceived
        /\ queue = <<>> /\ hand.discoveryId # NoId => c.workerDiscoveryId = hand.discoveryId

PreemptedOK == PreemptedJobsHeld /\ NoId \notin c.preemptedJobs

PendingStatusOK ==
    ~Stopping /\ c.display.status = "pending" =>
        /\ c.worker.running /\ queue = <<>> /\ hand.room = selected
        /\ hand.pc \in Unsettled \cup {"finish"} /\ ~IsRead(hand.job)
        /\ hand.pc = "finish" => c.worker.left = 0

SessionsOK ==
    /\ \A r \in Rooms : sessions[r].status = "pending" => hand.room = r /\ hand.pc \in Unsettled
    /\ hand.retained.status # "pending"

\* Only a read whose answer was good frees a room of the doubt it was found in.
DoubtKept ==
    /\ hand.pc = "roomRead" => hand.retained = sessions[hand.room]
    /\ hand.pc \in Unsettled => ~hand.retained.recovery
    /\ hand.pc = "finish" /\ hand.room # NoRoom /\ hand.retained.recovery
          => sessions[hand.room].recovery \/ (IsRead(hand.job) /\ hand.result = "ok")

JobsHeld ==
    /\ JobOK(c) /\ QueuedOK /\ InHandOK /\ LastJobRuns /\ BoundAsTold /\ PreemptedOK
    /\ PendingStatusOK /\ SessionsOK /\ DoubtKept

JInv == IInv /\ JobsHeld

------------------------------------------------------------------------------
(* Facts and jobs *)

\* What the delivery of facts does not touch.
SameJobs(x, d) ==
    /\ d.worker = x.worker /\ d.wifi = x.wifi /\ d.preemptedJobs = x.preemptedJobs
    /\ d.workerDiscoveryId = x.workerDiscoveryId
    /\ d.discoveryResultReceived = x.discoveryResultReceived /\ d.jobRefresh = x.jobRefresh

\* A job that ended without an answer
Unanswered(x) ==
    /\ x.completion # NoCompletion
    /\ x.completion.outcome \notin {"Success", "Failure", "Preempted"}

\* Nothing is said of the room shown that was not said before, unless the
\* observation is stale.
NothingNew(x, d) ==
    \/ d.display.stale
    \/ /\ d.display.target = x.display.target /\ d.display.stale = x.display.stale
       /\ d.display.status = x.display.status /\ d.display.recovery = x.display.recovery

\* Revoking the subscription concerns no job and no generation.
LEMMA RevokeLeavesJobs ==
    ASSUME NEW x, Consistent(x)
    PROVE  LET d == RevokeSubscription(x)
           IN  /\ SameJobs(x, d) /\ d.sonos = x.sonos /\ d.discoveryPending = x.discoveryPending
               /\ d.display = x.display /\ d.completion = x.completion
               /\ d.reconcile = x.reconcile /\ d.topologyChanged = x.topologyChanged
               /\ d.reconciliationPending = x.reconciliationPending
               /\ d.invalidated = x.invalidated
<1> DEFINE none == x.topologyChanged \/ FALSE
           r == SubStop(x.subscription)
           e == [x EXCEPT !.subscription = r.sub, !.request = x.request, !.topologyChanged = none]
           d == [e EXCEPT !.discoveryInvalidated = FALSE, !.request = NoId]
<1>1. none = x.topologyChanged
  BY DEF Consistent, CoordinatorType
<1>2. RevokeSubscription(x) \in {x, d}
  BY DEF RevokeSubscription, StopSubscription, SubscriptionEvent, SubStop, SubIs
<1> HIDE DEF none, r
<1>3. /\ SameJobs(x, d) /\ d.sonos = x.sonos /\ d.discoveryPending = x.discoveryPending
      /\ d.display = x.display /\ d.completion = x.completion
      /\ d.reconcile = x.reconcile /\ d.topologyChanged = x.topologyChanged
      /\ d.reconciliationPending = x.reconciliationPending /\ d.invalidated = x.invalidated
  BY <1>1 DEF Consistent, CoordinatorType, SameJobs
<1> HIDE DEF d
<1> QED
  BY <1>2, <1>3 DEF SameJobs

\* The facts of the Sonos and subscription machines mark the display stale and
\* owe a read.
LEMMA SonosFactsLeaveJobs ==
    ASSUME NEW x, Consistent(x)
    PROVE  LET d == ApplySonosFacts(x)
           IN  /\ SameJobs(x, d) /\ d.sonos = x.sonos /\ d.discoveryPending = x.discoveryPending
               /\ d.completion = x.completion
               /\ d.display.pending = x.display.pending /\ d.display.status = x.display.status
               /\ NothingNew(x, d) /\ (~x.invalidated => d.display = x.display)
               /\ ~x.reconcile /\ ~x.topologyChanged
                      => d.reconciliationPending = x.reconciliationPending
<1> DEFINE e == RevokeSubscription(x)
           d == ApplySonosFacts(x)
<1>1. /\ SameJobs(x, e) /\ e.sonos = x.sonos /\ e.discoveryPending = x.discoveryPending
      /\ e.display = x.display /\ e.completion = x.completion
      /\ e.reconcile = x.reconcile /\ e.topologyChanged = x.topologyChanged
      /\ e.reconciliationPending = x.reconciliationPending /\ e.invalidated = x.invalidated
      /\ e \in CoordinatorType
  BY RevokeLeavesJobs, RevokeKeeps DEF Consistent
<1>2. PICK stale \in BOOLEAN : stale = (e.display.stale \/ x.invalidated)
  BY Zenon
<1>3. PICK owed \in BOOLEAN : owed = (e.reconciliationPending \/ e.reconcile \/ e.topologyChanged)
  BY Zenon
<1> DEFINE marked == [e EXCEPT !.invalidated = FALSE, !.display.stale = stale]
           plain == [marked EXCEPT !.reconciliationPending = owed, !.reconcile = FALSE,
                                   !.topologyChanged = FALSE]
<1>4. d = plain
  <2>1. marked = [e EXCEPT !.invalidated = FALSE, !.display.stale = @ \/ x.invalidated]
    BY <1>2
  <2>2. /\ marked.reconciliationPending = e.reconciliationPending
        /\ marked.reconcile = e.reconcile /\ marked.topologyChanged = e.topologyChanged
    <3> HIDE DEF e
    <3> QED
      BY <1>1 DEF CoordinatorType
  <2>3. d = OweReconciliation(marked)
    BY <2>1 DEF ApplySonosFacts
  <2> HIDE DEF marked, d
  <2>4. OweReconciliation(marked) =
           [marked EXCEPT !.reconciliationPending = owed, !.reconcile = FALSE,
                          !.topologyChanged = FALSE]
    BY <1>3, <2>2 DEF OweReconciliation
  <2> QED
    BY <2>3, <2>4
<1> HIDE DEF d, e
<1>5. /\ SameJobs(e, plain) /\ plain.sonos = e.sonos
      /\ plain.discoveryPending = e.discoveryPending
      /\ plain.completion = e.completion
      /\ plain.display = [e.display EXCEPT !.stale = stale]
      /\ plain.reconciliationPending = owed
  BY <1>1 DEF CoordinatorType, SameJobs
<1>6. /\ plain.display.pending = x.display.pending /\ plain.display.status = x.display.status
      /\ plain.display.target = x.display.target /\ plain.display.recovery = x.display.recovery
      /\ plain.display.stale = stale
  BY <1>1, <1>5 DEF CoordinatorType, DisplayType
<1>7. e.display.stale \in BOOLEAN /\ e.reconciliationPending \in BOOLEAN
  BY <1>1 DEF CoordinatorType, DisplayType
<1>8. ~x.invalidated => plain.display = x.display
  <2> SUFFICES ASSUME ~x.invalidated PROVE plain.display = x.display
    OBVIOUS
  <2>1. stale = e.display.stale
    BY <1>2, <1>7
  <2> QED
    BY <1>1, <1>5, <2>1 DEF CoordinatorType, DisplayType
<1>9. ~x.reconcile /\ ~x.topologyChanged => plain.reconciliationPending = x.reconciliationPending
  BY <1>1, <1>3, <1>5, <1>7
<1>10. stale \/ stale = x.display.stale
  BY <1>1, <1>2, <1>7
<1> HIDE DEF plain
<1> QED
  BY <1>1, <1>4, <1>5, <1>6, <1>8, <1>9, <1>10 DEF SameJobs, NothingNew, d

\* What an event of the Sonos machine does to the records beside it.
LEMMA SonosEventLeavesJobs ==
    ASSUME NEW x, Consistent(x), NEW r, SonosResultOK(r)
    PROVE  LET d == SonosEvent(x, r)
               revoked == "invalidateDiscovery" \in r.fx \/ "invalidateSession" \in r.fx
           IN  /\ SameJobs(x, d) /\ d.sonos = r.sonos
               /\ revoked => d.invalidated
               /\ ~revoked => /\ d.invalidated = x.invalidated
                              /\ "discoveryRequested" \in r.fx => d.discoveryPending
               /\ r.fx = {} => d.discoveryPending = x.discoveryPending /\ d.reconcile = x.reconcile
               /\ "reconcile" \notin r.fx => d.reconcile = x.reconcile
               /\ d.display = x.display /\ d.completion = x.completion
               /\ d.topologyChanged = x.topologyChanged
               /\ d.reconciliationPending = x.reconciliationPending
<1> DEFINE discovery == "invalidateDiscovery" \in r.fx
           revoked == discovery \/ "invalidateSession" \in r.fx
           d == SonosEvent(x, r)
<1>1. PICK offered, lost, lostDiscovery, discard, owed \in BOOLEAN :
          /\ offered = (~revoked /\ (x.discoveryPending \/ "discoveryRequested" \in r.fx))
          /\ lost = (x.invalidated \/ revoked)
          /\ lostDiscovery = (x.discoveryInvalidated \/ discovery)
          /\ discard = (x.discardHost \/ discovery)
          /\ owed = (x.reconcile \/ "reconcile" \in r.fx)
  BY Zenon
<1>2. d = [x EXCEPT !.sonos = r.sonos, !.discoveryPending = offered, !.invalidated = lost,
                    !.discoveryInvalidated = lostDiscovery, !.discardHost = discard,
                    !.reconcile = owed]
  BY <1>1 DEF SonosEvent
<1> HIDE DEF d
<1>3. /\ SameJobs(x, d) /\ d.sonos = r.sonos /\ d.discoveryPending = offered
      /\ d.invalidated = lost /\ d.reconcile = owed
      /\ d.display = x.display /\ d.completion = x.completion
      /\ d.topologyChanged = x.topologyChanged
      /\ d.reconciliationPending = x.reconciliationPending
  BY <1>2 DEF Consistent, CoordinatorType, SameJobs
<1>4. /\ x.discoveryPending \in BOOLEAN /\ x.invalidated \in BOOLEAN /\ x.reconcile \in BOOLEAN
  BY DEF Consistent, CoordinatorType
<1>5. /\ revoked => lost
      /\ ~revoked => lost = x.invalidated /\ ("discoveryRequested" \in r.fx => offered)
      /\ r.fx = {} => offered = x.discoveryPending /\ owed = x.reconcile
      /\ "reconcile" \notin r.fx => owed = x.reconcile
  BY <1>1, <1>4
<1> QED
  BY <1>3, <1>5 DEF d

\* The session a job without an answer was bound to is lost; nothing else is
\* said of jobs, and a command in progress is no longer called pending.
LEMMA LostSessionLeavesJobs ==
    ASSUME NEW x, Consistent(x)
    PROVE  LET d == LoseSession(x)
           IN  /\ SameJobs(x, d) /\ d.completion = x.completion
               /\ d.display.pending = x.display.pending
               /\ d.display.stale /\ d.display.status # "pending"
               /\ \/ d.sonos.state = "Backoff"
                  \/ /\ d.sonos = x.sonos /\ d.discoveryPending = x.discoveryPending
                     /\ \/ x.workerDiscoveryId = NoId
                        \/ x.sonos.state \notin {"Discovering", "Ready"}
                        \/ x.workerDiscoveryId # x.sonos.discoveryId
<1> DEFINE r == SonosSessionFailure(x.sonos, x.workerDiscoveryId)
           e == IF x.workerDiscoveryId # NoId THEN SonosEvent(x, r) ELSE x
           lost == ApplySonosFacts(e)
           pending == lost.display.status = "pending"
           d == LoseSession(x)
<1>1. SonosResultOK(r)
  <2>1. x.workerDiscoveryId \in Nat /\ SonosOK(x.sonos) /\ 1 \in Nat \ {NoId}
    BY DEF Consistent, CoordinatorType
  <2> QED
    BY <2>1, SonosHandlers, Zenon
<1>2. \/ r.sonos.state = "Backoff"
      \/ /\ r = SonosStays(x.sonos)
         /\ \/ x.sonos.state \notin {"Discovering", "Ready"}
            \/ x.workerDiscoveryId # x.sonos.discoveryId
  BY DEF SonosSessionFailure, SonosBackoff, Consistent, SonosOK, SonosType
<1>3. /\ Consistent(e) /\ SameJobs(x, e) /\ e.display = x.display /\ e.completion = x.completion
      /\ \/ e.sonos.state = "Backoff"
         \/ /\ e.sonos = x.sonos /\ e.discoveryPending = x.discoveryPending
            /\ \/ x.workerDiscoveryId = NoId
               \/ x.sonos.state \notin {"Discovering", "Ready"}
               \/ x.workerDiscoveryId # x.sonos.discoveryId
  <2>1. CASE x.workerDiscoveryId = NoId
    BY <2>1 DEF SameJobs
  <2>2. CASE x.workerDiscoveryId # NoId
    <3> DEFINE y == SonosEvent(x, r)
    <3>1. /\ Consistent(y) /\ SameJobs(x, y) /\ y.sonos = r.sonos
          /\ y.display = x.display /\ y.completion = x.completion
          /\ r.fx = {} => y.discoveryPending = x.discoveryPending
      BY <1>1, SonosEventKeeps, SonosEventLeavesJobs
    <3>2. e = y
      BY <2>2
    <3> HIDE DEF y, e, r
    <3> QED
      BY <1>2, <3>1, <3>2 DEF SonosStays
  <2> QED
    BY <2>1, <2>2
<1> HIDE DEF e, r
<1>4. /\ lost \in CoordinatorType
      /\ SameJobs(e, lost) /\ lost.sonos = e.sonos /\ lost.discoveryPending = e.discoveryPending
      /\ lost.completion = e.completion /\ lost.display.pending = e.display.pending
  BY <1>3, SonosFactsLeaveJobs, ApplySonosFactsDelivers DEF Delivery, Consistent
<1>5. d = DisplayUncertain(lost)
  BY DEF LoseSession, FailSession, e, r, lost
<1> HIDE DEF lost
<1>6. PICK recovery \in BOOLEAN : recovery = (lost.display.recovery \/ pending)
  BY Zenon
<1>7. PICK status \in Statuses \ {"pending"} :
          status = IF pending THEN "uncertain" ELSE lost.display.status
  BY <1>4 DEF CoordinatorType, DisplayType, Statuses
<1>8. d = [lost EXCEPT !.display.stale = TRUE, !.display.status = status,
                       !.display.recovery = recovery]
  BY <1>5, <1>6, <1>7 DEF DisplayUncertain
<1> HIDE DEF d
<1>9. /\ SameJobs(lost, d) /\ d.completion = lost.completion
      /\ d.sonos = lost.sonos /\ d.discoveryPending = lost.discoveryPending
      /\ d.display.pending = lost.display.pending /\ d.display.stale = TRUE
      /\ d.display.status = status
  BY <1>4, <1>8 DEF CoordinatorType, DisplayType, SameJobs
<1> QED
  BY <1>3, <1>4, <1>7, <1>9 DEF SameJobs, d

\* What becomes of jobs and generations when the facts of x are delivered.
JobsAfterFacts(x, d) ==
    /\ SameJobs(x, d) /\ NothingNew(x, d)
    /\ d.display.pending = IF x.completion # NoCompletion /\ x.display.pending = x.completion.id
                           THEN NoId ELSE x.display.pending
    /\ Unanswered(x) =>
          /\ d.display.status # "pending"
          /\ \/ d.sonos.state = "Backoff"
             \/ /\ d.sonos = x.sonos /\ d.discoveryPending = x.discoveryPending
                /\ \/ x.workerDiscoveryId = NoId
                   \/ x.sonos.state \notin {"Discovering", "Ready"}
                   \/ x.workerDiscoveryId # x.sonos.discoveryId
    /\ ~Unanswered(x) =>
          /\ d.display.status = x.display.status
          /\ d.sonos = x.sonos /\ d.discoveryPending = x.discoveryPending
          /\ ~x.invalidated => d.display = [x.display EXCEPT !.pending = d.display.pending]
    /\ /\ x.completion = NoCompletion \/ x.completion.outcome = "Preempted"
       /\ ~x.reconcile /\ ~x.topologyChanged
       => d.reconciliationPending = x.reconciliationPending

\* Delivering the facts ends the pending values and the word "pending" of a job
\* that ended, and the generation only of a job that ended without an answer.
LEMMA FactsLeaveJobs ==
    ASSUME NEW x, Consistent(x), NEW reconcileFailure \in BOOLEAN
    PROVE  JobsAfterFacts(x, ApplyFacts(x, reconcileFailure))
<1> DEFINE a == ApplySonosFacts(x)
           ended == x.completion
           outcome == ended.outcome
           pending == IF a.display.pending = ended.id THEN NoId ELSE a.display.pending
           t == [a EXCEPT !.completion = NoCompletion, !.display.pending = pending]
           d == ApplyFacts(x, reconcileFailure)
           F(y) == /\ SameJobs(x, y) /\ y.display.pending = pending /\ NothingNew(x, y)
           Alike(y) == /\ y.display.status = x.display.status
                       /\ y.sonos = x.sonos /\ y.discoveryPending = x.discoveryPending
                       /\ ~x.invalidated => y.display = [x.display EXCEPT !.pending = y.display.pending]
           Owes(y) == ~x.reconcile /\ ~x.topologyChanged
                        => y.reconciliationPending = x.reconciliationPending
<1>1. /\ Consistent(a) /\ SameJobs(x, a) /\ a.sonos = x.sonos
      /\ a.discoveryPending = x.discoveryPending /\ a.completion = x.completion
      /\ a.display.pending = x.display.pending /\ a.display.status = x.display.status
      /\ NothingNew(x, a) /\ (~x.invalidated => a.display = x.display)
      /\ Owes(a)
  BY SonosFactsLeaveJobs, ApplySonosFactsDelivers DEF Delivery
<1>2. ended \in CompletionType /\ x.display \in DisplayType
  BY DEF Consistent, CoordinatorType
<1>3. CASE ended = NoCompletion
  <2>1. d = a
    BY <1>1, <1>3 DEF ApplyFacts, DeliverCompletion
  <2>2. ~x.invalidated => a.display = [x.display EXCEPT !.pending = a.display.pending]
    BY <1>1, <1>2 DEF DisplayType
  <2>3. ~Unanswered(x)
    BY <1>3 DEF Unanswered
  <2> HIDE DEF a, d
  <2> QED
    BY <1>1, <1>3, <2>1, <2>2, <2>3 DEF JobsAfterFacts, d
<1>4. CASE ended # NoCompletion
  <2>1. t = TakeCompletion(a)
    BY <1>1 DEF TakeCompletion
  <2>2. d = EndJob(t, outcome, reconcileFailure)
    BY <1>1, <1>4, <2>1 DEF ApplyFacts, DeliverCompletion
  <2>3. pending \in Nat /\ a \in CoordinatorType /\ NoCompletion \in CompletionType
    BY <1>1 DEF Consistent, CoordinatorType, DisplayType, NoCompletion, CompletionType
  <2>4. pending = IF x.display.pending = x.completion.id THEN NoId ELSE x.display.pending
    BY <1>1
  <2> HIDE DEF a, pending, d
  <2>5. /\ t \in CoordinatorType /\ SameJobs(a, t) /\ t.sonos = a.sonos
        /\ t.wifi = a.wifi /\ t.subscription = a.subscription
        /\ t.discoveryInvalidated = a.discoveryInvalidated /\ t.invalidated = a.invalidated
        /\ t.discoveryPending = a.discoveryPending
        /\ t.display = [a.display EXCEPT !.pending = pending]
        /\ t.reconciliationPending = a.reconciliationPending
    BY <2>3 DEF CoordinatorType, DisplayType, SameJobs
  <2>6. /\ t.display.pending = pending /\ t.display.target = a.display.target
        /\ t.display.stale = a.display.stale /\ t.display.status = a.display.status
        /\ t.display.recovery = a.display.recovery
    BY <2>3, <2>5 DEF CoordinatorType, DisplayType
  <2> HIDE DEF t
  <2>7. F(t) /\ Alike(t) /\ Owes(t) /\ Consistent(t)
    <3>1. F(t) /\ Owes(t)
      BY <1>1, <2>5, <2>6 DEF SameJobs, NothingNew
    <3>2. Alike(t)
      BY <1>1, <1>2, <2>5, <2>6 DEF DisplayType
    <3>3. Consistent(t)
      BY <1>1, <2>5 DEF Consistent, SameJobs
    <3> QED
      BY <3>1, <3>2, <3>3
  <2>8. \A b \in BOOLEAN :
            LET w == [t EXCEPT !.reconciliationPending = b]
            IN  F(w) /\ Alike(w) /\ Consistent(w) /\ w.display = t.display /\ w.sonos = t.sonos
    <3> SUFFICES ASSUME NEW b \in BOOLEAN
                 PROVE  LET w == [t EXCEPT !.reconciliationPending = b]
                        IN  F(w) /\ Alike(w) /\ Consistent(w) /\ w.display = t.display
                            /\ w.sonos = t.sonos
      OBVIOUS
    <3> DEFINE w == [t EXCEPT !.reconciliationPending = b]
    <3>1. /\ w \in CoordinatorType /\ SameJobs(t, w) /\ w.sonos = t.sonos
          /\ w.wifi = t.wifi /\ w.subscription = t.subscription
          /\ w.discoveryInvalidated = t.discoveryInvalidated /\ w.invalidated = t.invalidated
          /\ w.discoveryPending = t.discoveryPending /\ w.display = t.display
      BY <2>7 DEF Consistent, CoordinatorType, SameJobs
    <3> HIDE DEF w
    <3>2. F(w)
      BY <2>7, <3>1 DEF SameJobs, NothingNew
    <3>3. Alike(w)
      BY <2>7, <3>1
    <3>4. Consistent(w)
      BY <2>7, <3>1 DEF Consistent, SameJobs
    <3> QED
      BY <3>1, <3>2, <3>3, <3>4 DEF w
  <2>9. CASE outcome = "Preempted"
    <3>1. d = t /\ ~Unanswered(x)
      BY <2>2, <2>9 DEF EndJob, Unanswered
    <3> QED
      BY <1>4, <2>4, <2>7, <2>9, <3>1 DEF JobsAfterFacts, d
  <2>10. CASE outcome \in {"Success", "Failure"}
    <3>1. PICK b \in BOOLEAN :
              b = (t.reconciliationPending \/ (outcome = "Failure" /\ reconcileFailure))
      BY Zenon
    <3>2. d = [t EXCEPT !.reconciliationPending = b] /\ ~Unanswered(x)
      BY <2>2, <2>10, <3>1 DEF EndJob, Unanswered
    <3>3. F(d) /\ Alike(d)
      BY <2>8, <3>2
    <3> QED
      BY <1>4, <2>4, <2>10, <3>2, <3>3 DEF JobsAfterFacts, d
  <2>11. CASE outcome \notin {"Success", "Failure", "Preempted"}
    <3> DEFINE w == [t EXCEPT !.reconciliationPending = TRUE]
    <3>1. d = LoseSession(w) /\ Unanswered(x)
      BY <1>4, <2>2, <2>11 DEF EndJob, Unanswered
    <3>2. F(w) /\ Alike(w) /\ Consistent(w) /\ w.sonos = t.sonos
      BY <2>8
    <3> HIDE DEF w
    <3>3. /\ SameJobs(w, d) /\ d.display.pending = w.display.pending
          /\ d.display.stale /\ d.display.status # "pending"
          /\ \/ d.sonos.state = "Backoff"
             \/ /\ d.sonos = w.sonos /\ d.discoveryPending = w.discoveryPending
                /\ \/ w.workerDiscoveryId = NoId
                   \/ w.sonos.state \notin {"Discovering", "Ready"}
                   \/ w.workerDiscoveryId # w.sonos.discoveryId
      BY <3>1, <3>2, LostSessionLeavesJobs
    <3>4. F(d)
      BY <3>2, <3>3 DEF SameJobs, NothingNew
    <3>5. \/ d.sonos.state = "Backoff"
          \/ /\ d.sonos = x.sonos /\ d.discoveryPending = x.discoveryPending
             /\ \/ x.workerDiscoveryId = NoId
                \/ x.sonos.state \notin {"Discovering", "Ready"}
                \/ x.workerDiscoveryId # x.sonos.discoveryId
      BY <3>2, <3>3 DEF SameJobs
    <3> QED
      BY <1>4, <2>4, <2>11, <3>1, <3>3, <3>4, <3>5 DEF JobsAfterFacts, d
  <2> QED
    BY <2>9, <2>10, <2>11
<1> QED
  BY <1>3, <1>4

------------------------------------------------------------------------------
(* Events, while their facts are in flight *)

\* JobOK with a completion to deliver: the job that ended still owns its
\* pending values, and one that ended without an answer its generation.
InFlight(x) ==
    /\ x.display.pending # NoId =>
          \/ /\ x.worker.running /\ x.worker.jobId = x.display.pending
             /\ x.worker.origin = "user" /\ ~x.jobRefresh
          \/ x.completion # NoCompletion /\ x.completion.id = x.display.pending
    /\ x.sonos.state = "Discovering" /\ x.sonos.left > 0 =>
          \/ x.discoveryPending
          \/ /\ x.worker.running \/ Unanswered(x)
             /\ ~x.discoveryResultReceived /\ x.workerDiscoveryId = x.sonos.discoveryId
    /\ ReadyByOwnRead(x)

\* What a method may do to jobs that neither starts, preempts nor answers one.
Follows(x, d) ==
    /\ d.worker = x.worker \/ ~d.worker.running
    /\ d.preemptedJobs = x.preemptedJobs
    /\ d.workerDiscoveryId = x.workerDiscoveryId
    /\ d.discoveryResultReceived = x.discoveryResultReceived /\ d.jobRefresh = x.jobRefresh
    /\ d.display.status = "pending" => x.display.status = "pending" /\ d.worker = x.worker

\* What a method may do once the device is stopping.
Subdued(x, d) ==
    /\ d.wifi.ready => x.wifi.ready
    /\ d.sonos.state = "Ready" => x.sonos.state = "Ready"
    /\ NothingNew(x, d)

\* Two calls in a row follow if each does.
LEMMA FollowsTransitive ==
    ASSUME NEW x, NEW y, NEW d, Follows(x, y), Follows(y, d)
    PROVE  Follows(x, d)
BY DEF Follows

\* Two subdued calls in a row are subdued.
LEMMA SubduedTransitive ==
    ASSUME NEW x, NEW y, NEW d, Subdued(x, y), Subdued(y, d)
    PROVE  Subdued(x, d)
BY DEF Subdued, NothingNew

\* A coordinator between two calls is one without a completion in flight.
LEMMA JobsInFlight ==
    ASSUME NEW x, JobOK(x)
    PROVE  InFlight(x)
BY DEF JobOK, InFlight, PendingOwned, GenerationHeld

\* The delivery of the facts settles what is in flight.
LEMMA FactsKeepJobs ==
    ASSUME NEW x, Consistent(x), InFlight(x), NEW reconcileFailure \in BOOLEAN
    PROVE  LET d == ApplyFacts(x, reconcileFailure)
           IN  /\ JobOK(d) /\ Subdued(x, d) /\ d.worker = x.worker
               /\ ~Unanswered(x) => Follows(x, d) /\ d.sonos = x.sonos
               /\ Unanswered(x) => d.display.status # "pending"
<1> DEFINE d == ApplyFacts(x, reconcileFailure)
<1>1. JobsAfterFacts(x, d)
  BY FactsLeaveJobs
<1> HIDE DEF d
<1>2. /\ d.worker = x.worker /\ d.wifi = x.wifi /\ d.preemptedJobs = x.preemptedJobs
      /\ d.workerDiscoveryId = x.workerDiscoveryId
      /\ d.discoveryResultReceived = x.discoveryResultReceived /\ d.jobRefresh = x.jobRefresh
  BY <1>1 DEF JobsAfterFacts, SameJobs
<1>3. \/ d.sonos = x.sonos /\ d.discoveryPending = x.discoveryPending
      \/ d.sonos.state = "Backoff"
  BY <1>1 DEF JobsAfterFacts
<1>4. PendingOwned(d)
  <2>1. d.display.pending = IF x.completion # NoCompletion /\ x.display.pending = x.completion.id
                            THEN NoId ELSE x.display.pending
    BY <1>1 DEF JobsAfterFacts
  <2> QED
    BY <1>2, <2>1 DEF InFlight, PendingOwned
<1>5. GenerationHeld(d)
  <2> SUFFICES ASSUME d.sonos.state = "Discovering", d.sonos.left > 0, ~d.discoveryPending
               PROVE  /\ d.worker.running /\ ~d.discoveryResultReceived
                      /\ d.workerDiscoveryId = d.sonos.discoveryId
    BY DEF GenerationHeld
  <2>1. d.sonos = x.sonos /\ d.discoveryPending = x.discoveryPending
    BY <1>3
  <2>2. /\ x.worker.running \/ Unanswered(x)
        /\ ~x.discoveryResultReceived /\ x.workerDiscoveryId = x.sonos.discoveryId
    BY <2>1 DEF InFlight
  <2>3. x.sonos.discoveryId # NoId
    BY <2>1 DEF Consistent, SonosOK, SonosInvariant
  <2>4. ~Unanswered(x)
    BY <1>1, <2>1, <2>2, <2>3 DEF JobsAfterFacts
  <2> QED
    BY <1>2, <2>1, <2>2, <2>4
<1>6. ReadyByOwnRead(d)
  BY <1>2, <1>3 DEF InFlight, ReadyByOwnRead
<1>7. Subdued(x, d)
  BY <1>1, <1>2, <1>3 DEF JobsAfterFacts, Subdued
<1>8. ~Unanswered(x) => Follows(x, d) /\ d.sonos = x.sonos
  BY <1>1, <1>2 DEF JobsAfterFacts, Follows
<1>9. Unanswered(x) => d.display.status # "pending"
  BY <1>1 DEF JobsAfterFacts
<1> QED
  BY <1>2, <1>4, <1>5, <1>6, <1>7, <1>8, <1>9 DEF JobOK, d

\* The end of the running job, by an outcome other than a preemption, is in
\* flight; an answered job must have left no generation to itself.
LEMMA WorkerEventInFlight ==
    ASSUME NEW x, Consistent(x), x.completion = NoCompletion, InFlight(x),
           NEW outcome \in Outcomes, NEW r,
           r = WorkerStays(x.worker) \/ (x.worker.running /\ r = FinishWorker(x.worker, outcome)),
           outcome \in {"Success", "Failure", "Preempted"} =>
              (r # WorkerStays(x.worker) /\ x.sonos.state = "Discovering" /\ x.sonos.left > 0
                  => x.discoveryPending)
    PROVE  LET e == WorkerEvent(x, r)
           IN  /\ InFlight(e) /\ Subdued(x, e) /\ e.worker = r.worker
               /\ e.completion = r.ended /\ e.sonos = x.sonos /\ e.display = x.display
               /\ e.discoveryPending = x.discoveryPending
               /\ e.preemptedJobs = x.preemptedJobs
               /\ e.workerDiscoveryId = x.workerDiscoveryId
               /\ e.discoveryResultReceived = x.discoveryResultReceived
               /\ e.jobRefresh = x.jobRefresh
<1> DEFINE e == WorkerEvent(x, r)
<1>1. /\ e.worker = r.worker /\ e.wifi = x.wifi /\ e.sonos = x.sonos /\ e.display = x.display
      /\ e.completion = r.ended /\ e.discoveryPending = x.discoveryPending
      /\ e.preemptedJobs = x.preemptedJobs /\ e.workerDiscoveryId = x.workerDiscoveryId
      /\ e.discoveryResultReceived = x.discoveryResultReceived /\ e.jobRefresh = x.jobRefresh
  BY DEF WorkerEvent, Consistent, CoordinatorType
<1> HIDE DEF e
<1>2. x.worker.jobId \in Nat
  BY DEF Consistent, WorkerOK, WorkerType
<1>3. CASE r = WorkerStays(x.worker)
  BY <1>1, <1>3 DEF WorkerStays, InFlight, ReadyByOwnRead, Unanswered, Subdued, NothingNew, e
<1>4. CASE r # WorkerStays(x.worker)
  <2>1. /\ x.worker.running /\ e.completion = [id |-> x.worker.jobId, outcome |-> outcome]
        /\ ~e.worker.running
    BY <1>1, <1>4 DEF FinishWorker, IdleWorker
  <2>2. /\ e.completion # NoCompletion /\ e.completion.id = x.worker.jobId
        /\ e.completion.outcome = outcome
    BY <2>1 DEF NoCompletion, Outcomes
  <2>3. e.display.pending # NoId => e.completion.id = e.display.pending
    BY <1>1, <2>1, <2>2 DEF InFlight
  <2>4. ReadyByOwnRead(e)
    BY <1>1 DEF InFlight, ReadyByOwnRead
  <2>5. CASE outcome \in {"Success", "Failure", "Preempted"}
    BY <1>1, <1>4, <2>2, <2>3, <2>4, <2>5 DEF InFlight, Subdued, NothingNew, e
  <2>6. CASE outcome \notin {"Success", "Failure", "Preempted"}
    <3>1. Unanswered(e)
      BY <2>2, <2>6 DEF Unanswered
    <3> QED
      BY <1>1, <2>2, <2>3, <2>4, <3>1 DEF InFlight, Subdued, NothingNew, e
  <2> QED
    BY <2>5, <2>6
<1> QED
  BY <1>3, <1>4

\* What an event other than a good answer may do to the generation.
GenerationMoves(s, r) ==
    \/ /\ r.fx = {} /\ r.sonos.state = s.state /\ r.sonos.left = s.left
       /\ r.sonos.discoveryId = s.discoveryId
    \/ r.fx = {"discoveryRequested"} /\ r.sonos.state = "Discovering"
    \/ r.sonos.state \in {"Offline", "Backoff"}

\* Each event of the Sonos machine stays, opens a generation that is offered,
\* or ends the one there was; only a good answer makes one Ready.
LEMMA GenerationEvents ==
    ASSUME NEW s \in SonosType, NEW id
    PROVE  /\ GenerationMoves(s, SonosStop(s))
           /\ GenerationMoves(s, SonosNetworkAvailable(s, id))
           /\ GenerationMoves(s, SonosRefreshRequested(s, id))
           /\ GenerationMoves(s, SonosDiscoveryFailed(s, id))
           /\ GenerationMoves(s, SonosSessionFailure(s, id))
           /\ GenerationMoves(s, SonosSessionSucceeded(s, id))
           /\ GenerationMoves(s, SonosTick(s, id))
           /\ \/ GenerationMoves(s, SonosDiscoverySucceeded(s, id))
              \/ SonosDiscoverySucceeded(s, id) = BecomeReady(s)
<1>1. /\ GenerationMoves(s, SonosStays(s))
      /\ \A b \in BOOLEAN : GenerationMoves(s, BeginDiscovery(s, id, b))
      /\ \A b \in BOOLEAN : GenerationMoves(s, SonosBackoff(s, b))
      /\ GenerationMoves(s, [sonos |-> OfflineSonos, fx |-> {"invalidateDiscovery"}])
      /\ GenerationMoves(s, [sonos |-> [s EXCEPT !.failures = 0], fx |-> {}])
  BY DEF GenerationMoves, SonosStays, BeginDiscovery, SonosBackoff, OfflineSonos, SonosType
<1> QED
  BY <1>1 DEF SonosStop, SonosNetworkAvailable, SonosRefreshRequested, SonosDiscoveryFailed,
         SonosSessionFailure, SonosSessionSucceeded, SonosTick, SonosDiscoverySucceeded

\* After an event of the Sonos machine a live generation is still somebody's.
LEMMA SonosEventInFlight ==
    ASSUME NEW x, Consistent(x), InFlight(x), NEW r, SonosResultOK(r),
           \/ GenerationMoves(x.sonos, r)
           \/ r = BecomeReady(x.sonos) /\ x.discoveryResultReceived
    PROVE  LET e == SonosEvent(x, r)
           IN  /\ InFlight(e) /\ SameJobs(x, e) /\ e.sonos = r.sonos /\ e.display = x.display
               /\ e.completion = x.completion
<1> DEFINE e == SonosEvent(x, r)
           revoked == "invalidateDiscovery" \in r.fx \/ "invalidateSession" \in r.fx
<1>1. /\ SameJobs(x, e) /\ e.sonos = r.sonos /\ e.display = x.display
      /\ e.completion = x.completion
      /\ ~revoked => ("discoveryRequested" \in r.fx => e.discoveryPending)
      /\ r.fx = {} => e.discoveryPending = x.discoveryPending
  BY SonosEventLeavesJobs
<1> HIDE DEF e
<1>2. Unanswered(e) = Unanswered(x)
  BY <1>1, Zenon DEF Unanswered
<1>3. CASE r = BecomeReady(x.sonos) /\ x.discoveryResultReceived
  <2>1. r.sonos.state = "Ready"
    BY <1>3 DEF BecomeReady, Consistent, SonosOK, SonosType
  <2> QED
    BY <1>1, <1>3, <2>1 DEF InFlight, SameJobs, ReadyByOwnRead, e
<1>4. CASE GenerationMoves(x.sonos, r)
  <2>1. CASE /\ r.fx = {} /\ r.sonos.state = x.sonos.state /\ r.sonos.left = x.sonos.left
             /\ r.sonos.discoveryId = x.sonos.discoveryId
    BY <1>1, <1>2, <2>1 DEF InFlight, SameJobs, ReadyByOwnRead, e
  <2>2. CASE r.fx = {"discoveryRequested"} /\ r.sonos.state = "Discovering"
    BY <1>1, <2>2 DEF InFlight, SameJobs, ReadyByOwnRead, e
  <2>3. CASE r.sonos.state \in {"Offline", "Backoff"}
    BY <1>1, <2>3 DEF InFlight, SameJobs, ReadyByOwnRead, e
  <2> QED
    BY <1>4, <2>1, <2>2, <2>3 DEF GenerationMoves
<1> QED
  BY <1>3, <1>4

\* An event of the subscription machine concerns no job and no generation.
LEMMA SubscriptionEventInFlight ==
    ASSUME NEW x, Consistent(x), InFlight(x), NEW r, SubResultOK(r)
    PROVE  LET e == SubscriptionEvent(x, r)
           IN  /\ InFlight(e) /\ SameJobs(x, e) /\ e.sonos = x.sonos /\ e.display = x.display
               /\ e.completion = x.completion
               /\ e.invalidated = x.invalidated /\ e.reconcile = x.reconcile
               /\ e.reconciliationPending = x.reconciliationPending
               /\ ~x.topologyChanged /\ r.changed = FALSE => ~e.topologyChanged
<1> DEFINE changed == x.topologyChanged \/ r.changed
           sent == IF r.request = NoId THEN x.request ELSE r.request
           e == SubscriptionEvent(x, r)
<1>1. e = [x EXCEPT !.subscription = r.sub, !.request = sent, !.topologyChanged = changed]
  BY DEF SubscriptionEvent
<1>2. ~x.topologyChanged /\ r.changed = FALSE => ~changed
  OBVIOUS
<1> HIDE DEF e, changed, sent
<1>3. /\ SameJobs(x, e) /\ e.sonos = x.sonos /\ e.display = x.display
      /\ e.completion = x.completion /\ e.discoveryPending = x.discoveryPending
      /\ e.invalidated = x.invalidated /\ e.reconcile = x.reconcile
      /\ e.reconciliationPending = x.reconciliationPending
      /\ e.topologyChanged = changed
  BY <1>1 DEF Consistent, CoordinatorType, SameJobs
<1>4. InFlight(e)
  BY <1>3 DEF InFlight, SameJobs, ReadyByOwnRead, Unanswered
<1> QED
  BY <1>2, <1>3, <1>4 DEF e

------------------------------------------------------------------------------
(* Events with the delivery of their facts *)

\* What most methods promise about jobs.
Steady(x, d) == JobOK(d) /\ Follows(x, d) /\ Subdued(x, d)

\* Two steady calls in a row are steady.
LEMMA SteadyTransitive ==
    ASSUME NEW x, NEW y, NEW d, Steady(x, y), Steady(y, d)
    PROVE  Steady(x, d)
BY FollowsTransitive, SubduedTransitive DEF Steady

\* Delivery between calls has nothing to deliver.
LEMMA NothingUnanswered ==
    ASSUME NEW x, CoordinatorOK(x)
    PROVE  Consistent(x) /\ x.completion = NoCompletion /\ ~Unanswered(x)
BY DEF CoordinatorOK, Open, Delivered, Unanswered

\* A job that ends without an answer leaves no pending values, no word
\* "pending" and no generation behind.
LEMMA WorkerEndsSteady ==
    ASSUME NEW x, Consistent(x), x.completion = NoCompletion, InFlight(x),
           NEW outcome \in Outcomes \ {"Success", "Failure", "Preempted"}, NEW r,
           WorkerResultOK(r),
           r = WorkerStays(x.worker) \/ (x.worker.running /\ r = FinishWorker(x.worker, outcome))
    PROVE  LET d == ApplyFacts(WorkerEvent(x, r), TRUE)
           IN  Steady(x, d) /\ d.worker = r.worker
<1> DEFINE e == WorkerEvent(x, r)
           d == ApplyFacts(e, TRUE)
<1>1. /\ InFlight(e) /\ Subdued(x, e) /\ e.worker = r.worker
      /\ e.completion = r.ended /\ e.sonos = x.sonos /\ e.display = x.display
      /\ e.preemptedJobs = x.preemptedJobs /\ e.workerDiscoveryId = x.workerDiscoveryId
      /\ e.discoveryResultReceived = x.discoveryResultReceived /\ e.jobRefresh = x.jobRefresh
  BY WorkerEventInFlight
<1>2. Consistent(e)
  BY WorkerEventKeeps
<1> HIDE DEF e
<1>3. /\ JobOK(d) /\ Subdued(e, d) /\ d.worker = e.worker
      /\ ~Unanswered(e) => Follows(e, d)
      /\ Unanswered(e) => d.display.status # "pending"
  BY <1>1, <1>2, FactsKeepJobs
<1>3a. SameJobs(e, d)
  BY <1>2, FactsLeaveJobs DEF JobsAfterFacts
<1> HIDE DEF d
<1>4. Follows(x, d)
  <2>1. CASE r = WorkerStays(x.worker)
    <3>1. ~Unanswered(e) /\ e.worker = x.worker
      BY <1>1, <2>1 DEF WorkerStays, Unanswered
    <3> QED
      BY <1>1, <1>3, <3>1 DEF Follows
  <2>2. CASE r = FinishWorker(x.worker, outcome)
    <3>1. Unanswered(e) /\ ~e.worker.running
      BY <1>1, <2>2 DEF FinishWorker, IdleWorker, Unanswered, NoCompletion, Outcomes
    <3> QED
      BY <1>1, <1>3, <1>3a, <3>1 DEF Follows, SameJobs
  <2> QED
    BY <2>1, <2>2
<1> QED
  BY <1>1, <1>3, <1>4, SubduedTransitive DEF Steady, d, e

\* An event of the Sonos machine other than a good answer is steady.
LEMMA SonosMovesSteady ==
    ASSUME NEW x, Consistent(x), x.completion = NoCompletion, InFlight(x),
           NEW r, SonosResultOK(r), GenerationMoves(x.sonos, r)
    PROVE  LET d == ApplyFacts(SonosEvent(x, r), TRUE)
           IN  Steady(x, d) /\ d.worker = x.worker /\ d.sonos = r.sonos
<1> DEFINE e == SonosEvent(x, r)
           d == ApplyFacts(e, TRUE)
<1>1. /\ InFlight(e) /\ SameJobs(x, e) /\ e.sonos = r.sonos /\ e.display = x.display
      /\ e.completion = x.completion
  BY SonosEventInFlight
<1>2. Consistent(e)
  BY SonosEventKeeps
<1> HIDE DEF e
<1>3. ~Unanswered(e)
  BY <1>1 DEF Unanswered
<1>4. JobOK(d) /\ Subdued(e, d) /\ d.worker = e.worker /\ Follows(e, d) /\ d.sonos = e.sonos
  BY <1>1, <1>2, <1>3, FactsKeepJobs
<1> HIDE DEF d
<1>5. Follows(x, e)
  BY <1>1 DEF Follows, SameJobs
<1>6. Subdued(x, e)
  BY <1>1 DEF Subdued, SameJobs, NothingNew, GenerationMoves
<1> QED
  BY <1>1, <1>4, <1>5, <1>6, FollowsTransitive, SubduedTransitive DEF Steady, SameJobs, e, d

\* An event of the subscription machine is steady.
LEMMA SubscriptionSteady ==
    ASSUME NEW x, Consistent(x), x.completion = NoCompletion, InFlight(x), NEW r, SubResultOK(r)
    PROVE  LET d == ApplyFacts(SubscriptionEvent(x, r), TRUE)
           IN  Steady(x, d) /\ d.worker = x.worker /\ d.sonos = x.sonos
<1> DEFINE e == SubscriptionEvent(x, r)
           d == ApplyFacts(e, TRUE)
<1>1. /\ InFlight(e) /\ SameJobs(x, e) /\ e.sonos = x.sonos /\ e.display = x.display
      /\ e.completion = x.completion
  BY SubscriptionEventInFlight
<1>2. Consistent(e)
  BY SubscriptionEventKeeps
<1> HIDE DEF e
<1>3. ~Unanswered(e)
  BY <1>1 DEF Unanswered
<1>4. JobOK(d) /\ Subdued(e, d) /\ d.worker = e.worker /\ Follows(e, d) /\ d.sonos = e.sonos
  BY <1>1, <1>2, <1>3, FactsKeepJobs
<1> HIDE DEF d
<1>5. Follows(x, e) /\ Subdued(x, e)
  BY <1>1 DEF Follows, SameJobs, Subdued, NothingNew
<1> QED
  BY <1>1, <1>4, <1>5, FollowsTransitive, SubduedTransitive DEF Steady, SameJobs, e, d

------------------------------------------------------------------------------
(* The methods of the main loop *)

\* A deadline that passed ends its job; a job in time is left alone.
LEMMA ExpireWorkerSteady ==
    ASSUME NEW x, CoordinatorOK(x), JobOK(x)
    PROVE  /\ Steady(x, ExpireWorker(x)) /\ CoordinatorOK(ExpireWorker(x))
           /\ ExpireWorker(x).worker.running => x.worker.left > 0
<1> DEFINE r == WorkerDeadlineExpired(x.worker)
<1>1. Consistent(x) /\ x.completion = NoCompletion /\ InFlight(x)
  BY NothingUnanswered, JobsInFlight
<1>2. WorkerResultOK(r)
  <2>1. FreshOK([gen |-> 1, request |-> 1]) /\ 1 \in Nat /\ Open(x)
    BY DEF FreshOK, CoordinatorOK
  <2> QED
    BY <2>1, MachineResults
<1>3. r = WorkerStays(x.worker) \/ (x.worker.running /\ r = FinishWorker(x.worker, "Timeout"))
  BY DEF WorkerDeadlineExpired
<1>4. "Timeout" \in Outcomes \ {"Success", "Failure", "Preempted"}
  BY DEF Outcomes
<1>5. Steady(x, ExpireWorker(x))
  <2> HIDE DEF r
  <2>1. Steady(x, ApplyFacts(WorkerEvent(x, r), TRUE))
    BY <1>1, <1>2, <1>3, <1>4, WorkerEndsSteady
  <2> QED
    BY <2>1 DEF ExpireWorker, r
<1>6. ExpireWorker(x).worker = r.worker /\ CoordinatorOK(ExpireWorker(x))
  BY ExpireWorkerSound DEF Sound
<1>7. r.worker.running => x.worker.left > 0
  <2>1. x.worker.left \in Nat
    BY <1>1 DEF Consistent, WorkerOK, WorkerType
  <2> QED
    BY <2>1 DEF WorkerDeadlineExpired, WorkerStays, FinishWorker, IdleWorker
<1> QED
  BY <1>5, <1>6, <1>7

\* A tick of the Sonos machine is steady.
LEMMA TickSonosSteady ==
    ASSUME NEW x, CoordinatorOK(x), JobOK(x), NEW f, FreshOK(f)
    PROVE  LET d == TickSonos(x, f.gen)
           IN  /\ Steady(x, d) /\ CoordinatorOK(d) /\ d.worker = x.worker
               /\ d.sonos = SonosTick(x.sonos, f.gen).sonos
<1> DEFINE r == SonosTick(x.sonos, f.gen)
<1>1. Consistent(x) /\ x.completion = NoCompletion /\ InFlight(x)
  BY NothingUnanswered, JobsInFlight
<1>2. SonosResultOK(r) /\ r.sonos.network = x.sonos.network /\ Open(x)
  <2>1. 1 \in Nat /\ Open(x)
    BY DEF CoordinatorOK
  <2> QED
    BY <2>1, MachineResults
<1>3. GenerationMoves(x.sonos, r)
  BY <1>1, GenerationEvents DEF Consistent, SonosOK
<1> HIDE DEF r
<1>4. LET d == ApplyFacts(SonosEvent(x, r), TRUE)
      IN  Steady(x, d) /\ d.worker = x.worker /\ d.sonos = r.sonos
  BY <1>1, <1>2, <1>3, SonosMovesSteady
<1>5. CoordinatorOK(ApplyFacts(SonosEvent(x, r), TRUE))
  BY <1>2, SonosEventApplied DEF Sound
<1> QED
  BY <1>4, <1>5 DEF TickSonos, r

\* A tick of the subscription machine is steady.
LEMMA TickSubscriptionSteady ==
    ASSUME NEW x, CoordinatorOK(x), JobOK(x), NEW f, FreshOK(f)
    PROVE  LET d == TickSubscription(x, f.request)
           IN  /\ Steady(x, d) /\ CoordinatorOK(d) /\ d.worker = x.worker /\ d.sonos = x.sonos
<1> DEFINE r == SubTick(x.subscription, f.request)
<1>1. Consistent(x) /\ x.completion = NoCompletion /\ InFlight(x)
  BY NothingUnanswered, JobsInFlight
<1>2. SubResultOK(r) /\ (r.sub.network => x.sonos.network) /\ Open(x)
  <2>1. 1 \in Nat /\ Open(x)
    BY DEF CoordinatorOK
  <2> QED
    BY <2>1, MachineResults
<1> HIDE DEF r
<1>3. LET d == ApplyFacts(SubscriptionEvent(x, r), TRUE)
      IN  Steady(x, d) /\ d.worker = x.worker /\ d.sonos = x.sonos
  BY <1>1, <1>2, SubscriptionSteady
<1>4. CoordinatorOK(ApplyFacts(SubscriptionEvent(x, r), TRUE))
  BY <1>2, SubscriptionEventApplied DEF Sound
<1> QED
  BY <1>3, <1>4 DEF TickSubscription, r

\* The service call is steady, and leaves a job that is in time alone.
LEMMA ServiceSteady ==
    ASSUME NEW x, CoordinatorOK(x), JobOK(x), NEW f, FreshOK(f)
    PROVE  /\ Steady(x, Service(x, f)) /\ CoordinatorOK(Service(x, f))
           /\ Service(x, f).worker = ExpireWorker(x).worker
           /\ Service(x, f).sonos = SonosTick(ExpireWorker(x).sonos, f.gen).sonos
<1> DEFINE e == ExpireWorker(x)
           s == TickSonos(e, f.gen)
           d == TickSubscription(s, f.request)
<1>1. Steady(x, e) /\ CoordinatorOK(e)
  BY ExpireWorkerSteady
<1> HIDE DEF e
<1>2. /\ Steady(e, s) /\ CoordinatorOK(s) /\ s.worker = e.worker
      /\ s.sonos = SonosTick(e.sonos, f.gen).sonos
  BY <1>1, TickSonosSteady DEF Steady
<1> HIDE DEF s
<1>3. Steady(s, d) /\ CoordinatorOK(d) /\ d.worker = s.worker /\ d.sonos = s.sonos
  BY <1>2, TickSubscriptionSteady DEF Steady
<1>4. Service(x, f) = d
  BY DEF Service, e, s
<1> HIDE DEF d
<1> QED
  BY <1>1, <1>2, <1>3, <1>4, SteadyTransitive DEF e

\* What the calls that follow the network promise about jobs.
Held(x, d) == JobOK(d) /\ Follows(x, d)

\* Writing fields that say nothing of jobs.
LEMMA EditedHeld ==
    ASSUME NEW x, NEW d, SameJobs(x, d), d.sonos = x.sonos,
           d.discoveryPending = x.discoveryPending,
           d.display.pending \in {x.display.pending, NoId},
           d.display.status \in {x.display.status, "idle", "uncertain"}
    PROVE  /\ JobOK(x) => Held(x, d)
           /\ InFlight(x) /\ d.completion = x.completion => InFlight(d)
           /\ Follows(x, d)
<1>1. d.completion = x.completion => Unanswered(d) = Unanswered(x)
  BY Zenon DEF Unanswered
<1> QED
  BY <1>1 DEF SameJobs, JobOK, Held, Follows, PendingOwned, GenerationHeld, ReadyByOwnRead, InFlight

\* Events of the Wi-Fi machine concern no job; its availability is delivered later.
LEMMA WifiEventHeld ==
    ASSUME NEW x, Consistent(x), JobOK(x), NEW r, WifiResultOK(r)
    PROVE  Held(x, WifiEvent(x, r)) /\ WifiEvent(x, r).sonos = x.sonos
           /\ WifiEvent(x, r).display = x.display
<1> DEFINE d == WifiEvent(x, r)
<1>1. /\ d.worker = x.worker /\ d.preemptedJobs = x.preemptedJobs
      /\ d.workerDiscoveryId = x.workerDiscoveryId
      /\ d.discoveryResultReceived = x.discoveryResultReceived /\ d.jobRefresh = x.jobRefresh
      /\ d.sonos = x.sonos /\ d.discoveryPending = x.discoveryPending /\ d.display = x.display
  BY DEF WifiEvent, Consistent, CoordinatorType
<1> HIDE DEF d
<1> QED
  BY <1>1 DEF JobOK, Held, Follows, PendingOwned, GenerationHeld, ReadyByOwnRead, d

\* The loss of the network ends the running job and with it all it owned; a new
\* network opens a generation for the next job.
LEMMA ApplyAvailabilityHeld ==
    ASSUME NEW x, Reported(x), JobOK(x), NEW f, FreshOK(f)
    PROVE  Held(x, ApplyAvailability(x, f))
<1> DEFINE t == [x EXCEPT !.availability = "none"]
<1>1. /\ Consistent(t) /\ Held(x, t) /\ InFlight(t) /\ t.completion = NoCompletion
      /\ t.sonos = x.sonos
  <2>1. /\ t \in CoordinatorType /\ SameJobs(x, t) /\ t.sonos = x.sonos
        /\ t.discoveryPending = x.discoveryPending /\ t.display = x.display
        /\ t.completion = x.completion /\ t.wifi = x.wifi /\ t.subscription = x.subscription
        /\ t.discoveryInvalidated = x.discoveryInvalidated /\ t.invalidated = x.invalidated
    BY DEF Reported, Consistent, CoordinatorType, SameJobs
  <2> HIDE DEF t
  <2>2. Consistent(t) /\ t.completion = NoCompletion
    BY <2>1 DEF Reported, Consistent, Delivered, SameJobs
  <2>3. Held(x, t)
    BY <2>1, EditedHeld
  <2> QED
    BY <2>1, <2>2, <2>3, JobsInFlight DEF Held
<1>1a. ApplyAvailability(x, f) = DeliverAvailability(t, x.availability, f)
  BY DEF ApplyAvailability
<1> HIDE DEF t
<1>2. SonosOK(t.sonos) /\ t.sonos \in SonosType /\ f.gen \in Nat \ {NoId} /\ 1 \in Nat
  BY <1>1 DEF Consistent, SonosOK, FreshOK
<1>3. CASE x.availability = "up"
  <2> DEFINE r == SonosNetworkAvailable(t.sonos, f.gen)
             y == SonosEvent(t, r)
             z == [y EXCEPT !.reconciliationPending = TRUE]
             d == ApplyFacts(z, TRUE)
  <2>1. SonosResultOK(r) /\ GenerationMoves(t.sonos, r)
    BY <1>2, SonosHandlers, GenerationEvents
  <2> HIDE DEF r
  <2>2. /\ Consistent(y) /\ InFlight(y) /\ SameJobs(t, y) /\ y.display = t.display
        /\ y.completion = t.completion
    BY <1>1, <2>1, SonosEventKeeps, SonosEventInFlight
  <2> HIDE DEF y
  <2>3. /\ z \in CoordinatorType /\ SameJobs(y, z) /\ z.sonos = y.sonos
        /\ z.discoveryPending = y.discoveryPending /\ z.display = y.display
        /\ z.completion = y.completion /\ z.wifi = y.wifi /\ z.subscription = y.subscription
        /\ z.discoveryInvalidated = y.discoveryInvalidated /\ z.invalidated = y.invalidated
    BY <2>2 DEF Consistent, CoordinatorType, SameJobs
  <2> HIDE DEF z
  <2>4. Consistent(z) /\ InFlight(z) /\ ~Unanswered(z)
    <3>1. Consistent(z)
      BY <2>2, <2>3 DEF Consistent, SameJobs
    <3>2. InFlight(z)
      BY <2>2, <2>3, EditedHeld
    <3>3. ~Unanswered(z)
      BY <1>1, <2>2, <2>3 DEF Unanswered
    <3> QED
      BY <3>1, <3>2, <3>3
  <2>5. JobOK(d) /\ Follows(z, d)
    BY <2>4, FactsKeepJobs
  <2> HIDE DEF d
  <2>6. Follows(t, z)
    BY <2>2, <2>3 DEF Follows, SameJobs
  <2>7. ApplyAvailability(x, f) = d
    BY <1>1a, <1>3 DEF DeliverAvailability, d, z, y, r
  <2> QED
    BY <1>1, <2>5, <2>6, <2>7, FollowsTransitive DEF Held
<1>4. CASE x.availability = "down"
  <2> DEFINE r == SonosStop(t.sonos)
             y == SonosEvent(t, r)
             w == WorkerNetworkUnavailable(y.worker)
             z == ApplyFacts(WorkerEvent(y, w), TRUE)
             d == [z EXCEPT !.display.stale = TRUE]
  <2>1. SonosResultOK(r) /\ GenerationMoves(t.sonos, r)
    BY <1>2, SonosHandlers, GenerationEvents
  <2> HIDE DEF r
  <2>2. /\ Consistent(y) /\ InFlight(y) /\ SameJobs(t, y) /\ y.display = t.display
        /\ y.completion = NoCompletion
    BY <1>1, <2>1, SonosEventKeeps, SonosEventInFlight
  <2>2a. y = StopSonos(t)
    BY DEF StopSonos, r
  <2> HIDE DEF y
  <2>3. WorkerResultOK(w)
    <3>1. WorkerOK(y.worker) /\ 1 \in Nat /\ "user" \in Origins /\ "Success" \in Outcomes
      BY <2>2 DEF Consistent, Origins, Outcomes
    <3> QED
      BY <3>1, WorkerHandlers, Zenon
  <2>4. w = WorkerStays(y.worker) \/ (y.worker.running /\ w = FinishWorker(y.worker, "NetworkLost"))
    BY DEF WorkerNetworkUnavailable
  <2>5. "NetworkLost" \in Outcomes \ {"Success", "Failure", "Preempted"}
    BY DEF Outcomes
  <2>5a. y.worker = t.worker
    BY <2>2 DEF SameJobs
  <2>5b. WorkerEvent(y, w) = WorkerEvent(StopSonos(t), WorkerNetworkUnavailable(t.worker))
    BY <2>2a, <2>5a
  <2> HIDE DEF w
  <2>6. JobOK(z) /\ Follows(y, z)
    BY <2>2, <2>3, <2>4, <2>5, WorkerEndsSteady DEF Steady
  <2>7. z \in CoordinatorType
    <3>1. Consistent(WorkerEvent(y, w))
      BY <2>2, <2>3, WorkerEventKeeps
    <3> QED
      BY <3>1, ApplyFactsDelivers DEF Delivery, Consistent
  <2>7a. z = ApplyFacts(WorkerEvent(StopSonos(t), WorkerNetworkUnavailable(t.worker)), TRUE)
    BY <2>5b
  <2> HIDE DEF z
  <2>8. /\ SameJobs(z, d) /\ d.sonos = z.sonos /\ d.discoveryPending = z.discoveryPending
        /\ d.display.pending = z.display.pending /\ d.display.status = z.display.status
    BY <2>7 DEF CoordinatorType, DisplayType, SameJobs
  <2>9. ApplyAvailability(x, f) = d
    BY <1>1a, <1>4, <2>7a DEF DeliverAvailability
  <2> HIDE DEF d
  <2>10. Held(z, d)
    BY <2>6, <2>8, EditedHeld
  <2>11. Follows(t, y)
    BY <2>2 DEF Follows, SameJobs
  <2> QED
    BY <1>1, <2>6, <2>9, <2>10, <2>11, FollowsTransitive DEF Held
<1>5. CASE x.availability \notin {"up", "down"}
  BY <1>1, <1>1a, <1>5 DEF DeliverAvailability
<1> QED
  BY <1>3, <1>4, <1>5

\* Configuring the network holds.
LEMMA ConfigAvailableHeld ==
    ASSUME NEW x, CoordinatorOK(x), JobOK(x), NEW f, FreshOK(f)
    PROVE  Held(x, ConfigAvailable(x, f))
<1> DEFINE r == WifiConfigAvailable(x.wifi)
           d == WifiEvent(x, r)
<1>1. WifiOK(x.wifi) /\ Consistent(x)
  BY DEF CoordinatorOK, Open, Consistent
<1>2. WifiResultOK(r) /\ r.availability = "none" /\ r.wifi.ready = x.wifi.ready
  BY <1>1, WifiHandlers, WifiReports
<1>3. Reported(d) /\ Held(x, d)
  <2> HIDE DEF r
  <2> QED
    BY <1>1, <1>2, WifiEventReported, WifiEventHeld
<1> HIDE DEF d
<1>4. Held(d, ApplyAvailability(d, f))
  BY <1>3, ApplyAvailabilityHeld DEF Held
<1> QED
  BY <1>3, <1>4, FollowsTransitive DEF Held, ConfigAvailable, d

\* Following the radio holds, whatever it reports.
LEMMA ServiceWifiHeld ==
    ASSUME NEW x, CoordinatorOK(x), JobOK(x), NEW online \in BOOLEAN, NEW f, FreshOK(f)
    PROVE  Held(x, ServiceWifi(x, online, f))
<1> DEFINE t == WifiEvent(x, WifiTick(x.wifi))
           seen == ObserveRadio(t, online)
<1>1. CoordinatorOK(t) /\ Held(x, t)
  <2> DEFINE r == WifiTick(x.wifi)
  <2>1. WifiOK(x.wifi) /\ Consistent(x)
    BY DEF CoordinatorOK, Open, Consistent
  <2>2. WifiResultOK(r) /\ r.availability = "none" /\ r.wifi.ready = x.wifi.ready
    BY <2>1, WifiHandlers, WifiReports
  <2> HIDE DEF r
  <2>3. CoordinatorOK(WifiEvent(x, r)) /\ Held(x, WifiEvent(x, r))
    BY <2>1, <2>2, WifiEventReported, WifiEventHeld
  <2> QED
    BY <2>3 DEF r
<1> HIDE DEF t
<1>2. WifiOK(t.wifi) /\ Consistent(t) /\ JobOK(t)
  BY <1>1 DEF CoordinatorOK, Open, Consistent, Held
<1>3. ASSUME NEW r \in {WifiConnected(t.wifi), WifiDisconnected(t.wifi)}
      PROVE  Reported(WifiEvent(t, r)) /\ Held(t, WifiEvent(t, r))
  <2>1. WifiResultOK(r)
    BY <1>2, WifiHandlers
  <2>2. /\ r.availability = "none" => r.wifi.ready = t.wifi.ready
        /\ r.availability = "up" => r.wifi.ready = TRUE
        /\ r.availability = "down" => r.wifi.ready = FALSE
    BY <1>2, WifiLinkReports
  <2> QED
    BY <1>1, <1>2, <2>1, <2>2, WifiEventReported, WifiEventHeld
<1>4. Reported(t) /\ Held(t, t)
  BY <1>1, <1>2 DEF Reported, CoordinatorOK, Open, Peers, Held, Follows
<1>5. Reported(seen) /\ Held(t, seen)
  <2>1. seen \in {t, WifiEvent(t, WifiConnected(t.wifi)), WifiEvent(t, WifiDisconnected(t.wifi))}
    BY DEF ObserveRadio
  <2> HIDE DEF seen
  <2> QED
    BY <1>3, <1>4, <2>1
<1>6. ServiceWifi(x, online, f) = ApplyAvailability(seen, f)
  BY DEF ServiceWifi, t
<1> HIDE DEF seen
<1>7. Held(seen, ApplyAvailability(seen, f))
  BY <1>5, ApplyAvailabilityHeld DEF Held
<1> QED
  BY <1>1, <1>5, <1>6, <1>7, FollowsTransitive DEF Held

\* Shutting down ends the running job with its pending values, revives nothing,
\* and leaves no generation.
LEMMA ShutdownHeld ==
    ASSUME NEW x, CoordinatorOK(x), JobOK(x)
    PROVE  Steady(x, Shutdown(x))
<1> DEFINE r == WorkerShutdown(x.worker)
           stopped == ApplyFacts(WorkerEvent(x, r), TRUE)
           v == WifiShutdown(stopped.wifi)
           wifi == WifiEvent(stopped, v)
           offline == [wifi EXCEPT !.connect = FALSE]
           s == SonosStop(offline.sonos)
           ended == ApplyFacts(SonosEvent(offline, s), TRUE)
           q == SubStop(ended.subscription)
           left == SubscriptionEvent(ended, q)
           d == [left EXCEPT !.request = NoId, !.availability = "none"]
<1>1. Consistent(x) /\ x.completion = NoCompletion /\ InFlight(x) /\ Open(x)
  BY NothingUnanswered, JobsInFlight DEF CoordinatorOK
<1>2. Steady(x, stopped) /\ CoordinatorOK(stopped)
  <2>1. WorkerResultOK(r)
    <3>1. FreshOK([gen |-> 1, request |-> 1]) /\ 1 \in Nat
      BY DEF FreshOK
    <3> QED
      BY <1>1, <3>1, MachineResults
  <2>2. r = WorkerStays(x.worker) \/ (x.worker.running /\ r = FinishWorker(x.worker, "Shutdown"))
    BY DEF WorkerShutdown
  <2>3. "Shutdown" \in Outcomes \ {"Success", "Failure", "Preempted"}
    BY DEF Outcomes
  <2> HIDE DEF r
  <2> QED
    BY <1>1, <2>1, <2>2, <2>3, WorkerEndsSteady, WorkerEventApplied DEF Sound
<1> HIDE DEF stopped
<1>3. /\ Consistent(wifi) /\ Delivered(wifi) /\ Held(stopped, wifi)
      /\ wifi.wifi.ready = FALSE /\ wifi.sonos = stopped.sonos /\ wifi.display = stopped.display
  <2>1. WifiOK(stopped.wifi) /\ Consistent(stopped) /\ Delivered(stopped) /\ JobOK(stopped)
    BY <1>2 DEF CoordinatorOK, Open, Consistent, Steady
  <2>2. WifiResultOK(v) /\ v.wifi.ready = FALSE
    BY <2>1, WifiHandlers, WifiReports
  <2> HIDE DEF v
  <2> QED
    BY <2>1, <2>2, WifiEventKeeps, WifiEventHeld
<1> HIDE DEF wifi
<1>4. /\ Consistent(offline) /\ offline.completion = NoCompletion /\ InFlight(offline)
      /\ Held(wifi, offline) /\ Subdued(wifi, offline)
  <2>1. /\ offline \in CoordinatorType /\ SameMachines(wifi, offline) /\ SameJobs(wifi, offline)
        /\ offline.discoveryPending = wifi.discoveryPending
        /\ offline.display = wifi.display /\ offline.sonos = wifi.sonos
    BY <1>3 DEF Consistent, CoordinatorType, SameMachines, SameJobs
  <2> HIDE DEF offline
  <2>2. Consistent(offline) /\ offline.completion = NoCompletion
    BY <1>3, <2>1 DEF SameMachines, Consistent, Delivered
  <2>3. Held(wifi, offline)
    BY <1>3, <2>1, EditedHeld DEF Held
  <2>4. Subdued(wifi, offline)
    BY <2>1 DEF Subdued, SameJobs, NothingNew
  <2> QED
    BY <2>2, <2>3, <2>4, JobsInFlight DEF Held
<1> HIDE DEF offline
<1>5. Steady(offline, ended) /\ Consistent(ended) /\ ended.completion = NoCompletion
  <2>1. SonosResultOK(s) /\ GenerationMoves(offline.sonos, s)
    BY <1>4, SonosStopNetwork, GenerationEvents DEF Consistent, SonosOK
  <2> HIDE DEF s
  <2>2. Steady(offline, ended)
    BY <1>4, <2>1, SonosMovesSteady
  <2>3. Consistent(SonosEvent(offline, s))
    BY <1>4, <2>1, SonosEventKeeps
  <2> QED
    BY <2>2, <2>3, ApplyFactsDelivers DEF Delivery, Delivered
<1> HIDE DEF ended
<1>6. /\ SameJobs(ended, left) /\ left.sonos = ended.sonos /\ left.display = ended.display
      /\ left.discoveryPending = ended.discoveryPending /\ left \in CoordinatorType
  <2>1. SubResultOK(q)
    <3>1. NoSid \in Sids \cup {NoSid} /\ 0 \in Nat /\ 1 \in Nat \ {NoId} /\ NoHost \in Hosts \cup {NoHost}
      OBVIOUS
    <3> QED
      BY <1>5, <3>1, SubscriptionHandlers DEF Consistent
  <2> DEFINE changed == ended.topologyChanged \/ q.changed
             sent == IF q.request = NoId THEN ended.request ELSE q.request
  <2>2. left = [ended EXCEPT !.subscription = q.sub, !.request = sent, !.topologyChanged = changed]
    BY DEF SubscriptionEvent
  <2>3. left \in CoordinatorType
    BY <1>5, <2>1, SubscriptionEventKeeps DEF Consistent
  <2> HIDE DEF q, changed, sent, left
  <2> QED
    BY <1>5, <2>2, <2>3 DEF Consistent, CoordinatorType, SameJobs
<1> HIDE DEF left
<1>7. /\ SameJobs(left, d) /\ d.sonos = left.sonos /\ d.display = left.display
      /\ d.discoveryPending = left.discoveryPending
  BY <1>6 DEF CoordinatorType, SameJobs
<1>8. d = Shutdown(x)
  BY DEF Shutdown, ShutdownWorker, ShutdownWifi, ShutdownSonos, StopSonos, StopSubscription,
         left, ended, offline, wifi, stopped
<1> HIDE DEF d
<1>9. SameJobs(ended, d) /\ d.sonos = ended.sonos /\ d.display = ended.display
      /\ d.discoveryPending = ended.discoveryPending
  BY <1>6, <1>7 DEF SameJobs
<1>10. Steady(ended, d)
  BY <1>5, <1>9, EditedHeld DEF Steady, Held, Subdued, SameJobs, NothingNew
<1>11. Steady(stopped, offline)
  BY <1>3, <1>4, FollowsTransitive DEF Steady, Held, Subdued, NothingNew
<1> QED
  BY <1>2, <1>5, <1>8, <1>10, <1>11, SteadyTransitive

------------------------------------------------------------------------------
(* Admission and preemption *)

\* Where no fact is recorded, delivering the facts does nothing.
LEMMA NothingRecorded ==
    ASSUME NEW x \in CoordinatorType, Delivered(x), NEW b
    PROVE  ApplyFacts(x, b) = x
<1>1. RevokeSubscription(x) = x
  BY DEF RevokeSubscription, Delivered
<1>2. PICK stale \in BOOLEAN : stale = (x.display.stale \/ x.invalidated)
  BY Zenon
<1>3. stale = x.display.stale
  BY <1>2 DEF Delivered, CoordinatorType, DisplayType
<1> DEFINE marked == [x EXCEPT !.invalidated = FALSE, !.display.stale = stale]
<1>4. marked = x
  BY <1>3 DEF Delivered, CoordinatorType, DisplayType
<1>5. PICK owed \in BOOLEAN :
          owed = (x.reconciliationPending \/ x.reconcile \/ x.topologyChanged)
  BY Zenon
<1>6. owed = x.reconciliationPending
  BY <1>5 DEF Delivered, CoordinatorType
<1>7. [x EXCEPT !.reconciliationPending = owed, !.reconcile = FALSE, !.topologyChanged = FALSE] = x
  BY <1>6 DEF Delivered, CoordinatorType
<1>8. ApplySonosFacts(x) = x
  <2>1. marked = [x EXCEPT !.invalidated = FALSE, !.display.stale = @ \/ x.invalidated]
    BY <1>2
  <2>2. OweReconciliation(x) = x
    BY <1>5, <1>7 DEF OweReconciliation
  <2> HIDE DEF marked
  <2> QED
    BY <1>1, <1>4, <2>1, <2>2 DEF ApplySonosFacts
<1> QED
  BY <1>8 DEF ApplyFacts, DeliverCompletion, Delivered

\* A job in time is not expired: the call changes nothing at all.
LEMMA NothingExpires ==
    ASSUME NEW x, CoordinatorOK(x), x.worker.running => x.worker.left > 0
    PROVE  ExpireWorker(x) = x
<1>1. x \in CoordinatorType /\ Delivered(x) /\ x.worker.left \in Nat
  BY DEF CoordinatorOK, Open, Consistent, WorkerOK, WorkerType
<1>2. WorkerDeadlineExpired(x.worker) = WorkerStays(x.worker)
  BY <1>1 DEF WorkerDeadlineExpired
<1>3. WorkerEvent(x, WorkerStays(x.worker)) = x
  BY <1>1 DEF WorkerEvent, WorkerStays, CoordinatorType
<1> QED
  BY <1>1, <1>2, <1>3, NothingRecorded DEF ExpireWorker

\* Preempting a read is not a failure, and what it held is offered again.
PreemptedFrom(x, d) ==
    /\ JobOK(d) /\ ~d.worker.running
    /\ d.preemptedJobs = x.preemptedJobs \cup {x.worker.jobId}
    /\ x.worker.running /\ x.worker.origin = "automatic" /\ x.worker.left > 0
    /\ d.sonos = x.sonos /\ d.reconciliationPending = x.reconciliationPending
    /\ d.display = [x.display EXCEPT !.pending = NoId]

\* preemptAutomatic lets a passed deadline end the job first, and otherwise
\* preempts it.
LEMMA PreemptAutomaticHeld ==
    ASSUME NEW x, CoordinatorOK(x), JobOK(x)
    PROVE  LET d == PreemptAutomatic(x)
           IN  /\ PreemptedFrom(x, d) \/ (Steady(x, d) /\ d = ExpireWorker(x))
               /\ d.worker.running => d.worker.origin = "user"
<1> DEFINE e == ExpireWorker(x)
           r == WorkerPreempt(e.worker)
           d == PreemptAutomatic(x)
<1>1. Steady(x, e) /\ CoordinatorOK(e) /\ (e.worker.running => x.worker.left > 0)
  BY ExpireWorkerSteady
<1>2. CASE ~(e.worker.running /\ e.worker.origin = "automatic")
  <2>1. d = e
    BY <1>2 DEF PreemptAutomatic, PreemptRunning
  <2>2. e.worker.origin \in Origins
    BY <1>1 DEF CoordinatorOK, Open, Consistent, WorkerOK, WorkerType
  <2> QED
    BY <1>1, <1>2, <2>1, <2>2 DEF Origins
<1>3. CASE e.worker.running /\ e.worker.origin = "automatic"
  <2>1. e = x
    <3>1. e.worker = x.worker
      BY <1>1, <1>3 DEF Steady, Follows
    <3> QED
      BY <1>1, <1>3, <3>1, NothingExpires
  <2> HIDE DEF e
  <2>2. r = FinishWorker(x.worker, "Preempted")
    BY <1>3, <2>1 DEF WorkerPreempt
  <2> DEFINE w == WorkerEvent(x, r)
             id == x.worker.jobId
             held == x.sonos.state = "Discovering" /\ x.workerDiscoveryId # NoId
                        /\ x.workerDiscoveryId = x.sonos.discoveryId
  <2>3. PICK offered \in BOOLEAN : offered = (x.discoveryPending \/ held)
    BY Zenon
  <2> DEFINE p == [w EXCEPT !.preemptedJobs = x.preemptedJobs \cup {id},
                            !.discoveryPending = offered]
  <2>4. x \in CoordinatorType /\ Delivered(x) /\ id \in Nat /\ Open(x)
    BY DEF CoordinatorOK, Open, Consistent, WorkerOK, WorkerType
  <2>5. WorkerResultOK(r)
    <3>1. FreshOK([gen |-> 1, request |-> 1]) /\ 1 \in Nat
      BY DEF FreshOK
    <3> QED
      BY <2>1, <2>4, <3>1, MachineResults
  <2>6. /\ w \in CoordinatorType /\ w.worker = IdleWorker /\ w.wifi = x.wifi
        /\ w.sonos = x.sonos /\ w.display = x.display
        /\ w.completion = [id |-> id, outcome |-> "Preempted"]
        /\ w.discoveryPending = x.discoveryPending /\ w.preemptedJobs = x.preemptedJobs
        /\ w.workerDiscoveryId = x.workerDiscoveryId
        /\ w.discoveryResultReceived = x.discoveryResultReceived /\ w.jobRefresh = x.jobRefresh
        /\ w.invalidated = x.invalidated /\ w.discoveryInvalidated = x.discoveryInvalidated
        /\ w.reconcile = x.reconcile /\ w.topologyChanged = x.topologyChanged
        /\ w.reconciliationPending = x.reconciliationPending /\ w.subscription = x.subscription
    <3>1. r.worker = IdleWorker /\ r.ended = [id |-> id, outcome |-> "Preempted"]
          /\ r.ended # NoCompletion /\ r.ended \in CompletionType
      BY <2>2, <2>4 DEF FinishWorker, NoCompletion, CompletionType, Outcomes
    <3>2. IdleWorker \in WorkerType
      BY <2>5, <3>1 DEF WorkerResultOK, WorkerOK
    <3> HIDE DEF r
    <3>3. w = [x EXCEPT !.worker = IdleWorker, !.completion = [id |-> id, outcome |-> "Preempted"]]
      BY <3>1 DEF WorkerEvent
    <3> HIDE DEF w
    <3> QED
      BY <2>4, <3>1, <3>2, <3>3 DEF CoordinatorType
  <2>7. d = ApplyFacts(p, TRUE)
    <3>1. p = [w EXCEPT !.preemptedJobs = @ \cup {id},
                        !.discoveryPending =
                           \/ @
                           \/ /\ x.sonos.state = "Discovering"
                              /\ x.workerDiscoveryId # NoId
                              /\ x.workerDiscoveryId = x.sonos.discoveryId]
      <4> HIDE DEF w
      <4> QED
        BY <2>3, <2>6 DEF CoordinatorType
    <3> QED
      BY <1>3, <2>1, <3>1 DEF PreemptAutomatic, PreemptRunning, e
  <2> HIDE DEF w, d
  <2>8. /\ p \in CoordinatorType /\ p.worker = IdleWorker /\ p.wifi = x.wifi
        /\ p.sonos = x.sonos /\ p.display = x.display
        /\ p.completion = [id |-> id, outcome |-> "Preempted"]
        /\ p.discoveryPending = offered /\ p.preemptedJobs = x.preemptedJobs \cup {id}
        /\ p.workerDiscoveryId = x.workerDiscoveryId
        /\ p.discoveryResultReceived = x.discoveryResultReceived /\ p.jobRefresh = x.jobRefresh
        /\ p.invalidated = x.invalidated /\ p.discoveryInvalidated = x.discoveryInvalidated
        /\ p.reconcile = x.reconcile /\ p.topologyChanged = x.topologyChanged
        /\ p.reconciliationPending = x.reconciliationPending /\ p.subscription = x.subscription
    BY <2>4, <2>6 DEF CoordinatorType
  <2> HIDE DEF p
  <2>9. Consistent(p)
    <3>1. WorkerOK(IdleWorker)
      BY <2>2, <2>5 DEF WorkerResultOK, FinishWorker
    <3> QED
      BY <2>4, <2>8, <3>1 DEF Open, Consistent
  <2>10. /\ p.completion # NoCompletion /\ p.completion.id = id
         /\ p.completion.outcome = "Preempted" /\ ~Unanswered(p)
    BY <2>8 DEF NoCompletion, Unanswered
  <2>11. InFlight(p)
    <3>1. p.display.pending # NoId => p.completion.id = p.display.pending
      BY <2>8, <2>10 DEF JobOK, PendingOwned
    <3>2. p.sonos.state = "Discovering" /\ p.sonos.left > 0 => p.discoveryPending
      <4>1. x.sonos.state = "Discovering" => x.sonos.discoveryId # NoId
        BY <2>4 DEF Open, Consistent, SonosOK, SonosInvariant
      <4> QED
        BY <2>3, <2>8, <4>1 DEF JobOK, GenerationHeld
    <3>3. ReadyByOwnRead(p)
      BY <2>8 DEF JobOK, ReadyByOwnRead
    <3> QED
      BY <2>10, <3>1, <3>2, <3>3 DEF InFlight
  <2>12. JobOK(d) /\ d.worker = p.worker /\ JobsAfterFacts(p, d) /\ Follows(p, d)
    BY <2>7, <2>9, <2>10, <2>11, FactsKeepJobs, FactsLeaveJobs
  <2>13. d.display = [x.display EXCEPT !.pending = NoId]
    <3>1. d.display.pending = NoId
      BY <2>8, <2>10, <2>12 DEF JobsAfterFacts, JobOK, PendingOwned
    <3>2. d.display = [p.display EXCEPT !.pending = d.display.pending]
      BY <2>4, <2>8, <2>10, <2>12 DEF JobsAfterFacts, Delivered
    <3> QED
      BY <2>8, <3>1, <3>2
  <2>14. d.sonos = x.sonos /\ d.reconciliationPending = x.reconciliationPending
    BY <2>4, <2>8, <2>10, <2>12 DEF JobsAfterFacts, Delivered
  <2>15. d.preemptedJobs = x.preemptedJobs \cup {id} /\ ~d.worker.running
    BY <2>8, <2>12 DEF Follows, IdleWorker
  <2> QED
    BY <1>1, <1>3, <2>1, <2>12, <2>13, <2>14, <2>15 DEF PreemptedFrom, d
<1> QED
  BY <1>2, <1>3

\* What the commit of an admitted job leaves behind.
Committed(x, d, id, origin) ==
    /\ JobOK(d)
    /\ d.worker.running /\ d.worker.jobId = id /\ d.worker.origin = origin
    /\ d.workerDiscoveryId = NoId /\ ~d.discoveryResultReceived
    /\ d.display.status = "pending" => x.display.status = "pending"
    /\ \/ d.preemptedJobs = x.preemptedJobs
       \/ /\ d.preemptedJobs = x.preemptedJobs \cup {x.worker.jobId}
          /\ x.worker.running /\ x.worker.origin = "automatic" /\ x.worker.left > 0
          /\ d.sonos = x.sonos /\ d.reconciliationPending = x.reconciliationPending
          /\ [d.display EXCEPT !.pending = NoId] = [x.display EXCEPT !.pending = NoId]

\* An admitted job runs under its own identity, bound to no generation yet; the
\* only pending values are its own.
LEMMA CommitJobHeld ==
    ASSUME NEW x, CoordinatorOK(x), JobOK(x), NEW id \in Nat \ {NoId}, NEW refresh \in BOOLEAN,
           NEW origin \in Origins, Admitted(x, refresh, origin, FALSE)
    PROVE  Committed(x, CommitJob(x, id, refresh, origin), id, origin)
<1> DEFINE p == IF Preemptable(x, origin) THEN PreemptAutomatic(x) ELSE x
           budget == IF refresh THEN ReadBudget ELSE MutationBudget
           r == WorkerSubmit(p.worker, id, budget, origin)
           s == WorkerEvent(p, r)
           pending == IF ~refresh /\ origin = "user" THEN id ELSE s.display.pending
           d == [s EXCEPT !.workerDiscoveryId = NoId, !.discoveryResultReceived = FALSE,
                          !.jobRefresh = refresh, !.display.pending = pending]
<1>1. CommitJob(x, id, refresh, origin) = d
  BY DEF CommitJob, StartJob
<1>2. /\ CoordinatorOK(p) /\ JobOK(p) /\ ~p.worker.running
      /\ p.display.status = "pending" => x.display.status = "pending"
      /\ \/ p.preemptedJobs = x.preemptedJobs
         \/ PreemptedFrom(x, p)
  <2>1. CASE Preemptable(x, origin)
    <3> DEFINE q == PreemptAutomatic(x)
    <3>1. p = q
      BY <2>1
    <3>2. CoordinatorOK(q)
      BY PreemptAutomaticSound DEF Sound
    <3>3. /\ PreemptedFrom(x, q) \/ Steady(x, q)
          /\ q.worker.running => q.worker.origin = "user"
      BY PreemptAutomaticHeld
    <3> HIDE DEF q, p
    <3>4. x.worker.running /\ x.worker.origin = "automatic"
      BY <2>1 DEF Preemptable
    <3>5. CASE PreemptedFrom(x, q)
      <4>1. q.display.status = x.display.status
        BY <3>5 DEF PreemptedFrom, CoordinatorOK, Open, Consistent, CoordinatorType, DisplayType
      <4> QED
        BY <3>1, <3>2, <3>5, <4>1 DEF PreemptedFrom
    <3>6. CASE Steady(x, q)
      BY <3>1, <3>2, <3>3, <3>4, <3>6 DEF Steady, Follows
    <3> QED
      BY <3>3, <3>5, <3>6
  <2>2. CASE ~Preemptable(x, origin)
    BY <2>2 DEF Admitted
  <2> QED
    BY <2>1, <2>2
<1> HIDE DEF p
<1>3. /\ r = [worker |-> [running |-> TRUE, jobId |-> id, left |-> budget, origin |-> origin],
              ended |-> NoCompletion]
      /\ budget \in Nat
  BY <1>2, RuntimeAssumption DEF WorkerSubmit
<1> HIDE DEF r, budget
<1>4. p \in CoordinatorType /\ p.display \in DisplayType
  BY <1>2 DEF CoordinatorOK, Open, Consistent, CoordinatorType
<1>5. /\ s \in CoordinatorType /\ s.display = p.display /\ s.sonos = p.sonos
      /\ s.worker = [running |-> TRUE, jobId |-> id, left |-> budget, origin |-> origin]
      /\ s.discoveryPending = p.discoveryPending /\ s.preemptedJobs = p.preemptedJobs
      /\ s.reconciliationPending = p.reconciliationPending
  BY ZenonT(30), <1>3, <1>4 DEF WorkerEvent, CoordinatorType, WorkerType
<1> HIDE DEF s
<1>6. pending \in Nat /\ (pending # NoId => pending = id /\ ~refresh /\ origin = "user")
  <2>1. p.display.pending = NoId
    BY <1>2 DEF JobOK, PendingOwned
  <2> QED
    BY <1>5, <2>1
<1> HIDE DEF pending
<1>7. /\ d.worker = s.worker /\ d.sonos = s.sonos /\ d.workerDiscoveryId = NoId
      /\ d.discoveryResultReceived = FALSE /\ d.jobRefresh = refresh
      /\ d.discoveryPending = s.discoveryPending /\ d.preemptedJobs = s.preemptedJobs
      /\ d.reconciliationPending = s.reconciliationPending
      /\ d.display = [p.display EXCEPT !.pending = pending]
  BY <1>5 DEF CoordinatorType
<1> HIDE DEF d
<1>8. /\ d.display.pending = pending /\ d.display.status = p.display.status
      /\ [d.display EXCEPT !.pending = NoId] = [p.display EXCEPT !.pending = NoId]
  BY <1>4, <1>6, <1>7 DEF DisplayType
<1>9. JobOK(d)
  <2>1. PendingOwned(d)
    BY <1>5, <1>6, <1>7, <1>8 DEF PendingOwned
  <2>2. GenerationHeld(d)
    BY <1>2, <1>5, <1>7 DEF JobOK, GenerationHeld
  <2>3. d.sonos.state = "Ready" => d.sonos.discoveryId # NoId
    BY <1>2, <1>5, <1>7 DEF CoordinatorOK, Open, Consistent, SonosOK, SonosInvariant
  <2>4. ReadyByOwnRead(d)
    BY <1>7, <2>3 DEF ReadyByOwnRead
  <2> QED
    BY <2>1, <2>2, <2>4 DEF JobOK
<1>10. d.worker.running /\ d.worker.jobId = id /\ d.worker.origin = origin
  BY <1>5, <1>7
<1>11. \/ d.preemptedJobs = x.preemptedJobs
       \/ /\ d.preemptedJobs = x.preemptedJobs \cup {x.worker.jobId}
          /\ x.worker.running /\ x.worker.origin = "automatic" /\ x.worker.left > 0
          /\ d.sonos = x.sonos /\ d.reconciliationPending = x.reconciliationPending
          /\ [d.display EXCEPT !.pending = NoId] = [x.display EXCEPT !.pending = NoId]
  <2>1. CASE p.preemptedJobs = x.preemptedJobs
    BY <1>5, <1>7, <2>1
  <2>2. CASE PreemptedFrom(x, p)
    <3>1. [p.display EXCEPT !.pending = NoId] = [x.display EXCEPT !.pending = NoId]
      <4>1. x.display \in DisplayType
        BY DEF CoordinatorOK, Open, Consistent, CoordinatorType
      <4> QED
        BY <2>2, <4>1 DEF PreemptedFrom, DisplayType
    <3> QED
      BY <1>5, <1>7, <1>8, <2>2, <3>1 DEF PreemptedFrom
  <2> QED
    BY <1>2, <2>1, <2>2
<1> QED
  BY <1>1, <1>2, <1>7, <1>8, <1>9, <1>10, <1>11 DEF Committed

\* Taking an automatic turn says nothing of jobs.
LEMMA TakeAutomaticTurnHeld ==
    ASSUME NEW x, CoordinatorOK(x), JobOK(x)
    PROVE  LET d == TakeAutomaticTurn(x)
           IN  /\ Held(x, d) /\ d.worker = x.worker /\ d.display = x.display
               /\ d.sonos = x.sonos /\ d.wifi = x.wifi /\ d.preemptedJobs = x.preemptedJobs
<1> DEFINE d == TakeAutomaticTurn(x)
<1>1. /\ SameJobs(x, d) /\ d.sonos = x.sonos /\ d.discoveryPending = x.discoveryPending
      /\ d.display = x.display
  BY DEF TakeAutomaticTurn, CoordinatorOK, Open, Consistent, CoordinatorType, SameJobs
<1> HIDE DEF d
<1> QED
  BY <1>1, EditedHeld DEF SameJobs, d

------------------------------------------------------------------------------
(* The methods the worker task calls *)

\* What binding a job to a generation does.
Bound(x, d, jobId, discoveryId) ==
    /\ JobOK(d) /\ Subdued(x, d)
    /\ d.worker = x.worker \/ ~d.worker.running
    /\ d.preemptedJobs = x.preemptedJobs
    /\ d.discoveryResultReceived = x.discoveryResultReceived
    /\ d.display.status = "pending" => x.display.status = "pending" /\ d.worker = x.worker
    /\ IF discoveryId = NoId THEN d.workerDiscoveryId = x.workerDiscoveryId
       ELSE /\ d.workerDiscoveryId = discoveryId
            /\ d.worker.running /\ d.worker.jobId = jobId

\* The running job takes over the generation, whose result it has yet to report.
LEMMA BindDiscoveryHeld ==
    ASSUME NEW x, CoordinatorOK(x), JobOK(x), NEW jobId, NEW f, FreshOK(f),
           x.worker.running /\ x.worker.jobId = jobId => ~x.discoveryResultReceived
    PROVE  LET b == BindDiscovery(x, jobId, f) IN Bound(x, b.c, jobId, b.discoveryId)
<1> DEFINE s == Service(x, f)
           r == OpenGeneration(s, f.gen)
           d == [r EXCEPT !.workerDiscoveryId = r.sonos.discoveryId, !.discoveryPending = FALSE,
                          !.discardHost = FALSE]
           b == BindDiscovery(x, jobId, f)
<1>1. Steady(x, s) /\ CoordinatorOK(s)
  BY ServiceSteady
<1>2. b = IF RuntimeJobActive(s.worker, jobId, FALSE) THEN BindGeneration(r)
          ELSE [c |-> s, discoveryId |-> NoId]
  BY DEF BindDiscovery, BindActiveJob
<1> HIDE DEF s, b
<1>3. Steady(s, r) /\ r.worker = s.worker /\ Consistent(r)
  <2>1. Consistent(s) /\ s.completion = NoCompletion /\ InFlight(s) /\ JobOK(s) /\ Delivered(s)
    BY <1>1, NothingUnanswered, JobsInFlight DEF Steady, CoordinatorOK
  <2>2. CASE s.workerDiscoveryId = NoId
    <3> DEFINE e == SonosRefreshRequested(s.sonos, f.gen)
    <3>1. SonosResultOK(e) /\ GenerationMoves(s.sonos, e)
      <4>1. Open(s) /\ 1 \in Nat
        BY <1>1 DEF CoordinatorOK
      <4> QED
        BY <2>1, <4>1, MachineResults, GenerationEvents DEF Consistent, SonosOK
    <3>2. r = ApplyFacts(SonosEvent(s, e), TRUE)
      BY <2>2 DEF OpenGeneration
    <3> HIDE DEF e, r
    <3>3. Consistent(SonosEvent(s, e))
      BY <2>1, <3>1, SonosEventKeeps
    <3> QED
      BY <2>1, <3>1, <3>2, <3>3, SonosMovesSteady, ApplyFactsDelivers DEF Delivery
  <2>3. CASE s.workerDiscoveryId # NoId
    <3>1. r = s
      BY <2>1, <2>3, NothingRecorded DEF OpenGeneration, Consistent
    <3> QED
      BY <2>1, <3>1 DEF Steady, Follows, Subdued, NothingNew
  <2> QED
    BY <2>2, <2>3
<1> HIDE DEF r
<1>4. Steady(x, r)
  BY <1>1, <1>3, SteadyTransitive
<1>5. CASE ~RuntimeJobActive(s.worker, jobId, FALSE)
  BY <1>1, <1>2, <1>5 DEF Steady, Follows, Bound, b
<1>6. CASE /\ RuntimeJobActive(s.worker, jobId, FALSE)
           /\ ~(r.sonos.state = "Discovering"
                 /\ r.workerDiscoveryId \in {NoId, r.sonos.discoveryId})
  <2>1. b = [c |-> r, discoveryId |-> NoId]
    BY <1>2, <1>6 DEF BindGeneration
  <2> QED
    BY <1>4, <2>1 DEF Steady, Follows, Bound, b
<1>7. CASE /\ RuntimeJobActive(s.worker, jobId, FALSE)
           /\ r.sonos.state = "Discovering"
           /\ r.workerDiscoveryId \in {NoId, r.sonos.discoveryId}
  <2>1. b = [c |-> d, discoveryId |-> r.sonos.discoveryId]
    BY <1>2, <1>7 DEF BindGeneration
  <2>2. /\ d.worker = r.worker /\ d.wifi = r.wifi /\ d.sonos = r.sonos /\ d.display = r.display
        /\ d.preemptedJobs = r.preemptedJobs /\ d.jobRefresh = r.jobRefresh
        /\ d.discoveryResultReceived = r.discoveryResultReceived
        /\ d.workerDiscoveryId = r.sonos.discoveryId
    BY <1>3 DEF Consistent, CoordinatorType
  <2>3. r.sonos.discoveryId # NoId
    BY <1>3, <1>7 DEF Consistent, SonosOK, SonosInvariant
  <2>4. /\ r.worker.running /\ r.worker.jobId = jobId /\ r.worker = x.worker
        /\ ~r.discoveryResultReceived
    <3>1. r.worker.running /\ r.worker.jobId = jobId
      BY <1>3, <1>7 DEF RuntimeJobActive
    <3> QED
      BY <1>4, <3>1 DEF Steady, Follows
  <2> HIDE DEF d
  <2>5. JobOK(d)
    BY <1>4, <1>7, <2>2, <2>4 DEF Steady, JobOK, PendingOwned, GenerationHeld, ReadyByOwnRead
  <2>6. Subdued(x, d)
    BY <1>4, <2>2 DEF Steady, Subdued, NothingNew
  <2> QED
    BY <1>4, <2>1, <2>2, <2>3, <2>4, <2>5, <2>6 DEF Steady, Follows, Bound, b
<1> QED
  BY <1>5, <1>6, <1>7

\* What the report of a household does to jobs: only the job it is of has
\* reported by it.
Answered(x, d, jobId) ==
    /\ JobOK(d)
    /\ d.worker = x.worker \/ ~d.worker.running
    /\ d.preemptedJobs = x.preemptedJobs
    /\ d.workerDiscoveryId = x.workerDiscoveryId
    /\ \/ d.discoveryResultReceived = x.discoveryResultReceived
       \/ x.worker.running /\ x.worker.jobId = jobId
    /\ d.display.status = "pending" => x.display.status = "pending" /\ d.worker = x.worker

\* The household's answer settles the generation for the job that is bound to it.
LEMMA DiscoveryResultHeld ==
    ASSUME NEW x, CoordinatorOK(x), JobOK(x), NEW jobId, NEW discoveryId \in Nat, NEW ok \in BOOLEAN,
           NEW host \in Hosts, NEW f, FreshOK(f)
    PROVE  Answered(x, DiscoveryResult(x, jobId, discoveryId, ok, host, f).c, jobId)
<1> DEFINE e == ExpireWorker(x)
           taken == /\ RuntimeJobActive(e.worker, jobId, FALSE)
                    /\ discoveryId # NoId /\ discoveryId = e.workerDiscoveryId
                    /\ ~e.discoveryResultReceived
           received == [e EXCEPT !.discoveryResultReceived = TRUE]
           result == IF ok THEN SonosDiscoverySucceeded(e.sonos, discoveryId)
                           ELSE SonosDiscoveryFailed(e.sonos, discoveryId)
           s == SonosEvent(received, result)
           r == ApplyFacts(s, TRUE)
           d == UseHousehold(r, host, f.request)
           found == SubNetworkAvailable(r.subscription, host, f.request)
           w == SubscriptionEvent(r, found)
           got == DiscoveryResult(x, jobId, discoveryId, ok, host, f).c
<1>1. Steady(x, e) /\ CoordinatorOK(e)
  BY ExpireWorkerSteady
<1>2. /\ ~taken => got = e
      /\ taken => got \in {r, d}
  BY DEF DiscoveryResult, TakeDiscoveryResult, AcceptHousehold, ReportDiscovery
<1> HIDE DEF e, got, d
<1>3. CASE ~taken
  BY <1>1, <1>2, <1>3 DEF Steady, Follows, Answered, got
<1>4. CASE taken
  <2>1. /\ e.worker.running /\ e.worker.jobId = jobId /\ e.worker = x.worker
    BY <1>1, <1>4 DEF RuntimeJobActive, Steady, Follows
  <2>2. /\ Consistent(e) /\ Delivered(e) /\ JobOK(e) /\ Open(e)
    BY <1>1 DEF CoordinatorOK, Open, Steady
  <2>3. /\ received \in CoordinatorType /\ received.sonos = e.sonos /\ received.worker = e.worker
        /\ received.wifi = e.wifi /\ received.subscription = e.subscription
        /\ received.completion = e.completion /\ received.display = e.display
        /\ received.discoveryPending = e.discoveryPending
        /\ received.preemptedJobs = e.preemptedJobs /\ received.jobRefresh = e.jobRefresh
        /\ received.workerDiscoveryId = e.workerDiscoveryId
        /\ received.discoveryResultReceived = TRUE
        /\ received.invalidated = e.invalidated
        /\ received.discoveryInvalidated = e.discoveryInvalidated
    BY <2>2 DEF Consistent, CoordinatorType
  <2> HIDE DEF received
  <2>4. SonosResultOK(result)
    <3>1. FreshOK([gen |-> 1, request |-> 1])
      BY DEF FreshOK
    <3> QED
      BY <2>2, <3>1, MachineResults
  <2>5. Consistent(received)
    BY <2>2, <2>3 DEF Consistent
  <2>5a. received.completion = NoCompletion /\ ~Unanswered(received)
    BY <2>2, <2>3 DEF Delivered, Unanswered
  <2>6. Consistent(s) /\ s.completion = NoCompletion /\ SameJobs(received, s)
        /\ s.display = received.display /\ s.sonos = result.sonos
    BY <2>4, <2>5, <2>5a, SonosEventKeeps, SonosEventLeavesJobs
  <2>7. InFlight(s)
    <3>1. s.display.pending # NoId =>
             /\ s.worker.running /\ s.worker.jobId = s.display.pending
             /\ s.worker.origin = "user" /\ ~s.jobRefresh
      BY <2>2, <2>3, <2>6 DEF SameJobs, JobOK, PendingOwned
    <3>2. ReadyByOwnRead(s)
      BY <2>3, <2>6 DEF ReadyByOwnRead, SameJobs
    <3>3. s.sonos.state = "Discovering" /\ s.sonos.left > 0 => s.discoveryPending
      <4> SUFFICES ASSUME s.sonos.state = "Discovering", s.sonos.left > 0
                   PROVE  s.discoveryPending
        OBVIOUS
      <4>1. result.sonos.state # "Backoff" /\ result.sonos.state # "Ready"
        BY <2>6
      <4>1a. e.sonos \in SonosType
        BY <2>2 DEF Consistent, SonosOK
      <4>2. result = SonosStays(e.sonos)
        <5>1. \A z \in SonosType : BecomeReady(z).sonos.state = "Ready"
          BY DEF BecomeReady, SonosType
        <5>2. \A z \in SonosType : SonosBackoff(z, FALSE).sonos.state = "Backoff"
          BY DEF SonosBackoff, SonosType
        <5> QED
          BY <4>1, <4>1a, <5>1, <5>2 DEF SonosDiscoverySucceeded, SonosDiscoveryFailed
      <4>3. result.fx = {} /\ result.sonos = e.sonos
        BY <4>2 DEF SonosStays
      <4>4. discoveryId # e.sonos.discoveryId
        <5>1. e.sonos.left > 0 /\ e.sonos.state = "Discovering"
          BY <2>6, <4>3
        <5>2. \A z \in SonosType : BecomeReady(z) # SonosStays(z) \/ z.state # "Discovering"
          BY DEF BecomeReady, SonosStays, SonosType
        <5>3. \A z \in SonosType : SonosBackoff(z, FALSE) # SonosStays(z) \/ z.state # "Discovering"
          BY DEF SonosBackoff, SonosStays, SonosType
        <5> QED
          BY <4>1a, <4>2, <5>1, <5>2, <5>3 DEF SonosDiscoverySucceeded, SonosDiscoveryFailed
      <4>5. e.discoveryPending
        BY <1>4, <2>2, <2>6, <4>3, <4>4 DEF JobOK, GenerationHeld
      <4>6. s.discoveryPending = received.discoveryPending
        BY <2>4, <2>5, <4>3, SonosEventLeavesJobs
      <4> QED
        BY <2>3, <4>5, <4>6
    <3> QED
      BY <3>1, <3>2, <3>3 DEF InFlight
  <2> HIDE DEF s
  <2>8. /\ JobOK(r) /\ Follows(s, r) /\ r.worker = s.worker
        /\ Consistent(r) /\ r.completion = NoCompletion
    <3>1. ~Unanswered(s)
      BY <2>6 DEF Unanswered
    <3> QED
      BY <2>6, <2>7, <3>1, FactsKeepJobs, ApplyFactsDelivers DEF Delivery, Delivered
  <2> HIDE DEF r
  <2>9. /\ JobOK(d) /\ Follows(r, d) /\ d.worker = r.worker
    <3>1. SubResultOK(found)
      <4>1. /\ SubOK(r.subscription) /\ host \in Hosts \cup {NoHost}
            /\ f.request \in Nat \ {NoId} /\ NoSid \in Sids \cup {NoSid} /\ 1 \in Nat
        BY <2>8 DEF Consistent, FreshOK
      <4> QED
        BY <4>1, SubscriptionHandlers, Zenon
    <3> HIDE DEF found
    <3>2. /\ InFlight(w) /\ SameJobs(r, w) /\ w.sonos = r.sonos /\ w.display = r.display
          /\ w.completion = r.completion
      BY <2>8, <3>1, JobsInFlight, SubscriptionEventInFlight
    <3>3. Consistent(w)
      BY <2>8, <3>1, SubscriptionEventKeeps
    <3>4. d = ApplyFacts([w EXCEPT !.reconciliationPending = @ /\ ~r.jobRefresh], TRUE)
      BY DEF UseHousehold, d, found
    <3> HIDE DEF w
    <3>5. PICK b \in BOOLEAN : b = (w.reconciliationPending /\ ~r.jobRefresh)
      BY Zenon
    <3> DEFINE z == [w EXCEPT !.reconciliationPending = b]
    <3>6. d = ApplyFacts(z, TRUE)
      BY <3>4, <3>5
    <3>7. /\ z \in CoordinatorType /\ SameJobs(w, z) /\ z.sonos = w.sonos
          /\ z.discoveryPending = w.discoveryPending /\ z.display = w.display
          /\ z.completion = w.completion /\ z.wifi = w.wifi /\ z.subscription = w.subscription
          /\ z.discoveryInvalidated = w.discoveryInvalidated /\ z.invalidated = w.invalidated
      BY <3>3 DEF Consistent, CoordinatorType, SameJobs
    <3> HIDE DEF z
    <3>8. Consistent(z) /\ InFlight(z) /\ ~Unanswered(z)
      <4>1. Consistent(z)
        BY <3>3, <3>7 DEF Consistent, SameJobs
      <4>2. InFlight(z)
        BY <3>2, <3>7, EditedHeld
      <4>3. ~Unanswered(z)
        BY <2>8, <3>2, <3>7 DEF Unanswered
      <4> QED
        BY <4>1, <4>2, <4>3
    <3>9. JobOK(d) /\ Follows(z, d) /\ d.worker = z.worker
      BY <3>6, <3>8, FactsKeepJobs
    <3>10. Follows(r, z) /\ z.worker = r.worker
      BY <3>2, <3>7 DEF Follows, SameJobs
    <3> QED
      BY <3>9, <3>10, FollowsTransitive
  <2>10. Answered(x, r, jobId)
    BY <1>1, <2>1, <2>3, <2>6, <2>8 DEF Answered, Steady, Follows, SameJobs
  <2>11. Answered(x, d, jobId)
    BY <2>9, <2>10 DEF Answered, Follows
  <2> QED
    BY <1>2, <1>4, <2>10, <2>11 DEF got
<1> QED
  BY <1>3, <1>4

\* What the report of a finished job does to jobs.
FinishedAs(x, d, jobId, finish) ==
    /\ JobOK(d)
    /\ d.worker = x.worker \/ ~d.worker.running
    /\ d.worker.running => d.worker.jobId # jobId
    /\ d.preemptedJobs = IF finish = "Preempted" THEN x.preemptedJobs \ {jobId}
                                                 ELSE x.preemptedJobs
    /\ finish \in {"Accepted", "Preempted", "Cancelled"}
    /\ jobId \notin d.preemptedJobs \/ finish = "Accepted"
    /\ Subdued(x, d)
    /\ finish # "Accepted" /\ (x.worker.running => x.worker.left > 0)
          => d = [x EXCEPT !.preemptedJobs = d.preemptedJobs]
    /\ finish = "Accepted" => x.worker.running /\ x.worker.jobId = jobId /\ x.worker.left > 0
    /\ d.workerDiscoveryId = x.workerDiscoveryId
    /\ d.discoveryResultReceived = x.discoveryResultReceived
    /\ d.display.status = "pending" =>
          x.display.status = "pending" /\ (x.worker.running => x.worker.left > 0)

\* What a finished job tells the Sonos machine, all but the delivery: a
\* generation whose result the job never reported is failed with it.
LEMMA ReportHealthHeld ==
    ASSUME NEW x, CoordinatorOK(x), JobOK(x), NEW input
    PROVE  LET d == ReportHealth(x, input)
           IN  /\ Consistent(d) /\ InFlight(d) /\ d.completion = NoCompletion
               /\ d.worker = x.worker /\ Follows(x, d) /\ Subdued(x, d)
               /\ x.worker.running /\ d.sonos.state = "Discovering" /\ d.sonos.left > 0
                     => d.discoveryPending
<1> DEFINE id == x.workerDiscoveryId
           failed == ApplyFacts(SonosEvent(x, SonosDiscoveryFailed(x.sonos, id)), TRUE)
           lost == ApplyFacts(SonosEvent(x, SonosSessionFailure(x.sonos, id)), TRUE)
           r == SonosSessionSucceeded(x.sonos, id)
           well == SonosEvent(x, r)
           unreported == /\ id # NoId /\ ~x.discoveryResultReceived
                         /\ x.sonos.state = "Discovering"
           d == ReportHealth(x, input)
<1>1. /\ Consistent(x) /\ x.completion = NoCompletion /\ InFlight(x)
  BY NothingUnanswered, JobsInFlight
<1>2. \A e \in {SonosDiscoveryFailed(x.sonos, id), SonosSessionFailure(x.sonos, id), r} :
          SonosResultOK(e) /\ GenerationMoves(x.sonos, e)
  <2>1. Open(x) /\ id \in Nat /\ FreshOK([gen |-> 1, request |-> 1])
    BY DEF CoordinatorOK, Open, Consistent, CoordinatorType, FreshOK
  <2>2. x.sonos \in SonosType
    BY <1>1 DEF Consistent, SonosOK
  <2> QED
    BY <2>1, <2>2, MachineResults, GenerationEvents
<1>3. ASSUME NEW e, SonosResultOK(e), GenerationMoves(x.sonos, e)
      PROVE  LET y == ApplyFacts(SonosEvent(x, e), TRUE)
             IN  /\ Steady(x, y) /\ Consistent(y) /\ y.completion = NoCompletion
                 /\ y.worker = x.worker /\ y.sonos = e.sonos
  <2>1. Consistent(SonosEvent(x, e))
    BY <1>1, <1>3, SonosEventKeeps
  <2> QED
    BY <1>1, <1>3, <2>1, SonosMovesSteady, ApplyFactsDelivers DEF Delivery, Delivered
<1>4. x.sonos.state = "Discovering" /\ x.sonos.left > 0 /\ ~unreported => x.discoveryPending
  <2>1. x.sonos.state = "Discovering" => x.sonos.discoveryId # NoId
    BY <1>1 DEF Consistent, SonosOK, SonosInvariant
  <2> QED
    BY <2>1 DEF JobOK, GenerationHeld
<1>5. CASE unreported
  <2>1. d = failed
    BY <1>5 DEF ReportHealth, FailDiscovery
  <2>2. \/ SonosDiscoveryFailed(x.sonos, id).sonos.state = "Backoff"
        \/ id # x.sonos.discoveryId /\ SonosDiscoveryFailed(x.sonos, id).sonos = x.sonos
    BY <1>1, <1>5
    DEF SonosDiscoveryFailed, SonosBackoff, SonosStays, Consistent, SonosOK, SonosType
  <2>3. /\ Steady(x, failed) /\ Consistent(failed) /\ failed.completion = NoCompletion
        /\ failed.worker = x.worker /\ failed.sonos = SonosDiscoveryFailed(x.sonos, id).sonos
    BY <1>2, <1>3
  <2> HIDE DEF failed, d
  <2>4. x.worker.running /\ failed.sonos.state = "Discovering" /\ failed.sonos.left > 0
           => failed.discoveryPending
    BY <2>2, <2>3 DEF Steady, JobOK, GenerationHeld, Follows
  <2> QED
    BY <2>1, <2>3, <2>4, JobsInFlight DEF Steady, d
<1>6. CASE ~unreported /\ input.targetUsable /\ ~input.sessionOk /\ input.transportFailed
  <2>1. d = lost
    BY <1>6 DEF ReportHealth, FailSession
  <2>2. /\ Steady(x, lost) /\ Consistent(lost) /\ lost.completion = NoCompletion
        /\ lost.worker = x.worker /\ lost.sonos = SonosSessionFailure(x.sonos, id).sonos
    BY <1>2, <1>3
  <2>3. SonosSessionFailure(x.sonos, id).sonos.state = "Discovering"
           => SonosSessionFailure(x.sonos, id) = SonosStays(x.sonos)
    BY <1>1 DEF SonosSessionFailure, SonosBackoff, Consistent, SonosOK, SonosType
  <2> HIDE DEF lost, d
  <2>4. lost.sonos.state = "Discovering" /\ lost.sonos.left > 0 => lost.discoveryPending
    <3> SUFFICES ASSUME lost.sonos.state = "Discovering", lost.sonos.left > 0
                 PROVE  lost.discoveryPending
      OBVIOUS
    <3>1. lost.sonos = x.sonos
      BY <2>2, <2>3 DEF SonosStays
    <3>2. x.sonos.discoveryId # NoId
      BY <1>1, <3>1 DEF Consistent, SonosOK, SonosInvariant
    <3> QED
      BY <1>6, <2>2, <3>1, <3>2 DEF Steady, JobOK, GenerationHeld, Follows
  <2> QED
    BY <2>1, <2>2, <2>4, JobsInFlight DEF Steady, d
<1>7. CASE /\ ~unreported /\ ~(~input.sessionOk /\ input.transportFailed)
           /\ input.targetUsable /\ input.sessionOk
  <2>1. d = well
    BY <1>7 DEF ReportHealth
  <2>2. r.fx = {} /\ r.sonos.state = x.sonos.state /\ r.sonos.left = x.sonos.left
    BY <1>1 DEF SonosSessionSucceeded, SonosStays, Consistent, SonosOK, SonosType
  <2>3. SonosResultOK(r) /\ GenerationMoves(x.sonos, r)
    BY <1>2
  <2> HIDE DEF r
  <2>4. /\ InFlight(well) /\ SameJobs(x, well) /\ well.sonos = r.sonos
        /\ well.display = x.display /\ well.completion = x.completion /\ Consistent(well)
    BY <1>1, <2>3, SonosEventInFlight, SonosEventKeeps
  <2>5. well.discoveryPending = x.discoveryPending
    BY <1>1, <2>2, <2>3, SonosEventLeavesJobs
  <2> HIDE DEF well, d
  <2> QED
    BY <1>1, <1>4, <1>7, <2>1, <2>2, <2>4, <2>5
    DEF Follows, Subdued, SameJobs, NothingNew, d
<1>8. CASE /\ ~unreported /\ ~(input.targetUsable /\ ~input.sessionOk /\ input.transportFailed)
           /\ ~(input.targetUsable /\ input.sessionOk)
  <2>1. d = x
    BY <1>8 DEF ReportHealth
  <2> HIDE DEF d
  <2> QED
    BY <1>1, <1>4, <1>8, <2>1 DEF Follows, Subdued, NothingNew, d
<1> QED
  BY <1>5, <1>6, <1>7, <1>8

\* A finished job ends under its own name or is only counted; a preempted one
\* is forgotten; whatever it was doing, it leaves no word "pending" that its
\* passed deadline should have replaced.
LEMMA FinishJobHeld ==
    ASSUME NEW x, CoordinatorOK(x), JobOK(x), NEW jobId \in Nat \ {NoId}, NEW input
    PROVE  LET done == FinishJob(x, jobId, input)
           IN  FinishedAs(x, done.c, jobId, done.finish)
<1> DEFINE e == ExpireWorker(x)
           h == ReportHealth(e, input)
           outcome == IF input.targetUsable /\ input.sessionOk THEN "Success" ELSE "Failure"
           done == FinishJob(x, jobId, input)
<1>1. Steady(x, e) /\ CoordinatorOK(e) /\ (e.worker.running => x.worker.left > 0)
  BY ExpireWorkerSteady
<1>2. outcome \in {"Success", "Failure"} /\ outcome \in Outcomes
  BY DEF Outcomes
<1> HIDE DEF e, outcome
<1>3. /\ Consistent(e) /\ e.completion = NoCompletion /\ InFlight(e) /\ e \in CoordinatorType
      /\ Delivered(e) /\ JobOK(e)
  BY <1>1, NothingUnanswered, JobsInFlight DEF Consistent, Steady, CoordinatorOK
<1>4. e.display.status = "pending" =>
          x.display.status = "pending" /\ (x.worker.running => x.worker.left > 0)
  BY <1>1 DEF Steady, Follows
<1>4a. (x.worker.running => x.worker.left > 0) => e = x
  BY NothingExpires DEF e
<1>5. CASE e.worker.running /\ e.worker.jobId = jobId
  <2>1. /\ Consistent(h) /\ InFlight(h) /\ h.completion = NoCompletion
        /\ h.worker = e.worker /\ Follows(e, h) /\ Subdued(e, h)
        /\ h.sonos.state = "Discovering" /\ h.sonos.left > 0 => h.discoveryPending
    BY <1>1, <1>3, <1>5, ReportHealthHeld
  <2>2. PICK owes \in BOOLEAN : owes = FailureOwesRead(h, input)
    BY Zenon DEF FailureOwesRead
  <2> DEFINE w == WorkerResult(h.worker, jobId, outcome)
             z == WorkerEvent(h, w)
             d == ApplyFacts(z, owes)
  <2>3. done = [c |-> d, finish |-> "Accepted"]
    BY <1>5, <2>2 DEF FinishJob, FinishExpired, EndRunningJob, ReportResult, e, outcome
  <2> HIDE DEF h, done
  <2>4. w = FinishWorker(h.worker, outcome) /\ h.worker.running
    BY <1>5, <2>1 DEF WorkerResult
  <2>5. WorkerResultOK(w)
    <3>1. /\ WorkerOK(h.worker) /\ "user" \in Origins /\ 1 \in Nat
      BY <2>1 DEF Consistent, Origins
    <3> QED
      BY <1>2, <3>1, WorkerHandlers, Zenon
  <2>6. w.worker = IdleWorker /\ w.ended = [id |-> h.worker.jobId, outcome |-> outcome]
    BY <2>4 DEF FinishWorker
  <2> HIDE DEF w
  <2>7. /\ InFlight(z) /\ Subdued(h, z) /\ z.worker = w.worker
        /\ z.completion = w.ended /\ z.display = h.display
        /\ z.preemptedJobs = h.preemptedJobs
        /\ z.workerDiscoveryId = h.workerDiscoveryId
        /\ z.discoveryResultReceived = h.discoveryResultReceived
    BY <1>2, <2>1, <2>4, WorkerEventInFlight
  <2>8. Consistent(z)
    BY <2>1, <2>5, WorkerEventKeeps
  <2> HIDE DEF z
  <2>9. ~Unanswered(z)
    BY <1>2, <2>6, <2>7 DEF Unanswered
  <2>10. JobOK(d) /\ d.worker = z.worker /\ Follows(z, d) /\ Subdued(z, d)
    BY <2>7, <2>8, <2>9, FactsKeepJobs
  <2> HIDE DEF d
  <2>11. ~d.worker.running
    BY <2>6, <2>7, <2>10 DEF IdleWorker
  <2>12. d.display.status = "pending" => e.display.status = "pending"
    BY <2>1, <2>7, <2>10 DEF Follows
  <2>13. /\ d.preemptedJobs = x.preemptedJobs
         /\ d.workerDiscoveryId = x.workerDiscoveryId
         /\ d.discoveryResultReceived = x.discoveryResultReceived
    BY <1>1, <2>1, <2>7, <2>10 DEF Follows, Steady
  <2>14. x.worker.running /\ x.worker.jobId = jobId /\ x.worker.left > 0
    BY <1>1, <1>5 DEF Steady, Follows
  <2>15. Subdued(x, d)
    BY <1>1, <2>1, <2>7, <2>10, SubduedTransitive DEF Steady
  <2> QED
    BY <1>4, <2>3, <2>10, <2>11, <2>12, <2>13, <2>14, <2>15 DEF FinishedAs, done
<1>6. CASE ~(e.worker.running /\ e.worker.jobId = jobId) /\ jobId \in e.preemptedJobs
  <2> DEFINE d == ErasePreempted(e, jobId)
  <2>1. done = [c |-> d, finish |-> "Preempted"]
    BY <1>6 DEF FinishJob, FinishExpired, e
  <2>2. /\ d.worker = e.worker /\ d.sonos = e.sonos /\ d.display = e.display
        /\ d.discoveryPending = e.discoveryPending
        /\ d.preemptedJobs = e.preemptedJobs \ {jobId}
        /\ d.workerDiscoveryId = e.workerDiscoveryId /\ d.jobRefresh = e.jobRefresh
        /\ d.discoveryResultReceived = e.discoveryResultReceived
    BY <1>3 DEF ErasePreempted, CoordinatorType
  <2>2a. d = [e EXCEPT !.preemptedJobs = d.preemptedJobs] /\ d.wifi = e.wifi
    BY <1>3 DEF ErasePreempted, CoordinatorType
  <2> HIDE DEF d, done
  <2>3. JobOK(d)
    BY <1>3, <2>2 DEF JobOK, PendingOwned, GenerationHeld, ReadyByOwnRead
  <2>4. jobId \notin d.preemptedJobs
    BY <2>2
  <2>5. Subdued(x, d)
    <3>1. Subdued(e, d)
      BY <2>2, <2>2a DEF Subdued, NothingNew
    <3> QED
      BY <1>1, <3>1, SubduedTransitive DEF Steady
  <2>6. (x.worker.running => x.worker.left > 0) => d = [x EXCEPT !.preemptedJobs = d.preemptedJobs]
    BY <1>4a, <2>2a
  <2> QED
    BY <1>1, <1>4, <1>6, <2>1, <2>2, <2>3, <2>4, <2>5, <2>6 DEF FinishedAs, Steady, Follows, done
<1>7. CASE ~(e.worker.running /\ e.worker.jobId = jobId) /\ jobId \notin e.preemptedJobs
  <2> DEFINE d == ReportResult(e, jobId, input, TRUE)
  <2>1. done = [c |-> d, finish |-> "Cancelled"]
    BY <1>7 DEF FinishJob, FinishExpired, e
  <2>2. WorkerResult(e.worker, jobId, outcome) = WorkerStays(e.worker)
    BY <1>7 DEF WorkerResult
  <2>3. WorkerEvent(e, WorkerStays(e.worker)) = e
    BY <1>3 DEF WorkerEvent, WorkerStays, CoordinatorType
  <2>4. d = e
    BY <1>3, <2>2, <2>3, NothingRecorded DEF ReportResult, outcome
  <2>5. e = [e EXCEPT !.preemptedJobs = e.preemptedJobs]
    BY <1>3 DEF CoordinatorType
  <2> HIDE DEF d, done
  <2> QED
    BY <1>1, <1>3, <1>4, <1>4a, <1>7, <2>1, <2>4, <2>5 DEF FinishedAs, Steady, Follows, done
<1> QED
  BY <1>5, <1>6, <1>7

\* A publication is of the active job and of the room shown; it concerns
\* neither jobs nor generations.
LEMMA PublishHeld ==
    ASSUME NEW x, CoordinatorOK(x), JobOK(x), NEW jobId, NEW room, NEW state, NEW shown, NEW stopping
    PROVE  LET d == Publish(x, jobId, room, state, shown, stopping)
           IN  /\ JobOK(d) /\ SameJobs(x, d) /\ d.sonos = x.sonos
               /\ \/ d = x
                  \/ /\ RuntimeJobActive(x.worker, jobId, stopping) /\ room = shown
                     /\ d.display.status = state.status
               /\ RuntimeJobActive(x.worker, jobId, stopping) /\ room = shown
                     => d.display.status = state.status
<1> DEFINE display == Displayed(state, room, x.display.pending)
           d == [x EXCEPT !.display = display]
           got == Publish(x, jobId, room, state, shown, stopping)
<1>1. display.pending = x.display.pending /\ display.status = state.status
  BY DEF Displayed
<1>2. \/ got = x /\ ~(RuntimeJobActive(x.worker, jobId, stopping) /\ room = shown)
      \/ got = d /\ RuntimeJobActive(x.worker, jobId, stopping) /\ room = shown
  BY DEF Publish
<1> HIDE DEF display, got
<1>3. /\ SameJobs(x, d) /\ d.sonos = x.sonos /\ d.discoveryPending = x.discoveryPending
      /\ d.display = display
  BY DEF CoordinatorOK, Open, Consistent, CoordinatorType, SameJobs
<1> HIDE DEF d
<1>4. JobOK(d)
  BY <1>1, <1>3 DEF SameJobs, JobOK, PendingOwned, GenerationHeld, ReadyByOwnRead
<1> QED
  BY <1>1, <1>2, <1>3, <1>4 DEF SameJobs, got

\* Another room starts without pending values and without the word "pending".
LEMMA SelectObservedRoomHeld ==
    ASSUME NEW x, CoordinatorOK(x), JobOK(x), NEW room
    PROVE  LET d == SelectObservedRoom(x, room)
           IN  /\ Held(x, d) /\ SameJobs(x, d) /\ d.sonos = x.sonos
               /\ d.reconciliationPending = x.reconciliationPending
               /\ d = x \/ (d.display.target = room /\ x.display.target # room
                              /\ d.display.status = "idle")
<1> DEFINE display == Displayed(NewAppState, room, NoId)
           d == [x EXCEPT !.display = display]
           got == SelectObservedRoom(x, room)
<1>1. display.pending = NoId /\ display.status = "idle" /\ display.target = room
  BY DEF Displayed, NewAppState
<1>2. got = x \/ (got = d /\ x.display.target # room)
  BY DEF SelectObservedRoom
<1> HIDE DEF display, got
<1>3. /\ SameJobs(x, d) /\ d.sonos = x.sonos /\ d.discoveryPending = x.discoveryPending
      /\ d.display = display /\ d.reconciliationPending = x.reconciliationPending
  BY DEF CoordinatorOK, Open, Consistent, CoordinatorType, SameJobs
<1> HIDE DEF d
<1>4. Held(x, d) /\ Held(x, x)
  BY <1>1, <1>3, EditedHeld DEF Held, Follows
<1> QED
  BY <1>1, <1>2, <1>3, <1>4 DEF SameJobs, got

\* Whatever becomes of a SUBSCRIBE request, it is steady.
LEMMA SubscriptionResultSteady ==
    ASSUME NEW x, CoordinatorOK(x), JobOK(x), NEW id \in Nat, NEW ok \in BOOLEAN,
           NEW sid \in Sids \cup {NoSid}, NEW lease \in Nat
    PROVE  Steady(x, SubscriptionResult(x, id, ok, sid, lease))
<1> DEFINE r == IF ok THEN SubRequestSucceeded(x.subscription, id, sid, lease)
                      ELSE SubRequestFailed(x.subscription, id)
<1>1. /\ Consistent(x) /\ x.completion = NoCompletion /\ InFlight(x) /\ SubOK(x.subscription)
      /\ 1 \in Nat \ {NoId} /\ NoHost \in Hosts \cup {NoHost}
  BY NothingUnanswered, JobsInFlight DEF Consistent
<1>2. SubResultOK(r)
  <2>1. /\ SubResultOK(SubRequestSucceeded(x.subscription, id, sid, lease))
        /\ SubResultOK(SubRequestFailed(x.subscription, id))
    BY <1>1, SubscriptionHandlers, Zenon
  <2> QED
    BY <2>1
<1>3. SubscriptionResult(x, id, ok, sid, lease) = ApplyFacts(SubscriptionEvent(x, r), TRUE)
  BY DEF SubscriptionResult
<1> HIDE DEF r
<1> QED
  BY <1>1, <1>2, <1>3, SubscriptionSteady

\* A NOTIFY is steady.
LEMMA NotifySteady ==
    ASSUME NEW x, CoordinatorOK(x), JobOK(x), NEW sid \in Sids \cup {NoSid}, NEW stopping
    PROVE  Steady(x, Notify(x, sid, stopping))
<1> DEFINE r == SubNotifyReceived(x.subscription, sid)
<1>1. /\ Consistent(x) /\ x.completion = NoCompletion /\ InFlight(x) /\ SubOK(x.subscription)
      /\ 1 \in Nat \ {NoId} /\ 1 \in Nat /\ NoHost \in Hosts \cup {NoHost}
  BY NothingUnanswered, JobsInFlight DEF Consistent
<1>2. SubResultOK(r)
  BY <1>1, SubscriptionHandlers, Zenon
<1>3. Notify(x, sid, stopping) \in {x, ApplyFacts(SubscriptionEvent(x, r), TRUE)}
  BY DEF Notify
<1> HIDE DEF r
<1>4. Steady(x, x)
  BY DEF Steady, Follows, Subdued, NothingNew
<1> QED
  BY <1>1, <1>2, <1>3, <1>4, SubscriptionSteady

------------------------------------------------------------------------------
(* The tasks *)

\* The last job is one of those the tasks hold.
LEMMA LastJobHeld ==
    ASSUME IInv, JobsHeld
    PROVE  /\ LastJob.id \in QueuedIds \cup {hand.job.id}
           /\ LastJob.id = hand.job.id /\ LastJob.id # NoId => queue = <<>>
           /\ queue # <<>> => LastJob = queue[Len(queue)] /\ Len(queue) \in DOMAIN queue
           /\ ~IsRead(LastJob) => LastJob.origin = "user"
<1>1. queue \in Seq(JobType) /\ QueuedOK /\ InHandOK
  BY DEF IInv, TasksOK, JobsHeld
<1>2. CASE queue = <<>>
  BY <1>1, <1>2 DEF LastJob, InHandOK
<1>3. CASE queue # <<>>
  <2>1. Len(queue) \in Nat \ {0} /\ Len(queue) \in DOMAIN queue
    BY <1>1, <1>3
  <2>2. LastJob = queue[Len(queue)]
    BY <1>3 DEF LastJob
  <2>3. queue[Len(queue)].id \in QueuedIds
    BY <2>1 DEF QueuedIds
  <2> QED
    BY <1>1, <1>3, <2>1, <2>2, <2>3 DEF QueuedOK
<1> QED
  BY <1>2, <1>3

\* The job that is active is the one in hand, and nothing is queued behind it.
LEMMA ActiveInHand ==
    ASSUME IInv, JobsHeld, c.worker.running, c.worker.jobId = hand.job.id
    PROVE  queue = <<>> /\ Working
<1>1. LastJobRuns /\ InHandOK
  BY DEF JobsHeld
<1>2. LastJob.id = hand.job.id /\ LastJob.id # NoId
  BY <1>1 DEF LastJobRuns
<1>3. NoJob.id = NoId
  BY DEF NoJob
<1> QED
  BY <1>1, <1>2, <1>3, LastJobHeld DEF InHandOK

\* A display that says "pending" speaks of a user's job.
LEMMA PendingIsUsers ==
    ASSUME IInv, JobsHeld, ~Stopping, c.display.status = "pending"
    PROVE  c.worker.running /\ c.worker.origin = "user" /\ queue = <<>>
<1>1. PendingStatusOK /\ LastJobRuns /\ InHandOK
  BY DEF JobsHeld
<1>2. c.worker.running /\ queue = <<>> /\ ~IsRead(hand.job)
  BY <1>1 DEF PendingStatusOK
<1> QED
  BY <1>1, <1>2 DEF LastJobRuns, LastJob, InHandOK

\* An idle worker holds no identity.
LEMMA IdleHoldsNothing ==
    ASSUME NEW x, CoordinatorOK(x), ~x.worker.running
    PROVE  x.worker.jobId = NoId
BY DEF CoordinatorOK, Open, Consistent, WorkerOK, IdleWorker

\* Calls beside the job in hand account for jobs as before.
LEMMA CallsBesideJobs ==
    ASSUME IInv, JobsHeld, CoordinatorOK(c'), Held(c, c'),
           UNCHANGED <<queue, hand, sessions, selected>>, Stopping => Stopping'
    PROVE  JobsHeld'
<1>1. /\ JobOK(c)' /\ (c'.worker = c.worker \/ ~c'.worker.running)
      /\ c'.preemptedJobs = c.preemptedJobs /\ c'.workerDiscoveryId = c.workerDiscoveryId
      /\ c'.discoveryResultReceived = c.discoveryResultReceived
      /\ c'.display.status = "pending" => c.display.status = "pending" /\ c'.worker = c.worker
  BY DEF Held, Follows
<1>2. QueuedOK' /\ InHandOK' /\ SessionsOK' /\ DoubtKept'
  BY DEF JobsHeld, QueuedOK, InHandOK, SessionsOK, DoubtKept, Working
<1>3. LastJobRuns' /\ BoundAsTold'
  BY <1>1 DEF JobsHeld, LastJobRuns, LastJob, BoundAsTold
<1>4. PreemptedOK'
  BY <1>1, IdleHoldsNothing DEF JobsHeld, PreemptedOK, PreemptedJobsHeld, QueuedIds
<1>5. PendingStatusOK'
  BY <1>1 DEF JobsHeld, PendingStatusOK
<1> QED
  BY <1>1, <1>2, <1>3, <1>4, <1>5 DEF JobsHeld

\* A call that changes nothing holds.
LEMMA HeldItself ==
    ASSUME NEW x, JobOK(x)
    PROVE  Held(x, x)
BY DEF Held, Follows

\* Fields that say nothing of jobs may be written.
LEMMA WrittenHeld ==
    ASSUME NEW x, CoordinatorOK(x), JobOK(x)
    PROVE  /\ Held(x, [x EXCEPT !.connect = FALSE])
           /\ Held(x, [x EXCEPT !.connect = FALSE, !.reconciliationPending = TRUE])
           /\ Held(x, [x EXCEPT !.request = NoId])
           /\ Held(x, [x EXCEPT !.display.stale = TRUE])
<1>1. x \in CoordinatorType
  BY DEF CoordinatorOK, Open, Consistent
<1>2. \A d : /\ SameJobs(x, d) /\ d.sonos = x.sonos /\ d.discoveryPending = x.discoveryPending
             /\ d.display.pending = x.display.pending /\ d.display.status = x.display.status
             => Held(x, d)
  BY EditedHeld
<1>3. Held(x, [x EXCEPT !.connect = FALSE])
  <2> DEFINE d == [x EXCEPT !.connect = FALSE]
  <2>1. /\ SameJobs(x, d) /\ d.sonos = x.sonos /\ d.discoveryPending = x.discoveryPending
        /\ d.display = x.display
    BY <1>1 DEF CoordinatorType, SameJobs
  <2> HIDE DEF d
  <2>2. Held(x, d)
    BY <1>2, <2>1
  <2> QED
    BY <2>2 DEF d
<1>4. Held(x, [x EXCEPT !.connect = FALSE, !.reconciliationPending = TRUE])
  <2> DEFINE d == [x EXCEPT !.connect = FALSE, !.reconciliationPending = TRUE]
  <2>1. /\ SameJobs(x, d) /\ d.sonos = x.sonos /\ d.discoveryPending = x.discoveryPending
        /\ d.display = x.display
    BY <1>1 DEF CoordinatorType, SameJobs
  <2> HIDE DEF d
  <2>2. Held(x, d)
    BY <1>2, <2>1
  <2> QED
    BY <2>2 DEF d
<1>5. Held(x, [x EXCEPT !.request = NoId])
  <2> DEFINE d == [x EXCEPT !.request = NoId]
  <2>1. /\ SameJobs(x, d) /\ d.sonos = x.sonos /\ d.discoveryPending = x.discoveryPending
        /\ d.display = x.display
    BY <1>1 DEF CoordinatorType, SameJobs
  <2> HIDE DEF d
  <2>2. Held(x, d)
    BY <1>2, <2>1
  <2> QED
    BY <2>2 DEF d
<1>6. Held(x, [x EXCEPT !.display.stale = TRUE])
  <2> DEFINE d == [x EXCEPT !.display.stale = TRUE]
  <2>1. /\ SameJobs(x, d) /\ d.sonos = x.sonos /\ d.discoveryPending = x.discoveryPending
        /\ d.display.pending = x.display.pending /\ d.display.status = x.display.status
    BY <1>1 DEF CoordinatorType, SameJobs, DisplayType
  <2> HIDE DEF d
  <2>2. Held(x, d)
    BY <1>2, <2>1
  <2> QED
    BY <2>2 DEF d
<1> QED
  BY <1>3, <1>4, <1>5, <1>6

\* Starting the device, servicing the lifecycles and the radio, and stopping
\* neither start, preempt nor answer a job.
LEMMA DeviceHeld ==
    ASSUME IInv, JobsHeld, Boot \/ MainService \/ MainServiceWifi \/ PowerOff \/ MainShutdown
    PROVE  Held(c, c')
<1>1. CoordinatorOK(c) /\ JobOK(c)
  BY DEF IInv, JobsHeld
<1>2. CASE Boot
  <2>1. PICK f \in FreshIds, configured \in BOOLEAN :
            c' = [ServiceWifi(IF configured THEN ConfigAvailable(c, f) ELSE c, FALSE, f)
                     EXCEPT !.connect = FALSE, !.reconciliationPending = TRUE]
    BY <1>2 DEF Boot
  <2> DEFINE started == IF configured THEN ConfigAvailable(c, f) ELSE c
             serviced == ServiceWifi(started, FALSE, f)
  <2>2. FreshOK(f) /\ FALSE \in BOOLEAN
    BY FreshIdsOK
  <2>3. CoordinatorOK(started) /\ Held(c, started)
    <3>1. CoordinatorOK(ConfigAvailable(c, f)) /\ Held(c, ConfigAvailable(c, f)) /\ Held(c, c)
      BY <1>1, <2>2, ConfigAvailableSound, ConfigAvailableHeld, HeldItself DEF Sound
    <3> QED
      BY <1>1, <3>1
  <2> HIDE DEF started
  <2>4. CoordinatorOK(serviced) /\ Held(started, serviced)
    BY <2>2, <2>3, ServiceWifiSound, ServiceWifiHeld DEF Held, Sound
  <2>5. c' = [serviced EXCEPT !.connect = FALSE, !.reconciliationPending = TRUE]
    BY <2>1 DEF started
  <2> HIDE DEF serviced
  <2>6. Held(serviced, c')
    BY <2>4, <2>5, WrittenHeld DEF Held
  <2> QED
    BY <2>3, <2>4, <2>6, FollowsTransitive DEF Held
<1>3. CASE MainService
  BY <1>1, <1>3, FreshIdsOK, ServiceSteady DEF MainService, Steady, Held
<1>4. CASE MainServiceWifi
  <2>1. PICK f \in FreshIds, online \in RadioReports :
            c' = [ServiceWifi(c, online, f) EXCEPT !.connect = FALSE]
    BY <1>4 DEF MainServiceWifi
  <2> DEFINE serviced == ServiceWifi(c, online, f)
  <2>2. CoordinatorOK(serviced) /\ Held(c, serviced)
    BY <1>1, FreshIdsOK, ServiceWifiSound, ServiceWifiHeld, RuntimeTaskAssumption DEF Sound
  <2> HIDE DEF serviced
  <2>3. Held(serviced, c')
    BY <2>1, <2>2, WrittenHeld DEF Held, serviced
  <2> QED
    BY <2>2, <2>3, FollowsTransitive DEF Held
<1>5. CASE PowerOff
  BY <1>1, <1>5, HeldItself DEF PowerOff
<1>6. CASE MainShutdown
  BY <1>1, <1>6, ShutdownHeld DEF MainShutdown, Steady, Held
<1> QED
  BY <1>2, <1>3, <1>4, <1>5, <1>6

\* They account for jobs as before.
LEMMA DeviceJobs ==
    ASSUME IInv, IInv', JobsHeld,
           Boot \/ MainService \/ MainServiceWifi \/ PowerOff \/ MainShutdown
    PROVE  JobsHeld'
<1>1. CoordinatorOK(c') /\ Held(c, c')
  BY DeviceHeld DEF IInv
<1>2. UNCHANGED <<queue, hand, sessions, selected>> /\ (Stopping => Stopping')
  BY DEF Boot, MainService, MainServiceWifi, PowerOff, MainShutdown, selection, Stopping
<1> QED
  BY <1>1, <1>2, CallsBesideJobs

\* A read preempted for maintenance is remembered while its task holds it.
LEMMA MaintenanceJobs ==
    ASSUME IInv, IInv', JobsHeld, Maintenance
    PROVE  JobsHeld'
<1>1. CoordinatorOK(c) /\ CoordinatorOK(c') /\ JobOK(c)
  BY DEF IInv, JobsHeld
<1>2. UNCHANGED <<queue, hand, sessions, selected>> /\ ~Stopping
  BY DEF Maintenance, selection, Stopping
<1>3. CASE Held(c, c') /\ (Stopping => Stopping')
  BY <1>1, <1>2, <1>3, CallsBesideJobs
<1>4. CASE PreemptedFrom(c, c')
  <2>1. /\ JobOK(c)' /\ ~c'.worker.running
        /\ c'.preemptedJobs = c.preemptedJobs \cup {c.worker.jobId}
        /\ c.worker.running /\ c.worker.origin = "automatic"
        /\ c'.display.status = c.display.status
    BY <1>1, <1>4 DEF PreemptedFrom, CoordinatorOK, Open, Consistent, CoordinatorType, DisplayType
  <2>2. QueuedOK' /\ InHandOK' /\ SessionsOK' /\ DoubtKept'
    BY <1>2 DEF JobsHeld, QueuedOK, InHandOK, SessionsOK, DoubtKept, Working
  <2>3. LastJobRuns' /\ BoundAsTold'
    BY <2>1 DEF LastJobRuns, BoundAsTold
  <2>4. PreemptedOK'
    <3>1. c.worker.jobId \in QueuedIds \cup {hand.job.id} /\ c.worker.jobId # NoId
      BY <2>1, LastJobHeld DEF JobsHeld, LastJobRuns
    <3>2. c'.worker.jobId = NoId
      BY <1>1, <2>1, IdleHoldsNothing
    <3> QED
      BY <1>2, <2>1, <3>1, <3>2 DEF JobsHeld, PreemptedOK, PreemptedJobsHeld, QueuedIds
  <2>5. PendingStatusOK'
    BY <1>2, <2>1, PendingIsUsers DEF PendingStatusOK
  <2> QED
    BY <2>1, <2>2, <2>3, <2>4, <2>5 DEF JobsHeld
<1>5. PreemptedFrom(c, c') \/ Held(c, c')
  <2>1. CASE c.worker.running
    BY <1>1, <2>1, PreemptAutomaticHeld DEF Maintenance, Steady, Held
  <2>2. CASE ~c.worker.running
    BY <1>1, <2>2, HeldItself DEF Maintenance
  <2> QED
    BY <2>1, <2>2
<1> QED
  BY <1>2, <1>3, <1>4, <1>5

\* A job with a fresh identity that is queued, and runs, is accounted for.
LEMMA JobCommitted ==
    ASSUME IInv, JobsHeld, CoordinatorOK(c'), ~Stopping,
           NEW s, CoordinatorOK(s), Follows(c, s),
           NEW d, NEW id \in FreshIn(JobIds, JobIdsHeld), NEW job \in JobType, job.id = id,
           Committed(s, d, id, job.origin), ~IsRead(job) => job.origin = "user",
           ~s.worker.running \/ s.worker.origin = "automatic",
           Held(d, c'), SameJobs(d, c'),
           queue' = Append(queue, job), hand' = hand, sessions' = sessions
    PROVE  JobsHeld'
<1>1. queue \in Seq(JobType) /\ queue' \in Seq(JobType) /\ Len(queue') = Len(queue) + 1
      /\ Len(queue) \in Nat
      /\ (\A i \in DOMAIN queue : queue'[i] = queue[i] /\ i \in DOMAIN queue')
      /\ queue'[Len(queue')] = job /\ queue' # <<>> /\ Len(queue') \in DOMAIN queue'
      /\ \A i \in DOMAIN queue' : i \in DOMAIN queue \/ i = Len(queue')
  BY DEF IInv, TasksOK
<1>2. /\ id # NoId /\ id \notin QueuedIds /\ id \notin c.preemptedJobs
      /\ id # c.worker.jobId /\ id # hand.job.id
  BY RuntimeTaskAssumption DEF FreshIn, JobIdsHeld
<1>3. /\ JobOK(c)' /\ c'.worker.running /\ c'.worker.jobId = id /\ c'.worker.origin = job.origin
      /\ ~c'.discoveryResultReceived
      /\ c'.display.status = "pending" => s.display.status = "pending"
      /\ \/ c'.preemptedJobs = c.preemptedJobs
         \/ /\ c'.preemptedJobs = c.preemptedJobs \cup {c.worker.jobId} /\ c.worker.running
  <2>1. s.worker.running => s.worker = c.worker
    BY DEF Follows
  <2> QED
    BY <2>1 DEF Committed, Held, Follows, SameJobs
<1>4. QueuedOK'
  <2>1. \A i \in DOMAIN queue : queue[i].id # id
    BY <1>2 DEF QueuedIds
  <2>2. \A i \in DOMAIN queue' :
            queue'[i].id # NoId /\ queue'[i].id # hand'.job.id
            /\ (~IsRead(queue'[i]) => queue'[i].origin = "user")
    BY <1>1, <1>2 DEF JobsHeld, QueuedOK
  <2>3. \A i, j \in DOMAIN queue' : i # j => queue'[i].id # queue'[j].id
    BY <1>1, <2>1 DEF JobsHeld, QueuedOK
  <2> QED
    BY <2>2, <2>3 DEF QueuedOK
<1>5. InHandOK' /\ SessionsOK' /\ DoubtKept'
  BY DEF JobsHeld, InHandOK, SessionsOK, DoubtKept, Working
<1>6. LastJobRuns' /\ BoundAsTold'
  BY <1>1, <1>2, <1>3 DEF LastJobRuns, LastJob, BoundAsTold
<1>7. PreemptedOK'
  <2>1. QueuedIds \subseteq QueuedIds'
    BY <1>1 DEF QueuedIds
  <2>2. c.worker.running => c.worker.jobId \in QueuedIds \cup {hand.job.id} /\ c.worker.jobId # NoId
    BY LastJobHeld DEF JobsHeld, LastJobRuns
  <2> QED
    BY <1>2, <1>3, <2>1, <2>2 DEF JobsHeld, PreemptedOK, PreemptedJobsHeld
<1>8. PendingStatusOK'
  <2>1. s.display.status # "pending"
    <3> SUFFICES ASSUME s.display.status = "pending" PROVE FALSE
      OBVIOUS
    <3>1. c.display.status = "pending" /\ s.worker = c.worker
      BY DEF Follows
    <3>2. c.worker.running /\ c.worker.origin = "user"
      BY <3>1, PendingIsUsers
    <3> QED
      BY <3>1, <3>2
  <2> QED
    BY <1>3, <2>1 DEF PendingStatusOK
<1> QED
  BY <1>3, <1>4, <1>5, <1>6, <1>7, <1>8 DEF JobsHeld

\* Admitted input and automatic reads are accounted for.
LEMMA AdmissionJobs ==
    ASSUME IInv, IInv', JobsHeld, UserInput \/ AutomaticJob
    PROVE  JobsHeld'
<1>1. CoordinatorOK(c) /\ CoordinatorOK(c') /\ JobOK(c)
  BY DEF IInv, JobsHeld
<1>2. \A used : FreshIn(JobIds, used) \subseteq Nat \ {NoId}
  BY RuntimeTaskAssumption DEF FreshIn
<1>3. CASE UserInput
  <2>1. PICK kind \in UserKinds, room \in Rooms \cup {NoRoom} : UserJob(kind, room)
    BY <1>3 DEF UserInput
  <2>2. PICK f \in FreshIds, id \in FreshIn(JobIds, JobIdsHeld) :
            AcceptUserJob(Service(c, f), id, kind, room)
    BY <2>1 DEF UserJob
  <2> DEFINE s == Service(c, f)
             refresh == kind # "mutation"
             job == [id |-> id, kind |-> kind, origin |-> "user", room |-> room]
             d == CommitJob(s, id, refresh, "user")
  <2>3. id \in Nat \ {NoId} /\ FreshOK(f) /\ refresh \in BOOLEAN /\ "user" \in Origins
    BY <1>2, FreshIdsOK DEF Origins
  <2>4. CoordinatorOK(s) /\ Steady(c, s)
    BY <1>1, <2>3, ServiceSteady
  <2>5. /\ Admitted(s, refresh, "user", FALSE)
        /\ queue' = Append(queue, job)
        /\ c' = IF kind = "select" THEN SelectObservedRoom(d, room) ELSE d
    BY <2>2 DEF AcceptUserJob
  <2> HIDE DEF s
  <2>6. Committed(s, d, id, "user") /\ CoordinatorOK(d)
    BY <2>3, <2>4, <2>5, CommitJobHeld, CommitJobSound DEF Sound, Steady
  <2>7. ~s.worker.running \/ s.worker.origin = "automatic"
    BY <2>5 DEF Admitted, Preemptable
  <2> HIDE DEF d, refresh
  <2>8. Held(d, c') /\ SameJobs(d, c')
    <3>1. JobOK(d)
      BY <2>6 DEF Committed
    <3>2. Held(d, d) /\ SameJobs(d, d)
      BY <3>1, HeldItself DEF SameJobs
    <3> QED
      BY <2>5, <2>6, <3>1, <3>2, SelectObservedRoomHeld
  <2>9. job \in JobType /\ job.id = id /\ job.origin = "user"
    BY <2>3, RuntimeTaskAssumption DEF JobType
  <2>10. ~Stopping /\ hand' = hand /\ sessions' = sessions
    BY <2>1 DEF UserJob, Stopping
  <2> HIDE DEF job
  <2> QED
    BY <1>1, <2>4, <2>5, <2>6, <2>7, <2>8, <2>9, <2>10, JobCommitted DEF Steady
<1>4. CASE AutomaticJob
  <2>1. PICK f \in FreshIds, id \in FreshIn(JobIds, JobIdsHeld) :
            /\ AutomaticJobDue(Service(c, f), FALSE)
            /\ QueueAutomaticJob(TakeAutomaticTurn(Service(c, f)), id)
    BY <1>4 DEF AutomaticJob
  <2> DEFINE s == Service(c, f)
             t == TakeAutomaticTurn(s)
             job == [id |-> id, kind |-> "refresh", origin |-> "automatic", room |-> NoRoom]
             d == CommitJob(t, id, TRUE, "automatic")
  <2>2. id \in Nat \ {NoId} /\ FreshOK(f) /\ TRUE \in BOOLEAN /\ "automatic" \in Origins
    BY <1>2, FreshIdsOK DEF Origins
  <2>3. CoordinatorOK(s) /\ Steady(c, s) /\ ~s.worker.running
    BY <1>1, <2>1, <2>2, ServiceSteady DEF AutomaticJobDue
  <2>4. \/ /\ Admitted(t, TRUE, "automatic", FALSE) /\ c' = d /\ queue' = Append(queue, job)
        \/ c' = t /\ UNCHANGED queue
    BY <2>1 DEF QueueAutomaticJob
  <2> HIDE DEF s
  <2>5. CoordinatorOK(t) /\ Held(s, t) /\ t.worker = s.worker
    BY <2>3, TakeAutomaticTurnSound, TakeAutomaticTurnHeld DEF Sound, Steady
  <2> HIDE DEF t
  <2>6. Held(c, t)
    BY <2>3, <2>5, FollowsTransitive DEF Steady, Held
  <2>7. ~Stopping /\ hand' = hand /\ sessions' = sessions /\ selected' = selected
    BY <1>4 DEF AutomaticJob, Stopping, selection
  <2>8. CASE c' = t /\ UNCHANGED queue
    BY <1>1, <2>6, <2>7, <2>8, CallsBesideJobs
  <2>9. CASE /\ Admitted(t, TRUE, "automatic", FALSE) /\ c' = d /\ queue' = Append(queue, job)
    <3>1. Committed(t, d, id, "automatic")
      BY <2>2, <2>5, <2>9, CommitJobHeld DEF Held
    <3>2. Held(d, c') /\ SameJobs(d, c')
      BY <2>9, <3>1, HeldItself DEF SameJobs, Committed
    <3>3. job \in JobType /\ job.id = id /\ job.origin = "automatic" /\ IsRead(job)
      BY <2>2 DEF JobType, IsRead
    <3> HIDE DEF d, job
    <3> QED
      BY <1>1, <2>3, <2>5, <2>6, <2>7, <2>9, <3>1, <3>2, <3>3, JobCommitted DEF Held
  <2> QED
    BY <2>4, <2>8, <2>9
<1> QED
  BY <1>3, <1>4

\* Between two jobs the task may hold a request, or nothing.
LEMMA BetweenJobs ==
    ASSUME IInv, IInv', JobsHeld, ~Working, Held(c, c'),
           hand'.pc \in {"idle", "subscribing"}, hand'.job = NoJob, hand'.discoveryId = NoId,
           hand'.room = NoRoom, hand'.retained = NoSession,
           UNCHANGED <<queue, sessions, selected, main>>
    PROVE  JobsHeld'
<1>1. /\ JobOK(c)' /\ (c'.worker = c.worker \/ ~c'.worker.running)
      /\ c'.preemptedJobs = c.preemptedJobs /\ c'.workerDiscoveryId = c.workerDiscoveryId
      /\ c'.discoveryResultReceived = c.discoveryResultReceived
      /\ c'.display.status = "pending" => c.display.status = "pending" /\ c'.worker = c.worker
  BY DEF Held, Follows
<1>2. /\ ~Working' /\ hand.job = NoJob /\ hand'.job = hand.job /\ NoJob.id = NoId
      /\ NoSession.status # "pending"
  BY DEF JobsHeld, InHandOK, Working, NoJob, NoSession
<1>3. QueuedOK' /\ InHandOK'
  <2>1. hand'.pc \notin Commanding \cup Reading
    BY DEF Commanding, Reading
  <2> QED
    BY <1>2, <2>1 DEF JobsHeld, QueuedOK, InHandOK
<1>4. LastJobRuns' /\ BoundAsTold'
  BY <1>1, <1>2 DEF JobsHeld, LastJobRuns, LastJob, BoundAsTold
<1>5. PreemptedOK'
  <2>1. CoordinatorOK(c')
    BY DEF IInv
  <2> QED
    BY <1>1, <1>2, <2>1, IdleHoldsNothing DEF JobsHeld, PreemptedOK, PreemptedJobsHeld, QueuedIds
<1>6. PendingStatusOK'
  <2>1. hand.pc \notin Unsettled \cup {"finish"}
    BY DEF Working, Unsettled
  <2> QED
    BY <1>1, <2>1 DEF JobsHeld, PendingStatusOK, Stopping
<1>7. SessionsOK' /\ DoubtKept'
  <2>1. hand.pc \notin Unsettled /\ hand'.pc \notin Unsettled \cup {"roomRead", "finish"}
    BY DEF Working, Unsettled
  <2> QED
    BY <1>2, <2>1 DEF JobsHeld, SessionsOK, DoubtKept
<1> QED
  BY <1>1, <1>3, <1>4, <1>5, <1>6, <1>7 DEF JobsHeld

\* SUBSCRIBE requests, their answers and NOTIFYs neither start, preempt nor
\* answer a job.
LEMMA TopologyEventHeld ==
    ASSUME IInv, JobsHeld, TopologyEvents
    PROVE  Held(c, c')
<1>1. CoordinatorOK(c) /\ JobOK(c) /\ hand.request \in Nat
  BY DEF IInv, JobsHeld, TasksOK, HandType
<1>2. CASE TakeRequest
  BY <1>1, <1>2, WrittenHeld DEF TakeRequest
<1>3. CASE RequestAnswered
  <2>1. CASE c' = SubscriptionResult(c, hand.request, FALSE, NoSid, 0)
    <3>1. FALSE \in BOOLEAN /\ NoSid \in Sids \cup {NoSid} /\ 0 \in Nat
      OBVIOUS
    <3> QED
      BY <1>1, <2>1, <3>1, SubscriptionResultSteady DEF Steady, Held
  <2>2. ASSUME NEW sid \in Sids \cup {NoSid}, NEW lease \in Leases,
               c' = SubscriptionResult(c, hand.request, TRUE, sid, lease)
        PROVE  Held(c, c')
    <3>1. TRUE \in BOOLEAN /\ lease \in Nat
      BY RuntimeTaskAssumption
    <3> QED
      BY <1>1, <2>2, <3>1, SubscriptionResultSteady DEF Steady, Held
  <2> QED
    BY <1>3, <2>1, <2>2 DEF RequestAnswered
<1>4. CASE NotifyArrives
  BY <1>1, <1>4, NotifySteady DEF NotifyArrives, Steady, Held
<1> QED
  BY <1>2, <1>3, <1>4 DEF TopologyEvents

\* Topology events concern no job, whenever the publisher answers.
LEMMA TopologyEventJobs ==
    ASSUME IInv, IInv', JobsHeld, TopologyEvents
    PROVE  JobsHeld'
<1>1. CoordinatorOK(c') /\ Held(c, c')
  BY TopologyEventHeld DEF IInv
<1>2. CASE TakeRequest \/ RequestAnswered
  <2>1. /\ hand'.pc \in {"idle", "subscribing"} /\ hand'.job = NoJob /\ hand'.discoveryId = NoId
        /\ hand'.room = NoRoom /\ hand'.retained = NoSession
    <3>1. CASE TakeRequest
      BY <3>1 DEF TakeRequest, IdleHand
    <3>2. CASE RequestAnswered
      BY <3>2 DEF RequestAnswered, IdleHand
    <3> QED
      BY <1>2, <3>1, <3>2
  <2>2. ~Working /\ UNCHANGED <<queue, sessions, selected, main>>
    BY <1>2 DEF TakeRequest, RequestAnswered, Working, selection
  <2> QED
    BY <1>1, <2>1, <2>2, BetweenJobs
<1>3. CASE NotifyArrives
  BY <1>1, <1>3, CallsBesideJobs DEF NotifyArrives, selection, Stopping
<1> QED
  BY <1>2, <1>3 DEF TopologyEvents

\* The job at the head of the queue is taken in hand.
LEMMA ReceiveJobs ==
    ASSUME IInv, IInv', JobsHeld, Receive
    PROVE  JobsHeld'
<1>1. /\ queue \in Seq(JobType) /\ queue # <<>> /\ ~Stopping /\ hand.pc = "idle"
      /\ queue' = Tail(queue) /\ c' = c /\ sessions' = sessions /\ main' = main
      /\ hand' = [IdleHand EXCEPT !.pc = "pickup", !.job = Head(queue)]
  BY DEF IInv, TasksOK, Receive
<1>2. /\ hand'.pc = "pickup" /\ hand'.job = queue[1] /\ hand'.discoveryId = NoId
      /\ hand'.room = NoRoom /\ hand'.retained.status # "pending"
  BY <1>1 DEF IdleHand, NoSession
<1>3. /\ Len(queue) \in Nat \ {0} /\ 1 \in DOMAIN queue
      /\ DOMAIN queue' = 1..(Len(queue) - 1)
      /\ \A i \in DOMAIN queue' : queue'[i] = queue[i + 1] /\ i + 1 \in DOMAIN queue /\ i + 1 # 1
      /\ \A i \in DOMAIN queue : i = 1 \/ (i - 1 \in DOMAIN queue' /\ queue'[i - 1] = queue[i])
      /\ Len(queue') = Len(queue) - 1
      /\ queue' = <<>> <=> Len(queue) = 1
  <2>1. /\ Len(queue) \in Nat \ {0} /\ queue' \in Seq(JobType) /\ Len(queue') = Len(queue) - 1
        /\ DOMAIN queue = 1..Len(queue) /\ DOMAIN queue' = 1..Len(queue')
        /\ \A i \in 1..Len(queue') : queue'[i] = queue[i + 1]
    BY <1>1
  <2>2. queue' = <<>> <=> Len(queue') = 0
    BY <2>1
  <2> QED
    BY <2>1, <2>2
<1>4. /\ \A i \in DOMAIN queue :
            queue[i].id # NoId /\ queue[i].id # hand.job.id
            /\ (~IsRead(queue[i]) => queue[i].origin = "user")
      /\ \A i, j \in DOMAIN queue : i # j => queue[i].id # queue[j].id
  BY DEF JobsHeld, QueuedOK
<1>5. QueuedOK'
  <2>1. \A i \in DOMAIN queue' :
            queue'[i].id # NoId /\ queue'[i].id # hand'.job.id
            /\ (~IsRead(queue'[i]) => queue'[i].origin = "user")
    BY <1>2, <1>3, <1>4
  <2>2. \A i, j \in DOMAIN queue' : i # j => queue'[i].id # queue'[j].id
    <3> SUFFICES ASSUME NEW i \in DOMAIN queue', NEW j \in DOMAIN queue', i # j
                 PROVE  queue'[i].id # queue'[j].id
      OBVIOUS
    <3>1. i + 1 # j + 1
      BY <1>3
    <3> QED
      BY <1>3, <1>4, <3>1
  <2> QED
    BY <2>1, <2>2 DEF QueuedOK
<1>6. InHandOK'
  BY <1>2, <1>3, <1>4 DEF InHandOK, Working, Commanding, Reading
<1>7. LastJob' = LastJob
  BY <1>1, <1>2, <1>3 DEF LastJob
<1>8. LastJobRuns'
  BY <1>1, <1>7 DEF JobsHeld, LastJobRuns
<1>9. BoundAsTold'
  BY <1>1, <1>2 DEF JobsHeld, BoundAsTold
<1>10. PreemptedOK'
  <2>1. QueuedIds \subseteq QueuedIds' \cup {hand'.job.id}
    BY <1>2, <1>3 DEF QueuedIds
  <2>2. hand.job.id = NoId
    BY <1>1 DEF JobsHeld, InHandOK, Working, NoJob
  <2> QED
    BY <1>1, <2>1, <2>2 DEF JobsHeld, PreemptedOK, PreemptedJobsHeld
<1>11. PendingStatusOK'
  BY <1>1 DEF JobsHeld, PendingStatusOK, Stopping
<1>12. SessionsOK' /\ DoubtKept'
  BY <1>1, <1>2 DEF JobsHeld, SessionsOK, DoubtKept, Unsettled
<1> QED
  BY <1>1, <1>5, <1>6, <1>8, <1>9, <1>10, <1>11, <1>12 DEF JobsHeld

\* While the task works on a job, what is said of the queue, the job in hand,
\* the running job and the preempted ones stays true.
LEMMA SameJobInHand ==
    ASSUME IInv, IInv', JobsHeld, Working, Working', hand'.job = hand.job, hand'.pc # "pickup",
           hand'.pc \in Commanding => ~IsRead(hand.job), hand'.pc \in Reading => IsRead(hand.job),
           c'.worker = c.worker \/ ~c'.worker.running, c'.preemptedJobs = c.preemptedJobs,
           queue' = queue
    PROVE  QueuedOK' /\ InHandOK' /\ LastJobRuns' /\ PreemptedOK'
<1>1. CoordinatorOK(c')
  BY DEF IInv
<1> QED
  BY <1>1, IdleHoldsNothing
  DEF JobsHeld, QueuedOK, InHandOK, LastJobRuns, LastJob, PreemptedOK, PreemptedJobsHeld, QueuedIds

\* Before a command is submitted and before the job is finished, no room and
\* no display speaks of a command in progress, and no doubt is settled.
LEMMA NothingPromised ==
    ASSUME IInv, JobsHeld, hand.pc \notin Unsettled \cup {"finish"},
           hand'.pc \notin Unsettled \cup {"roomRead"}, hand'.pc = "finish" => hand'.room = NoRoom,
           sessions' = sessions, hand'.retained = hand.retained, main' = main,
           c'.display.status = "pending" => c.display.status = "pending"
    PROVE  PendingStatusOK' /\ SessionsOK' /\ DoubtKept'
<1>1. PendingStatusOK'
  BY DEF JobsHeld, PendingStatusOK, Stopping
<1>2. SessionsOK'
  BY DEF JobsHeld, SessionsOK
<1>3. DoubtKept'
  BY DEF DoubtKept
<1> QED
  BY <1>1, <1>2, <1>3

\* The job in hand is bound to a generation, or found to have ended.
LEMMA PickupJobs ==
    ASSUME IInv, IInv', JobsHeld, Pickup
    PROVE  JobsHeld'
<1>1. /\ hand.pc = "pickup" /\ hand.room = NoRoom /\ hand.discoveryId = NoId /\ Working
      /\ queue' = queue /\ sessions' = sessions /\ selected' = selected /\ main' = main
  BY DEF IInv, TasksOK, HandInSession, InSession, Pickup, JobsHeld, InHandOK, Working, selection
<1>2. hand \in HandType /\ CoordinatorOK(c) /\ JobOK(c)
  BY DEF IInv, TasksOK, JobsHeld
<1>3. hand.pc \notin Unsettled \cup {"finish"}
  BY <1>1 DEF Unsettled
<1>4. /\ hand'.job = hand.job /\ hand'.room = NoRoom /\ hand'.retained = hand.retained
      /\ hand'.pc \in {"topology", "finish"} /\ (c' = c \/ hand'.discoveryId \in Nat)
  <2>1. CASE hand' = [hand EXCEPT !.pc = "finish"] /\ c' = c
    BY <1>1, <1>2, <2>1 DEF HandType
  <2>2. CASE \E f \in FreshIds : hand' = [hand EXCEPT
                !.discoveryId = BindDiscovery(c, hand.job.id, f).discoveryId,
                !.pc = IF BindDiscovery(c, hand.job.id, f).discoveryId = NoId
                       THEN "finish" ELSE "topology"]
    <3>1. hand' \in HandType
      BY DEF IInv, TasksOK
    <3>2. PICK n : \E next \in {"topology", "finish"} :
              hand' = [hand EXCEPT !.discoveryId = n, !.pc = next]
      BY <2>2
    <3>3. hand'.discoveryId \in Nat
      BY <3>1 DEF HandType
    <3> QED
      BY <1>1, <1>2, <3>2, <3>3 DEF HandType
  <2> QED
    BY <2>1, <2>2, Zenon DEF Pickup
<1>5. hand'.pc \notin Unsettled \cup {"roomRead"} \cup Commanding \cup Reading /\ Working'
      /\ hand'.pc # "pickup"
  BY <1>4 DEF Unsettled, Commanding, Reading, Working
<1>6. CASE c' = c /\ hand' = [hand EXCEPT !.pc = "finish"]
  <2>1. QueuedOK' /\ InHandOK' /\ LastJobRuns' /\ PreemptedOK'
    BY <1>1, <1>4, <1>5, <1>6, SameJobInHand
  <2>2. PendingStatusOK' /\ SessionsOK' /\ DoubtKept'
    BY <1>1, <1>3, <1>4, <1>5, <1>6, NothingPromised
  <2>3. hand'.discoveryId = NoId
    BY <1>1, <1>2, <1>6 DEF HandType
  <2>4. BoundAsTold'
    BY <1>1, <1>6, <2>3 DEF JobsHeld, BoundAsTold
  <2> QED
    BY <1>2, <1>6, <2>1, <2>2, <2>4 DEF JobsHeld
<1>7. ASSUME NEW f \in FreshIds,
             c' = BindDiscovery(c, hand.job.id, f).c,
             hand' = [hand EXCEPT !.discoveryId = BindDiscovery(c, hand.job.id, f).discoveryId,
                          !.pc = IF BindDiscovery(c, hand.job.id, f).discoveryId = NoId
                                 THEN "finish" ELSE "topology"]
      PROVE  JobsHeld'
  <2> DEFINE b == BindDiscovery(c, hand.job.id, f)
  <2>1. Bound(c, b.c, hand.job.id, b.discoveryId)
    <3>1. c.worker.running => ~c.discoveryResultReceived
      BY <1>1 DEF JobsHeld, BoundAsTold
    <3>2. FreshOK(f)
      BY FreshIdsOK
    <3> QED
      BY <1>2, <3>1, <3>2, BindDiscoveryHeld
  <2>2. hand'.discoveryId = b.discoveryId
    <3> HIDE DEF b
    <3> QED
      BY <1>2, <1>7 DEF HandType, b
  <2>3. Bound(c, c', hand.job.id, hand'.discoveryId)
    BY <1>7, <2>1, <2>2
  <2> HIDE DEF b
  <2>4. /\ JobOK(c)' /\ (c'.worker = c.worker \/ ~c'.worker.running)
        /\ c'.preemptedJobs = c.preemptedJobs
        /\ c'.discoveryResultReceived = c.discoveryResultReceived
        /\ c'.display.status = "pending" => c.display.status = "pending"
        /\ hand'.discoveryId # NoId => c'.workerDiscoveryId = hand'.discoveryId
    BY <2>3 DEF Bound
  <2>5. QueuedOK' /\ InHandOK' /\ LastJobRuns' /\ PreemptedOK'
    BY <1>1, <1>4, <1>5, <2>4, SameJobInHand
  <2>6. PendingStatusOK' /\ SessionsOK' /\ DoubtKept'
    BY <1>1, <1>3, <1>4, <1>5, <2>4, NothingPromised
  <2>7. BoundAsTold'
    BY <1>1, <2>4 DEF JobsHeld, BoundAsTold
  <2> QED
    BY <2>4, <2>5, <2>6, <2>7 DEF JobsHeld
<1> QED
  BY <1>6, <1>7, Zenon DEF Pickup

\* Reading the topology changes nothing of what is said of jobs.
LEMMA ReadTopologyJobs ==
    ASSUME IInv, IInv', JobsHeld, ReadTopology
    PROVE  JobsHeld'
<1>1. /\ hand.pc = "topology" /\ Working /\ c' = c /\ queue' = queue /\ sessions' = sessions
      /\ selected' = selected /\ main' = main /\ hand \in HandType
  BY DEF IInv, TasksOK, ReadTopology, Working, selection
<1>2. /\ hand'.pc = "topologyRead" /\ hand'.job = hand.job /\ hand'.retained = hand.retained
      /\ hand'.discoveryId = hand.discoveryId
  BY <1>1 DEF ReadTopology, HandType
<1>3. /\ Working' /\ hand.pc \notin Unsettled \cup {"finish"}
      /\ hand'.pc \notin Unsettled \cup {"roomRead", "pickup"} \cup Commanding \cup Reading
  BY <1>1, <1>2 DEF Working, Unsettled, Commanding, Reading
<1>4. QueuedOK' /\ InHandOK' /\ LastJobRuns' /\ PreemptedOK'
  BY <1>1, <1>2, <1>3, SameJobInHand
<1>5. PendingStatusOK' /\ SessionsOK' /\ DoubtKept'
  BY <1>1, <1>2, <1>3, NothingPromised
<1>6. BoundAsTold'
  BY <1>1, <1>2 DEF JobsHeld, BoundAsTold
<1> QED
  BY <1>1, <1>4, <1>5, <1>6 DEF JobsHeld

\* The household's answer is reported for the job in hand, whatever room is
\* chosen then.
LEMMA TopologyAnswered ==
    ASSUME IInv, JobsHeld, NEW f \in FreshIds, NEW host \in Hosts, NEW eligible,
           NEW chosen,
           UseTopology(DiscoveryResult(c, hand.job.id, hand.discoveryId, hand.result = "ok",
                                       host, f), eligible, chosen)
    PROVE  Answered(c, c', hand.job.id)
<1> DEFINE d == DiscoveryResult(c, hand.job.id, hand.discoveryId, hand.result = "ok", host, f)
           ok == hand.result = "ok" /\ d.accepted
           stale == [d.c EXCEPT !.display.stale = TRUE]
           shown == IF ok THEN d.c ELSE stale
<1>1. c' = SelectObservedRoom(shown, chosen)
  BY DEF UseTopology
<1>2. Answered(c, d.c, hand.job.id) /\ CoordinatorOK(d.c)
  <2>1. /\ FreshOK(f) /\ (hand.result = "ok") \in BOOLEAN /\ hand.job.id \in Nat
        /\ CoordinatorOK(c) /\ JobOK(c) /\ hand.discoveryId \in Nat
    BY FreshIdsOK DEF IInv, TasksOK, JobsHeld, HandType, JobType
  <2> QED
    BY <2>1, DiscoveryResultHeld, DiscoveryResultSound, Zenon DEF Sound
<1> HIDE DEF d, ok
<1>3. Held(d.c, shown) /\ CoordinatorOK(shown)
  <2>1. JobOK(d.c)
    BY <1>2 DEF Answered
  <2>2. Held(d.c, d.c) /\ Held(d.c, stale) /\ CoordinatorOK(stale)
    BY <1>2, <2>1, HeldItself, WrittenHeld, WrittenDirectly DEF Sound
  <2> QED
    BY <1>2, <2>2
<1> HIDE DEF shown
<1>4. Held(d.c, c')
  BY <1>1, <1>3, SelectObservedRoomHeld, FollowsTransitive DEF Held
<1> QED
  BY <1>2, <1>4 DEF Answered, Held, Follows

\* The household's answer counts for the job in hand alone, and the room
\* chosen by it starts from nothing.
LEMMA ApplyTopologyJobs ==
    ASSUME IInv, IInv', JobsHeld, ApplyTopology
    PROVE  JobsHeld'
<1>1. /\ hand.pc = "topologyRead" /\ hand.room = NoRoom /\ Working /\ hand \in HandType
      /\ queue' = queue /\ sessions' = sessions /\ main' = main
  BY DEF IInv, TasksOK, HandInSession, InSession, ApplyTopology, Working
<1>2. CoordinatorOK(c) /\ JobOK(c) /\ hand.discoveryId \in Nat
  BY <1>1 DEF IInv, JobsHeld, HandType
<1>3. hand.pc \notin Unsettled \cup {"finish"}
  BY <1>1 DEF Unsettled
<1>4. CASE Abandon
  <2>1. /\ c' = c /\ selected' = selected /\ hand'.pc = "finish" /\ hand'.job = hand.job
        /\ hand'.retained = hand.retained /\ hand'.room = NoRoom
        /\ hand'.discoveryId = hand.discoveryId
    BY <1>1, <1>4 DEF Abandon, HandType, selection
  <2>2. /\ Working' /\ hand'.pc # "pickup"
        /\ hand'.pc \notin Unsettled \cup {"roomRead"} \cup Commanding \cup Reading
    BY <2>1 DEF Working, Unsettled, Commanding, Reading
  <2>3. QueuedOK' /\ InHandOK' /\ LastJobRuns' /\ PreemptedOK'
    BY <1>1, <2>1, <2>2, SameJobInHand
  <2>4. PendingStatusOK' /\ SessionsOK' /\ DoubtKept'
    BY <1>1, <1>3, <2>1, <2>2, NothingPromised
  <2>5. BoundAsTold'
    BY <1>1, <2>1 DEF JobsHeld, BoundAsTold
  <2> QED
    BY <1>2, <2>1, <2>3, <2>4, <2>5 DEF JobsHeld
<1>5. ASSUME NEW f \in FreshIds, NEW host \in Hosts, NEW eligible \in Topologies \cup {rooms},
             NEW chosen \in Rooms \cup {NoRoom},
             UseTopology(DiscoveryResult(c, hand.job.id, hand.discoveryId, hand.result = "ok",
                                         host, f), eligible, chosen)
      PROVE  JobsHeld'
  <2>1. /\ hand'.job = hand.job /\ hand'.retained = hand.retained
        /\ hand'.discoveryId = hand.discoveryId
        /\ hand'.pc \in {"submit", "invalidate", "read", "unavailable"}
        /\ hand'.pc \in {"submit"} => ~IsRead(hand.job)
        /\ hand'.pc \in {"invalidate", "read"} => IsRead(hand.job)
    <3>1. PICK room : \E next \in {"submit", "invalidate", "read", "unavailable"} :
              /\ hand' = [hand EXCEPT !.result = "none", !.room = room, !.pc = next]
              /\ next = "submit" => ~IsRead(hand.job)
              /\ next \in {"invalidate", "read"} => IsRead(hand.job)
      BY <1>5 DEF UseTopology
    <3> QED
      BY <1>1, <3>1 DEF HandType
  <2>2. Answered(c, c', hand.job.id)
    BY <1>5, TopologyAnswered
  <2>3. /\ Working' /\ hand'.pc \notin {"pickup", "topology", "topologyRead", "finish"}
        /\ hand'.pc \notin Unsettled \cup {"roomRead"}
        /\ hand'.pc \in Commanding => ~IsRead(hand.job)
        /\ hand'.pc \in Reading => IsRead(hand.job)
    BY <2>1 DEF Working, Unsettled, Commanding, Reading
  <2>4. QueuedOK' /\ InHandOK' /\ LastJobRuns' /\ PreemptedOK'
    BY <1>1, <2>1, <2>2, <2>3, SameJobInHand DEF Answered
  <2>5. PendingStatusOK' /\ SessionsOK' /\ DoubtKept'
    BY <1>1, <1>3, <2>1, <2>2, <2>3, NothingPromised DEF Answered
  <2>6. BoundAsTold'
    <3> SUFFICES ASSUME c'.worker.running
                 PROVE  /\ queue # <<>> => ~c'.discoveryResultReceived
                        /\ queue = <<>> /\ hand.discoveryId # NoId
                              => c'.workerDiscoveryId = hand.discoveryId
      BY <1>1, <2>1, <2>3 DEF BoundAsTold
    <3>1. /\ c.worker.running /\ c'.workerDiscoveryId = c.workerDiscoveryId
          /\ \/ c'.discoveryResultReceived = c.discoveryResultReceived
             \/ c.worker.jobId = hand.job.id
      BY <2>2 DEF Answered
    <3> QED
      BY <3>1, ActiveInHand DEF JobsHeld, BoundAsTold
  <2> QED
    BY <2>2, <2>4, <2>5, <2>6 DEF JobsHeld, Answered
<1> QED
  BY <1>4, <1>5 DEF ApplyTopology

\* What a publication of the job in hand does.
LEMMA PublicationJobs ==
    ASSUME IInv, JobsHeld, NEW room, NEW state,
           c' = Publish(c, hand.job.id, room, state, selected, Stopping)
    PROVE  /\ JobOK(c)' /\ SameJobs(c, c')
           /\ \/ c' = c
              \/ /\ c.worker.running /\ c.worker.jobId = hand.job.id /\ c.worker.left > 0
                 /\ ~Stopping /\ room = selected /\ c'.display.status = state.status
           /\ /\ c.worker.running /\ c.worker.jobId = hand.job.id /\ c.worker.left > 0
              /\ ~Stopping /\ room = selected
              => c'.display.status = state.status
<1>1. CoordinatorOK(c) /\ JobOK(c)
  BY DEF IInv, JobsHeld
<1>2. /\ JobOK(c') /\ SameJobs(c, c')
      /\ \/ c' = c
         \/ /\ RuntimeJobActive(c.worker, hand.job.id, Stopping) /\ room = selected
            /\ c'.display.status = state.status
      /\ RuntimeJobActive(c.worker, hand.job.id, Stopping) /\ room = selected
            => c'.display.status = state.status
  BY <1>1, PublishHeld
<1> QED
  BY <1>2 DEF RuntimeJobActive

\* A step of the job in hand past the topology leaves the queue and the
\* coordinator's records of jobs alone.
LEMMA SessionJob ==
    ASSUME IInv, IInv', JobsHeld, Working, Working', hand'.job = hand.job,
           hand'.discoveryId = hand.discoveryId,
           hand'.pc \notin {"pickup", "topology", "topologyRead"},
           hand'.pc \in Commanding => ~IsRead(hand.job), hand'.pc \in Reading => IsRead(hand.job),
           JobOK(c)', SameJobs(c, c'), queue' = queue,
           PendingStatusOK', SessionsOK', DoubtKept'
    PROVE  JobsHeld'
<1>1. QueuedOK' /\ InHandOK' /\ LastJobRuns' /\ PreemptedOK'
  BY SameJobInHand DEF SameJobs
<1>2. BoundAsTold'
  BY DEF JobsHeld, BoundAsTold, SameJobs
<1> QED
  BY <1>1, <1>2 DEF JobsHeld

\* While no command is in progress, no room and no display says there is.
LEMMA NothingPending ==
    ASSUME JobsHeld, hand.pc \notin Unsettled \cup {"finish"}
    PROVE  /\ \A r \in Rooms : sessions[r].status # "pending"
           /\ ~Stopping => c.display.status # "pending"
BY DEF JobsHeld, SessionsOK, PendingStatusOK

\* A step of a read publishes nothing that is pending.
LEMMA QuietPublication ==
    ASSUME IInv, JobsHeld, hand.pc \notin Unsettled \cup {"finish"},
           hand'.pc \notin Unsettled, main' = main,
           NEW room, NEW state, ~Stopping => state.status # "pending",
           c' = Publish(c, hand.job.id, room, state, selected, Stopping),
           \A r \in Rooms : sessions'[r].status # "pending", hand'.retained.status # "pending"
    PROVE  PendingStatusOK' /\ SessionsOK'
<1>1. ~Stopping => c'.display.status # "pending"
  BY PublicationJobs, NothingPending
<1> QED
  BY <1>1 DEF PendingStatusOK, SessionsOK, Stopping

\* The steps of a read account for jobs as before, and free no room of a
\* doubt without a good answer.
LEMMA ReadJobs ==
    ASSUME IInv, IInv', JobsHeld,
           PublishUnavailable \/ Invalidate \/ Loading \/ ReadRoom \/ PublishRead
    PROVE  JobsHeld'
<1>1. hand \in HandType /\ HandInSession /\ sessions \in [Rooms -> StateType]
  BY DEF IInv, TasksOK
<1>2. NewAppState.status = "idle"
  BY DEF NewAppState
<1>3. CASE PublishUnavailable
  <2>1. /\ hand.pc = "unavailable" /\ hand.room = NoRoom /\ Working
        /\ hand.pc \notin Unsettled \cup {"finish"}
    BY <1>1, <1>3 DEF PublishUnavailable, HandInSession, InSession, Working, Unsettled
  <2>2. /\ hand'.pc = "finish" /\ hand'.job = hand.job /\ hand'.room = NoRoom
        /\ hand'.discoveryId = hand.discoveryId /\ hand'.retained = hand.retained
        /\ queue' = queue /\ sessions' = sessions /\ main' = main
    BY <1>1, <1>3, <2>1 DEF PublishUnavailable, HandType
  <2>3. Working' /\ hand'.pc \notin Unsettled \cup {"roomRead"} \cup Commanding \cup Reading
    BY <2>2 DEF Working, Unsettled, Commanding, Reading
  <2> DEFINE again == [stale |-> TRUE, status |-> c.display.status, recovery |-> c.display.recovery]
  <2>4. c' = Publish(c, hand.job.id, c.display.target, again, selected, Stopping)
    BY <1>3 DEF PublishUnavailable
  <2>5. again.status = c.display.status
    OBVIOUS
  <2> HIDE DEF again
  <2>6. /\ JobOK(c)' /\ SameJobs(c, c')
        /\ c'.display.status = "pending" => c.display.status = "pending"
    BY <2>4, <2>5, PublicationJobs
  <2>7. PendingStatusOK' /\ SessionsOK' /\ DoubtKept'
    BY <2>1, <2>2, <2>3, <2>6, NothingPromised
  <2> QED
    BY <2>1, <2>2, <2>3, <2>6, <2>7, SessionJob
<1>4. CASE Invalidate \/ Loading
  <2>1. /\ hand.pc \in {"invalidate", "loading"} /\ Working /\ hand.room \in Rooms
        /\ hand.pc \notin Unsettled \cup {"finish"} /\ IsRead(hand.job)
    BY <1>1, <1>4 DEF Invalidate, Loading, HandInSession, InSession, Working, Unsettled,
                      JobsHeld, InHandOK, Reading
  <2>2. /\ hand'.pc \in {"loading", "read"} /\ hand'.job = hand.job
        /\ hand'.discoveryId = hand.discoveryId /\ hand'.retained = hand.retained
        /\ queue' = queue /\ main' = main
    BY <1>1, <1>4 DEF Invalidate, Loading, HandType
  <2>3. /\ Working' /\ hand'.pc \notin Unsettled \cup {"roomRead", "finish", "pickup"}
        /\ hand'.pc \notin Commanding
    BY <2>2 DEF Working, Unsettled, Commanding
  <2>4. \A r \in Rooms : sessions'[r].status # "pending"
    <3>1. CASE sessions' = sessions
      BY <2>1, <3>1, NothingPending
    <3>2. CASE sessions' = [sessions EXCEPT ![hand.room].stale = TRUE]
      <4>1. \A r \in Rooms : sessions'[r].status = sessions[r].status
        BY <1>1, <2>1, <3>2 DEF StateType
      <4> QED
        BY <2>1, <4>1, NothingPending
    <3> QED
      BY <1>4, <3>1, <3>2 DEF Invalidate, Loading
  <2>5. PICK state : c' = PublishSession(state) /\ state.status # "pending"
    BY <1>2, <1>4, <2>1, <2>4 DEF Invalidate, Loading
  <2>6. hand'.retained.status # "pending"
    BY <2>2 DEF JobsHeld, SessionsOK
  <2>7. PendingStatusOK' /\ SessionsOK' /\ JobOK(c)' /\ SameJobs(c, c')
    BY <2>1, <2>2, <2>3, <2>4, <2>5, <2>6, QuietPublication, PublicationJobs DEF PublishSession
  <2>8. DoubtKept'
    BY <2>3 DEF DoubtKept
  <2> QED
    BY <2>1, <2>2, <2>3, <2>7, <2>8, SessionJob
<1>5. CASE ReadRoom
  <2>1. /\ hand.pc = "read" /\ Working /\ hand.room \in Rooms
        /\ hand.pc \notin Unsettled \cup {"finish"} /\ IsRead(hand.job)
    BY <1>1, <1>5 DEF ReadRoom, HandInSession, InSession, Working, Unsettled,
                      JobsHeld, InHandOK, Reading
  <2>2. /\ hand'.pc = "roomRead" /\ hand'.job = hand.job /\ hand'.room = hand.room
        /\ hand'.discoveryId = hand.discoveryId /\ hand'.retained = sessions[hand.room]
        /\ queue' = queue /\ main' = main /\ c' = c /\ sessions' = sessions
    BY <1>1, <1>5 DEF ReadRoom, HandType
  <2>3. Working' /\ hand'.pc \notin Unsettled \cup {"finish"} \cup Commanding
    BY <2>2 DEF Working, Unsettled, Commanding
  <2>4. PendingStatusOK' /\ SessionsOK' /\ DoubtKept'
    BY <2>1, <2>2, <2>3, NothingPending DEF PendingStatusOK, SessionsOK, DoubtKept, Stopping
  <2>5. JobOK(c)' /\ SameJobs(c, c')
    BY <2>2 DEF JobsHeld, SameJobs
  <2> QED
    BY <2>1, <2>2, <2>3, <2>4, <2>5, SessionJob
<1>6. CASE PublishRead
  <2>1. /\ hand.pc = "roomRead" /\ Working /\ hand.room \in Rooms
        /\ hand.pc \notin Unsettled \cup {"finish"} /\ IsRead(hand.job)
        /\ hand.retained = sessions[hand.room]
    BY <1>1, <1>6 DEF PublishRead, HandInSession, InSession, Working, Unsettled,
                      JobsHeld, InHandOK, Reading, DoubtKept
  <2>2. /\ hand'.pc = "finish" /\ hand'.job = hand.job /\ hand'.room = hand.room
        /\ hand'.discoveryId = hand.discoveryId /\ hand'.retained = hand.retained
        /\ hand'.result = hand.result /\ queue' = queue /\ main' = main
    BY <1>1, <1>6 DEF PublishRead, HandType
  <2>3. Working' /\ hand'.pc \notin Unsettled \cup {"roomRead", "pickup"} \cup Commanding \cup Reading
    BY <2>2 DEF Working, Unsettled, Commanding, Reading
  <2>4. sessions' = [sessions EXCEPT ![hand.room] =
           IF hand.result = "ok" THEN [@ EXCEPT !.stale = FALSE, !.recovery = FALSE]
                                 ELSE [@ EXCEPT !.stale = TRUE]]
    BY <1>6 DEF PublishRead
  <2>5. /\ \A r \in Rooms : sessions'[r].status = sessions[r].status
        /\ hand.result # "ok" => sessions'[hand.room].recovery = sessions[hand.room].recovery
    BY <1>1, <2>1, <2>4 DEF StateType
  <2>6. \A r \in Rooms : sessions'[r].status # "pending"
    BY <2>1, <2>5, NothingPending
  <2>7. c' = PublishSession(sessions'[hand.room]) /\ sessions'[hand.room].status # "pending"
    BY <1>6, <2>1, <2>6 DEF PublishRead
  <2>8. hand'.retained.status # "pending"
    BY <2>2 DEF JobsHeld, SessionsOK
  <2>9. PendingStatusOK' /\ SessionsOK' /\ JobOK(c)' /\ SameJobs(c, c')
    BY <2>1, <2>2, <2>3, <2>6, <2>7, <2>8, QuietPublication, PublicationJobs DEF PublishSession
  <2>10. DoubtKept'
    BY <2>1, <2>2, <2>3, <2>5 DEF DoubtKept
  <2> QED
    BY <2>1, <2>2, <2>3, <2>9, <2>10, SessionJob
<1> QED
  BY <1>3, <1>4, <1>5, <1>6

\* A command in progress is published as its session says, and the display
\* calls it pending only while its job is the last one.
LEMMA CommandGoesOn ==
    ASSUME IInv, JobsHeld, Working, hand'.pc \in Unsettled, ~IsRead(hand.job),
           hand'.job = hand.job, hand'.room = hand.room,
           UNCHANGED <<queue, selected, main>>, NEW state,
           \/ c' = c /\ (hand.pc \in Unsettled \/ (~Stopping => c.display.status # "pending"))
           \/ /\ hand.pc \in Unsettled \cup {"submit"}
              /\ c' = Publish(c, hand.job.id, hand.room, state, selected, Stopping)
    PROVE  PendingStatusOK'
<1> SUFFICES ASSUME ~Stopping, c'.display.status = "pending"
             PROVE  c'.worker.running /\ queue = <<>> /\ hand.room = selected
  BY DEF PendingStatusOK, Stopping, Unsettled
<1>1. CASE c' = c
  BY <1>1 DEF JobsHeld, PendingStatusOK
<1>2. CASE /\ c.worker.running /\ c.worker.jobId = hand.job.id /\ SameJobs(c, c')
           /\ hand.room = selected
  BY <1>2, ActiveInHand DEF SameJobs
<1> QED
  BY <1>1, <1>2, PublicationJobs

\* The steps of a command account for it until its outcome is known.
LEMMA CommandJobs ==
    ASSUME IInv, IInv', JobsHeld, Submit \/ Prepare \/ Execute \/ Verify \/ Conclude
    PROVE  JobsHeld'
<1>1. /\ hand \in HandType /\ HandInSession /\ sessions \in [Rooms -> StateType]
      /\ hand.pc \in Unsettled \cup {"submit"} /\ hand.room \in Rooms /\ Working
      /\ hand.job.id \in Nat
  BY DEF IInv, TasksOK, HandInSession, InSession, Working, Unsettled, HandType, JobType,
         Submit, Prepare, Execute, Verify, Conclude
<1>2. ~IsRead(hand.job)
  BY <1>1 DEF JobsHeld, InHandOK, Unsettled, Commanding
<1>3. JobOK(c) /\ SameJobs(c, c)
  BY DEF JobsHeld, SameJobs
<1>4. UNCHANGED <<queue, selected, main>>
  BY DEF Submit, Prepare, Execute, Verify, Conclude, selection
<1>5. CASE Submit
  <2>1. /\ hand.pc = "submit" /\ hand.pc \notin Unsettled \cup {"finish"}
        /\ \A r \in Rooms : sessions[r].status # "pending"
        /\ ~Stopping => c.display.status # "pending"
    BY <1>5, NothingPending DEF Submit, Unsettled
  <2>2. CASE sessions[hand.room].recovery
    <3>1. /\ hand'.pc = "finish" /\ hand'.job = hand.job /\ hand'.room = hand.room
          /\ hand'.discoveryId = hand.discoveryId /\ hand'.retained = sessions[hand.room]
          /\ c' = c /\ sessions' = sessions
      BY <1>1, <1>5, <2>2 DEF Submit, HandType
    <3>2. Working' /\ hand'.pc \notin Unsettled \cup {"roomRead", "pickup"} \cup Commanding \cup Reading
      BY <3>1 DEF Working, Unsettled, Commanding, Reading
    <3>3. PendingStatusOK' /\ SessionsOK' /\ DoubtKept'
      BY <1>1, <1>4, <2>1, <2>2, <3>1, <3>2
      DEF PendingStatusOK, SessionsOK, DoubtKept, Stopping
    <3> QED
      BY <1>1, <1>3, <1>4, <3>1, <3>2, <3>3, SessionJob
  <2>3. CASE ~sessions[hand.room].recovery
    <3>1. /\ hand' = [hand EXCEPT !.pc = "prepare", !.retained = sessions[hand.room]]
          /\ sessions' = [sessions EXCEPT ![hand.room].status = "pending"]
          /\ c' = PublishSession(sessions'[hand.room])
      BY <1>5, <2>3 DEF Submit
    <3>2. /\ hand'.pc = "prepare" /\ hand'.job = hand.job /\ hand'.room = hand.room
          /\ hand'.discoveryId = hand.discoveryId /\ hand'.retained = sessions[hand.room]
      BY <1>1, <3>1 DEF HandType
    <3>3. Working' /\ hand'.pc \in Unsettled /\ hand'.pc \notin Reading \cup {"roomRead", "finish"}
      BY <3>2 DEF Working, Unsettled, Reading
    <3>4. \A r \in Rooms : r # hand.room => sessions'[r] = sessions[r]
      BY <1>1, <3>1
    <3>5. PendingStatusOK'
      BY <1>1, <1>2, <1>4, <3>1, <3>2, <3>3, CommandGoesOn DEF PublishSession
    <3>6. SessionsOK' /\ DoubtKept'
      BY <1>1, <2>1, <2>3, <3>2, <3>3, <3>4 DEF SessionsOK, DoubtKept
    <3>7. JobOK(c)' /\ SameJobs(c, c')
      BY <3>1, PublicationJobs DEF PublishSession
    <3> QED
      BY <1>1, <1>2, <1>4, <3>2, <3>3, <3>5, <3>6, <3>7, SessionJob
  <2> QED
    BY <2>2, <2>3
<1>6. CASE Prepare \/ Execute \/ Verify
  <2>1. hand.pc \in Unsettled /\ sessions' = sessions
    BY <1>6 DEF Prepare, Execute, Verify, Unsettled
  <2>2. /\ hand'.pc \in Unsettled /\ hand'.job = hand.job /\ hand'.room = hand.room
        /\ hand'.discoveryId = hand.discoveryId /\ hand'.retained = hand.retained
    <3>1. PICK result : \E next \in Unsettled :
              hand' = [hand EXCEPT !.pc = next, !.result = result] \/ hand' = hand
                \/ hand' = [hand EXCEPT !.pc = next]
      BY <1>6 DEF Prepare, Execute, Verify, Unsettled
    <3> QED
      BY <1>1, <2>1, <3>1 DEF HandType
  <2>3. Working' /\ hand'.pc \notin Reading \cup {"roomRead", "finish", "pickup", "topology", "topologyRead"}
    BY <2>2 DEF Working, Unsettled, Reading
  <2>4. c' = c \/ c' = PublishSession(sessions[hand.room])
    BY <1>6 DEF Prepare, Execute, Verify
  <2>5. PendingStatusOK'
    BY <1>1, <1>2, <1>4, <2>1, <2>2, <2>4, CommandGoesOn DEF PublishSession
  <2>6. SessionsOK' /\ DoubtKept'
    BY <2>1, <2>2, <2>3 DEF JobsHeld, SessionsOK, DoubtKept
  <2>7. JobOK(c)' /\ SameJobs(c, c')
    BY <1>3, <2>4, PublicationJobs DEF PublishSession
  <2> QED
    BY <1>1, <1>2, <1>4, <2>2, <2>3, <2>5, <2>6, <2>7, SessionJob
<1>7. CASE Conclude
  <2>1. hand.pc = "conclude" /\ hand.pc \in Unsettled /\ hand.result # "none"
    BY <1>1, <1>7 DEF Conclude, Unsettled, HandInSession
  <2>2. /\ hand'.pc = "finish" /\ hand'.job = hand.job /\ hand'.room = hand.room
        /\ hand'.discoveryId = hand.discoveryId /\ hand'.retained = hand.retained
    BY <1>1, <1>7 DEF Conclude, HandType
  <2>3. Working' /\ hand'.pc \notin Unsettled \cup Commanding \cup Reading \cup {"roomRead"}
    BY <2>2 DEF Working, Unsettled, Commanding, Reading
  <2>4. PICK state : sessions' = [sessions EXCEPT ![hand.room] = state] /\ state.status # "pending"
    <3>1. PICK fresh \in BOOLEAN :
              sessions' = [sessions EXCEPT ![hand.room] =
                  [stale |-> ~fresh, recovery |-> hand.result = "uncertain",
                   status |-> IF hand.result = "ok" THEN "succeeded" ELSE hand.result]]
      BY <1>7 DEF Conclude
    <3> DEFINE status == IF hand.result = "ok" THEN "succeeded" ELSE hand.result
               state == [stale |-> ~fresh, recovery |-> hand.result = "uncertain",
                         status |-> status]
    <3>2. status # "pending"
      BY <1>1 DEF HandType
    <3>3. sessions' = [sessions EXCEPT ![hand.room] = state]
      BY <3>1
    <3> HIDE DEF status
    <3>4. state.status # "pending"
      BY <3>2
    <3> HIDE DEF state
    <3> QED
      BY <3>3, <3>4
  <2>5. c' = PublishSession(sessions'[hand.room]) /\ sessions'[hand.room].status # "pending"
    BY <1>1, <1>7, <2>4 DEF Conclude
  <2>6. SessionsOK' /\ DoubtKept'
    BY <1>1, <2>1, <2>2, <2>3, <2>4 DEF JobsHeld, SessionsOK, DoubtKept
  <2>7. JobOK(c)' /\ SameJobs(c, c')
    BY <2>5, PublicationJobs DEF PublishSession
  <2>8. PendingStatusOK'
    <3> SUFFICES ASSUME ~Stopping, c'.display.status = "pending"
                 PROVE  /\ c.worker.running /\ queue = <<>> /\ hand.room = selected
                        /\ c.worker.left = 0
      BY <1>2, <1>4, <2>2, <2>7 DEF PendingStatusOK, Stopping, SameJobs
    <3>1. c' = c
      BY <2>5, PublicationJobs DEF PublishSession
    <3>2. c.worker.running /\ queue = <<>> /\ hand.room = selected
      BY <3>1 DEF JobsHeld, PendingStatusOK
    <3>3. c.worker.jobId = hand.job.id
      BY <3>2 DEF JobsHeld, LastJobRuns, LastJob
    <3>4. ~(c.worker.left > 0)
      BY <2>5, <3>2, <3>3, PublicationJobs DEF PublishSession
    <3>5. c.worker.left \in Nat
      BY DEF IInv, CoordinatorOK, Open, Consistent, WorkerOK, WorkerType
    <3> QED
      BY <3>2, <3>4, <3>5
  <2> QED
    BY <1>1, <1>4, <2>2, <2>3, <2>6, <2>7, <2>8, SessionJob
<1> QED
  BY <1>5, <1>6, <1>7

\* A finished job is no longer accounted for by anything, and leaves no room
\* with a command in progress.
LEMMA FinishJobs ==
    ASSUME IInv, IInv', JobsHeld, Finish
    PROVE  JobsHeld'
<1>1. /\ hand \in HandType /\ HandInSession /\ sessions \in [Rooms -> StateType]
      /\ hand.pc = "finish" /\ hand.pc \notin Unsettled /\ Working /\ hand' = IdleHand
      /\ UNCHANGED <<queue, selected, main>>
  BY DEF IInv, TasksOK, Finish, Unsettled, Working, selection
<1>2. PICK transportFailed \in BOOLEAN :
          LET usable == hand.room # NoRoom
              done == FinishJob(c, hand.job.id,
                         [targetUsable |-> usable, sessionOk |-> hand.result = "ok",
                          transportFailed |-> usable /\ transportFailed])
          IN  /\ c' = done.c
              /\ sessions' = IF usable
                             THEN [sessions EXCEPT ![hand.room] = Discarded(done.finish, @)]
                             ELSE sessions
  BY DEF Finish
<1> DEFINE input == [targetUsable |-> hand.room # NoRoom, sessionOk |-> hand.result = "ok",
                     transportFailed |-> hand.room # NoRoom /\ transportFailed]
           done == FinishJob(c, hand.job.id, input)
<1>3. FinishedAs(c, c', hand.job.id, done.finish)
  <2>1. hand.job.id \in Nat \ {NoId} /\ CoordinatorOK(c) /\ JobOK(c)
    BY <1>1 DEF HandType, JobType, IInv, JobsHeld, InHandOK
  <2>2. FinishedAs(c, done.c, hand.job.id, done.finish)
    BY <2>1, FinishJobHeld
  <2> QED
    BY <1>2, <2>2
<1>4. sessions' = IF hand.room # NoRoom
                  THEN [sessions EXCEPT ![hand.room] = Discarded(done.finish, sessions[hand.room])]
                  ELSE sessions
  BY <1>2
<1> HIDE DEF done
<1>5. /\ JobOK(c)' /\ (c'.worker = c.worker \/ ~c'.worker.running)
      /\ c'.worker.running => c'.worker.jobId # hand.job.id
      /\ c'.discoveryResultReceived = c.discoveryResultReceived
      /\ c'.display.status = "pending" =>
            c.display.status = "pending" /\ (c.worker.running => c.worker.left > 0)
  BY <1>3 DEF FinishedAs
<1>6. /\ hand'.pc = "idle" /\ hand'.job = NoJob /\ hand'.job.id = NoId /\ hand'.room = NoRoom
      /\ hand'.discoveryId = NoId /\ hand'.retained.status # "pending" /\ IsRead(NoJob)
  BY <1>1 DEF IdleHand, NoJob, NoSession, IsRead
<1>7. QueuedOK' /\ InHandOK'
  BY <1>1, <1>6 DEF JobsHeld, QueuedOK, InHandOK, Working, Commanding, Reading
<1>8. LastJobRuns' /\ BoundAsTold'
  <2> SUFFICES ASSUME c'.worker.running PROVE LastJobRuns' /\ BoundAsTold'
    BY DEF LastJobRuns, BoundAsTold
  <2>1. c'.worker = c.worker /\ c.worker.running /\ c.worker.jobId # hand.job.id
    BY <1>5
  <2>2. queue # <<>>
    BY <2>1 DEF JobsHeld, LastJobRuns, LastJob
  <2> QED
    BY <1>1, <1>5, <2>1, <2>2 DEF JobsHeld, LastJobRuns, LastJob, BoundAsTold
<1>9. PreemptedOK'
  <2>1. PreemptedOK /\ CoordinatorOK(c')
    BY DEF JobsHeld, IInv
  <2>2. c'.preemptedJobs \subseteq c.preemptedJobs /\ hand.job.id \notin c'.preemptedJobs
    BY <1>3, <2>1 DEF FinishedAs, PreemptedOK, PreemptedJobsHeld
  <2> QED
    BY <1>1, <1>5, <2>1, <2>2, IdleHoldsNothing DEF PreemptedOK, PreemptedJobsHeld, QueuedIds
<1>10. PendingStatusOK'
  <2>1. ~(~Stopping /\ c'.display.status = "pending")
    BY <1>1, <1>5 DEF JobsHeld, PendingStatusOK
  <2> QED
    BY <1>1, <2>1 DEF PendingStatusOK, Stopping
<1>11. SessionsOK'
  <2>1. \A r \in Rooms : sessions[r].status # "pending"
    BY <1>1 DEF JobsHeld, SessionsOK
  <2>2. hand.room # NoRoom => hand.retained \in StateType /\ hand.retained.status # "pending"
    BY <1>1 DEF HandInSession, JobsHeld, SessionsOK
  <2>3. hand.room # NoRoom =>
            \A state \in StateType : state.status # "pending"
                => Discarded(done.finish, state).status # "pending"
    BY <2>2 DEF Discarded, StateType
  <2>4. \A r \in Rooms : sessions'[r].status # "pending"
    BY <1>1, <1>4, <2>1, <2>3
  <2> QED
    BY <1>6, <2>4 DEF SessionsOK
<1>12. DoubtKept'
  BY <1>6 DEF DoubtKept, Unsettled
<1> QED
  BY <1>5, <1>7, <1>8, <1>9, <1>10, <1>11, <1>12 DEF JobsHeld

\* A timer that runs down ends nothing by itself.
LEMMA TimeJobs ==
    ASSUME IInv, IInv', JobsHeld, Time
    PROVE  JobsHeld'
<1>1. /\ c \in CoordinatorType /\ c.worker \in WorkerType /\ c.sonos \in SonosType
      /\ UNCHANGED <<queue, hand, sessions, selected, main>>
  BY DEF IInv, CoordinatorOK, Open, Consistent, CoordinatorType, Time, selection
<1>2. /\ c'.display = c.display /\ c'.preemptedJobs = c.preemptedJobs
      /\ c'.jobRefresh = c.jobRefresh /\ c'.workerDiscoveryId = c.workerDiscoveryId
      /\ c'.discoveryResultReceived = c.discoveryResultReceived
      /\ c'.discoveryPending = c.discoveryPending
      /\ c'.worker.running = c.worker.running /\ c'.worker.jobId = c.worker.jobId
      /\ c'.worker.origin = c.worker.origin
      /\ c'.worker.left # c.worker.left => c.worker.left > 0
      /\ c'.sonos.state = c.sonos.state /\ c'.sonos.discoveryId = c.sonos.discoveryId
      /\ c'.sonos.left > 0 => c.sonos.left > 0
  <2>1. CASE WorkerTime
    BY <1>1, <2>1 DEF WorkerTime, CoordinatorType, WorkerType
  <2>2. CASE SonosTime
    BY <1>1, <2>2 DEF SonosTime, CoordinatorType, SonosType
  <2>3. CASE WifiTime \/ RequestTime \/ LeaseTime \/ RateTime \/ PollTime
    BY ZenonT(30), <1>1, <2>3 DEF WifiTime, RequestTime, LeaseTime, RateTime, PollTime, CoordinatorType
  <2> QED
    BY <2>1, <2>2, <2>3 DEF Time
<1>3. JobOK(c)'
  BY <1>2 DEF JobsHeld, JobOK, PendingOwned, GenerationHeld, ReadyByOwnRead
<1>4. QueuedOK' /\ InHandOK' /\ SessionsOK' /\ DoubtKept'
  BY <1>1 DEF JobsHeld, QueuedOK, InHandOK, SessionsOK, DoubtKept, Working
<1>5. LastJobRuns' /\ BoundAsTold' /\ PreemptedOK'
  BY <1>1, <1>2 DEF JobsHeld, LastJobRuns, LastJob, BoundAsTold, PreemptedOK, PreemptedJobsHeld,
                    QueuedIds
<1>6. PendingStatusOK'
  BY <1>1, <1>2 DEF JobsHeld, PendingStatusOK, Stopping
<1> QED
  BY <1>3, <1>4, <1>5, <1>6 DEF JobsHeld

------------------------------------------------------------------------------
(* The specification *)

\* A device that starts holds no job.
LEMMA InitJobs == Init => JobsHeld
<1> SUFFICES ASSUME Init PROVE JobsHeld
  OBVIOUS
<1>1. /\ c.worker = IdleWorker /\ c.sonos = OfflineSonos /\ c.display.pending = NoId
      /\ c.display.status = "idle" /\ c.preemptedJobs = {}
  BY DEF Init, InitialCoordinator, Displayed, NewAppState
<1>2. IdleWorker.running = FALSE /\ IdleWorker.jobId = NoId /\ OfflineSonos.state = "Offline"
  BY DEF IdleWorker, OfflineSonos
<1>3. /\ hand.pc = "idle" /\ hand.job = NoJob /\ hand.discoveryId = NoId
      /\ hand.retained.status # "pending" /\ IsRead(NoJob)
  BY DEF Init, IdleHand, NoJob, NoSession, IsRead
<1>4. queue = <<>> /\ \A r \in Rooms : sessions[r].status # "pending"
  BY DEF Init, NewAppState
<1>5. JobOK(c)
  BY <1>1, <1>2 DEF JobOK, PendingOwned, GenerationHeld, ReadyByOwnRead
<1>6. QueuedOK /\ InHandOK
  BY <1>3, <1>4 DEF QueuedOK, InHandOK, Working, Commanding, Reading
<1>7. LastJobRuns /\ BoundAsTold /\ PreemptedOK /\ PendingStatusOK
  BY <1>1, <1>2 DEF LastJobRuns, BoundAsTold, PreemptedOK, PreemptedJobsHeld, PendingStatusOK
<1>8. SessionsOK /\ DoubtKept
  BY <1>3, <1>4 DEF SessionsOK, DoubtKept, Unsettled
<1> QED
  BY <1>5, <1>6, <1>7, <1>8 DEF JobsHeld

\* Every step of the device accounts for jobs and generations.
LEMMA NextJobs == JInv /\ [Next]_vars => JInv'
<1> SUFFICES ASSUME IInv, JobsHeld, [Next]_vars PROVE JInv'
  BY DEF JInv
<1>1. IInv'
  BY NextInvariant
<1>2. CASE MainTask
  BY <1>1, <1>2, DeviceJobs, MaintenanceJobs, AdmissionJobs DEF MainTask, JInv
<1>3. CASE TopologyEvents
  BY <1>1, <1>3, TopologyEventJobs DEF JInv
<1>4. CASE WorkerTask
  BY <1>1, <1>4, ReceiveJobs, PickupJobs, ReadTopologyJobs, ApplyTopologyJobs, ReadJobs,
     CommandJobs, FinishJobs DEF WorkerTask, JInv
<1>5. CASE Time
  BY <1>1, <1>5, TimeJobs DEF JInv
<1>6. CASE Asleep \/ UNCHANGED vars
  <2>1. UNCHANGED <<c, queue, hand, sessions, selected, main>>
    BY <1>6 DEF Asleep, vars, selection
  <2>2. Held(c, c') /\ CoordinatorOK(c') /\ (Stopping => Stopping')
    BY <1>1, <2>1, HeldItself DEF JobsHeld, IInv, Stopping
  <2> QED
    BY <1>1, <2>1, <2>2, CallsBesideJobs DEF JInv
<1> QED
  BY <1>2, <1>3, <1>4, <1>5, <1>6 DEF Next

\* Whatever ends a job, and whenever, what the coordinator says of jobs and
\* generations is accounted for by the worker task and its queue.
THEOREM JobInvariance == Spec => []JInv
<1>1. Init => JInv
  BY InitInvariant, InitJobs DEF JInv
<1> QED
  BY <1>1, NextJobs, PTL DEF Spec

------------------------------------------------------------------------------
(* What the runs check *)

\* Each pool holds more identities than anybody can have in use: two jobs wait
\* and one is in hand; a generation and a request are each known in three
\* places.  The program counts identities up and does not run out of them.
LargePools ==
    \A pool \in {JobIds, GenerationIds, RequestIds} : \A a, b, d \in Nat : pool \ {a, b, d} # {}

\* The identities in use are those of the two queued jobs and the one in hand.
LEMMA IdentitiesInUse ==
    ASSUME JInv
    PROVE  \E a, b \in Nat : JobIdsHeld \subseteq {a, b, hand.job.id, NoId}
<1>1. /\ queue \in Seq(JobType) /\ Len(queue) <= 2 /\ JobsHeld /\ IInv
  BY DEF JInv, IInv, TasksOK, QueueDepth
<1>2. \A i \in DOMAIN queue : queue[i].id \in Nat /\ (i = 1 \/ i = 2)
  <2>1. \A i \in DOMAIN queue : queue[i] \in JobType /\ i \in 1..Len(queue) /\ Len(queue) \in Nat
    BY <1>1
  <2> QED
    BY <1>1, <2>1 DEF JobType
<1> DEFINE a == IF 1 \in DOMAIN queue THEN queue[1].id ELSE NoId
           b == IF 2 \in DOMAIN queue THEN queue[2].id ELSE NoId
<1>3. a \in Nat /\ b \in Nat
  BY <1>2
<1>4. QueuedIds \subseteq {a, b}
  BY <1>2 DEF QueuedIds
<1> HIDE DEF a, b
<1>5. c.preemptedJobs \subseteq QueuedIds \cup {hand.job.id}
  BY <1>1 DEF JobsHeld, PreemptedOK, PreemptedJobsHeld
<1>6. c.worker.jobId \in QueuedIds \cup {hand.job.id, NoId}
  BY <1>1, IdleHoldsNothing, LastJobHeld DEF JobsHeld, LastJobRuns, IInv
<1>7. c.display.pending \in {NoId, c.worker.jobId}
  BY <1>1 DEF JobsHeld, JobOK, PendingOwned
<1>8. JobIdsHeld \subseteq {a, b, hand.job.id, NoId}
  BY <1>4, <1>5, <1>6, <1>7 DEF JobIdsHeld
<1> QED
  BY <1>3, <1>8

\* With large pools an identity can always be given out.
LEMMA PoolsLast ==
    ASSUME LargePools, JInv
    PROVE  PoolsSuffice
<1>1. /\ c.sonos.discoveryId \in Nat /\ c.workerDiscoveryId \in Nat /\ hand.discoveryId \in Nat
      /\ c.subscription.requestId \in Nat /\ c.request \in Nat /\ hand.request \in Nat
      /\ hand.job.id \in Nat
  BY DEF JInv, IInv, CoordinatorOK, Open, Consistent, CoordinatorType, SonosType,
         SubscriptionType, TasksOK, HandType, JobType
<1>2. \A pool \in {JobIds, GenerationIds, RequestIds} :
          pool \in SUBSET Nat /\ NoId \notin pool
  BY RuntimeTaskAssumption
<1>3. FreshIn(GenerationIds, {c.sonos.discoveryId, c.workerDiscoveryId, hand.discoveryId}) # {}
  BY <1>1, <1>2, SomethingFresh DEF LargePools
<1>4. FreshIn(RequestIds, {c.subscription.requestId, c.request, hand.request}) # {}
  BY <1>1, <1>2, SomethingFresh DEF LargePools
<1>5. FreshIn(JobIds, JobIdsHeld) # {}
  <2>1. PICK a, b \in Nat : JobIdsHeld \subseteq {a, b, hand.job.id, NoId}
    BY IdentitiesInUse
  <2>2. JobIds \ {a, b, hand.job.id} # {}
    BY <1>1 DEF LargePools
  <2>3. JobIds \ JobIdsHeld # {}
    BY <1>2, <2>1, <2>2
  <2> QED
    BY <1>2, <2>3, SomethingFresh
<1>6. FreshIds # {}
  <2>1. PICK g, r :
            /\ g \in FreshIn(GenerationIds,
                             {c.sonos.discoveryId, c.workerDiscoveryId, hand.discoveryId})
            /\ r \in FreshIn(RequestIds, {c.subscription.requestId, c.request, hand.request})
    BY <1>3, <1>4
  <2>2. [gen |-> g, request |-> r] \in FreshIds
    BY <2>1 DEF FreshIds
  <2> QED
    BY <2>2
<1> QED
  BY <1>5, <1>6 DEF PoolsSuffice

\* The accounts of jobs that the runs check are part of the invariant.
LEMMA RecordsImplied ==
    ASSUME JInv
    PROVE  RunningJobHeld /\ PreemptedJobsHeld /\ PendingValuesOwned /\ PendingStatusOwned
<1>1. JobsHeld
  BY DEF JInv
<1>2. RunningJobHeld
  BY <1>1 DEF JobsHeld, LastJobRuns, LastJob, RunningJobHeld
<1>3. PreemptedJobsHeld /\ PendingValuesOwned
  BY <1>1 DEF JobsHeld, PreemptedOK, JobOK, PendingOwned, PendingValuesOwned
<1>4. PendingStatusOwned
  BY <1>1 DEF JobsHeld, PendingStatusOK, PendingStatusOwned, LastJobRuns, LastJob, Stopping, Unsettled
<1> QED
  BY <1>2, <1>3, <1>4

\* The running job is held by the task or last in its queue, preempted
\* identities wait for tasks that still hold the job, optimistic values and the
\* word "pending" belong to the running user mutation, and identities never
\* run out, whatever ends a job (a result, a deadline, a lost network, a user
\* preempting a read, maintenance, shutdown) and whenever it does.
THEOREM JobRecordsAlwaysHeld == LargePools => (Spec => []JobRecordsHeld)
<1> SUFFICES ASSUME LargePools PROVE Spec => []JobRecordsHeld
  OBVIOUS
<1>1. JInv => JobRecordsHeld
  BY PoolsLast, RecordsImplied DEF JobRecordsHeld
<1> QED
  BY <1>1, JobInvariance, PTL

\* Until its deadline a generation that is being discovered is offered to the
\* next job, or the running job is bound to it and has yet to report.
THEOREM GenerationsAreNotOrphaned == Spec => []NoOrphanGeneration
<1>1. JInv => NoOrphanGeneration
  BY DEF JInv, JobsHeld, JobOK, GenerationHeld, NoOrphanGeneration
<1> QED
  BY <1>1, JobInvariance, PTL

\* A mutation passes the dispatch fence only under a generation that its own
\* topology read made Ready.
THEOREM MutationsAreUnderOwnTopology == Spec => []MutationUnderOwnTopology
<1>1. JInv => MutationUnderOwnTopology
  <2> SUFFICES ASSUME IInv, JobsHeld, Allowed(TRUE)
               PROVE  /\ c.discoveryResultReceived /\ c.workerDiscoveryId = hand.discoveryId
                      /\ hand.pc \notin {"pickup", "topology", "topologyRead"}
    BY DEF JInv, MutationUnderOwnTopology
  <2>1. /\ c.worker.running /\ c.worker.jobId = hand.job.id
        /\ hand.discoveryId # NoId /\ c.sonos.discoveryId = hand.discoveryId
        /\ c.sonos.state = "Ready"
    BY DEF Allowed, DispatchAllowed, RuntimeJobActive
  <2>2. queue = <<>> /\ c.workerDiscoveryId = hand.discoveryId
    BY <2>1, ActiveInHand DEF JobsHeld, BoundAsTold
  <2>3. c.discoveryResultReceived
    BY <2>1, <2>2 DEF JobsHeld, JobOK, ReadyByOwnRead
  <2> QED
    BY <2>1, <2>2, <2>3 DEF JobsHeld, BoundAsTold
<1> QED
  BY <1>1, JobInvariance, PTL

------------------------------------------------------------------------------
(* What a step may never do *)

\* Only the report of a finished job puts it out of the task's hand.
LEMMA OnlyFinishEnds ==
    ASSUME NEW pc, hand.pc = "finish", hand'.pc = pc, pc # "finish", Next
    PROVE  Finish
<1>1. CASE MainTask
  BY <1>1 DEF MainTask, Boot, MainService, MainServiceWifi, UserInput, UserJob, AutomaticJob,
              Maintenance, PowerOff, MainShutdown
<1>2. CASE TopologyEvents
  BY <1>2 DEF TopologyEvents, TakeRequest, RequestAnswered, NotifyArrives
<1>3. CASE WorkerTask /\ ~Finish
  BY <1>3 DEF WorkerTask, Receive, Pickup, ReadTopology, ApplyTopology, PublishUnavailable,
              Invalidate, Loading, ReadRoom, PublishRead, Submit, Prepare, Execute, Verify, Conclude
<1>4. CASE Time \/ Asleep
  BY <1>4 DEF Time, Asleep, vars
<1> QED
  BY <1>1, <1>2, <1>3, <1>4 DEF Next

\* What the report of the job in hand does: FinishJob by its record, and the
\* session's cleanup by what it answers.
LEMMA FinishReports ==
    ASSUME JInv, Finish
    PROVE  \E finish \in {"Accepted", "Preempted", "Cancelled"} :
              /\ FinishedAs(c, c', hand.job.id, finish)
              /\ sessions' = IF hand.room # NoRoom
                             THEN [sessions EXCEPT ![hand.room] = Discarded(finish, sessions[hand.room])]
                             ELSE sessions
<1>1. PICK transportFailed \in BOOLEAN :
          LET usable == hand.room # NoRoom
              done == FinishJob(c, hand.job.id,
                         [targetUsable |-> usable, sessionOk |-> hand.result = "ok",
                          transportFailed |-> usable /\ transportFailed])
          IN  /\ c' = done.c
              /\ sessions' = IF usable
                             THEN [sessions EXCEPT ![hand.room] = Discarded(done.finish, @)]
                             ELSE sessions
  BY DEF Finish
<1> DEFINE input == [targetUsable |-> hand.room # NoRoom, sessionOk |-> hand.result = "ok",
                     transportFailed |-> hand.room # NoRoom /\ transportFailed]
           done == FinishJob(c, hand.job.id, input)
<1>2. hand.job.id \in Nat \ {NoId} /\ CoordinatorOK(c) /\ JobOK(c)
  BY DEF Finish, JInv, TasksOK, HandType, JobType, IInv, JobsHeld, InHandOK, Working
<1>3. FinishedAs(c, done.c, hand.job.id, done.finish)
  BY <1>2, FinishJobHeld
<1>4. /\ c' = done.c
      /\ sessions' = IF hand.room # NoRoom
                     THEN [sessions EXCEPT ![hand.room] = Discarded(done.finish, sessions[hand.room])]
                     ELSE sessions
  BY <1>1
<1> HIDE DEF done
<1> QED
  BY <1>3, <1>4 DEF FinishedAs

\* An uncertain room accepts commands again only after a read that was still
\* admitted when it finished (discardJobResult after finishJob).
THEOREM DoubtEndsWithARead == Spec => UncertainUntilRead
<1> DEFINE A == /\ hand.pc = "finish" /\ hand'.pc = "idle" /\ hand.room # NoRoom
                /\ hand.retained.recovery /\ ~sessions'[hand.room].recovery
                => /\ IsRead(hand.job) /\ hand.result = "ok"
                   /\ RuntimeJobActive(c.worker, hand.job.id, FALSE)
<1>1. ASSUME JInv, Next PROVE A
  <2> SUFFICES ASSUME hand.pc = "finish", hand'.pc = "idle", hand.room # NoRoom,
                      hand.retained.recovery, ~sessions'[hand.room].recovery
               PROVE  /\ IsRead(hand.job) /\ hand.result = "ok"
                      /\ RuntimeJobActive(c.worker, hand.job.id, FALSE)
    OBVIOUS
  <2>1. Finish
    BY <1>1, OnlyFinishEnds
  <2>2. PICK finish \in {"Accepted", "Preempted", "Cancelled"} :
            /\ FinishedAs(c, c', hand.job.id, finish)
            /\ sessions' = IF hand.room # NoRoom
                           THEN [sessions EXCEPT ![hand.room] = Discarded(finish, sessions[hand.room])]
                           ELSE sessions
    BY <1>1, <2>1, FinishReports
  <2>3. /\ hand \in HandType /\ HandInSession /\ sessions \in [Rooms -> StateType]
        /\ hand.job.id # NoId
    BY <1>1 DEF JInv, IInv, TasksOK, JobsHeld, InHandOK, Working
  <2>4. hand.room \in Rooms /\ hand.retained \in StateType
    BY <2>3 DEF HandType, HandInSession
  <2>5. sessions'[hand.room] = Discarded(finish, sessions[hand.room])
    BY <2>2, <2>3, <2>4
  <2>6. finish = "Accepted"
    BY <2>2, <2>4, <2>5 DEF Discarded, StateType
  <2>7. ~sessions[hand.room].recovery
    BY <2>5, <2>6 DEF Discarded
  <2>8. IsRead(hand.job) /\ hand.result = "ok"
    BY <1>1, <2>7 DEF JInv, JobsHeld, DoubtKept
  <2>9. RuntimeJobActive(c.worker, hand.job.id, FALSE)
    BY <2>2, <2>3, <2>6 DEF FinishedAs, RuntimeJobActive
  <2> QED
    BY <2>8, <2>9
<1>2. ASSUME JInv, UNCHANGED vars PROVE [A]_vars
  BY <1>2
<1>3. JInv /\ [Next]_vars => [A]_vars
  BY <1>1, <1>2
<1> QED
  BY <1>3, JobInvariance, PTL DEF Spec, UncertainUntilRead

\* Once the device is stopping nothing revives it: no job is admitted, no
\* network or household authority is gained, no observation is published
\* (main's shutdown, runWorker's fences on stopping_).
THEOREM NothingRevivesAStoppingDevice == Spec => StoppingIsFinal
<1> DEFINE A == Stopping =>
                   /\ c'.worker.running => c.worker.running
                   /\ c'.wifi.ready => c.wifi.ready
                   /\ c'.sonos.state = "Ready" => c.sonos.state = "Ready"
                   /\ \/ c'.display.stale
                      \/ [c'.display EXCEPT !.pending = c.display.pending] = c.display
           B == (c'.worker = c.worker \/ ~c'.worker.running) /\ Subdued(c, c')
<1>1. ASSUME JInv, JInv', B PROVE A
  <2>1. /\ c'.worker.running => c.worker.running
        /\ c'.wifi.ready => c.wifi.ready
        /\ c'.sonos.state = "Ready" => c.sonos.state = "Ready"
    BY <1>1 DEF Subdued
  <2>2. c.display \in DisplayType /\ c'.display \in DisplayType
    BY <1>1 DEF JInv, IInv, CoordinatorOK, Open, Consistent, CoordinatorType
  <2>3. \/ c'.display.stale
        \/ [c'.display EXCEPT !.pending = c.display.pending] = c.display
    BY <1>1, <2>2 DEF Subdued, NothingNew, DisplayType
  <2> QED
    BY <2>1, <2>3
<1>2. ASSUME NEW d, Steady(c, d), c' = d PROVE B
  BY <1>2 DEF Steady, Follows
<1>3. ASSUME c' = c PROVE B
  BY <1>3 DEF Subdued, NothingNew
<1>4. ASSUME JInv, Next, Stopping PROVE B
  <2>1. /\ CoordinatorOK(c) /\ JobOK(c) /\ c \in CoordinatorType /\ hand \in HandType
    BY <1>4 DEF JInv, IInv, JobsHeld, CoordinatorOK, Open, Consistent, TasksOK
  <2>2. main \notin {"boot", "up"}
    BY <1>4 DEF Stopping
  <2>3. CASE MainTask
    <3>1. MainShutdown
      BY <2>2, <2>3 DEF MainTask, Boot, MainService, MainServiceWifi, UserInput, UserJob,
                        AutomaticJob, Maintenance, PowerOff
    <3>2. Steady(c, Shutdown(c)) /\ c' = Shutdown(c)
      BY <2>1, <3>1, ShutdownHeld DEF MainShutdown
    <3> QED
      BY <1>2, <3>2
  <2>4. CASE TopologyEvents
    <3>1. RequestAnswered
      BY <1>4, <2>4 DEF TopologyEvents, TakeRequest, NotifyArrives
    <3>2. hand.request \in Nat /\ Leases \subseteq Nat /\ 0 \in Nat
      BY <2>1, RuntimeTaskAssumption DEF HandType
    <3>3. PICK ok \in BOOLEAN, sid \in Sids \cup {NoSid}, lease \in Nat :
              c' = SubscriptionResult(c, hand.request, ok, sid, lease)
      BY <3>1, <3>2 DEF RequestAnswered
    <3> QED
      BY <1>2, <2>1, <3>2, <3>3, SubscriptionResultSteady
  <2>5. CASE Pickup
    <3>1. CASE c' = c
      BY <1>3, <3>1
    <3>2. CASE c' # c
      <4>1. PICK f \in FreshIds : c' = BindDiscovery(c, hand.job.id, f).c
        BY <2>5, <3>2 DEF Pickup
      <4>2. FreshOK(f)
        BY FreshIdsOK
      <4>3. c.worker.running /\ c.worker.jobId = hand.job.id => ~c.discoveryResultReceived
        BY <1>4, <2>5 DEF Pickup, JInv, JobsHeld, BoundAsTold
      <4>4. Bound(c, c', hand.job.id, BindDiscovery(c, hand.job.id, f).discoveryId)
        BY <2>1, <4>1, <4>2, <4>3, BindDiscoveryHeld
      <4> QED
        BY <4>4 DEF Bound
    <3> QED
      BY <3>1, <3>2
  <2>6. CASE Finish
    BY <1>4, <2>6, FinishReports DEF FinishedAs
  <2>7. CASE WorkerTask /\ ~Pickup /\ ~Finish
    <3>1. ~Active
      BY <1>4 DEF Active, RuntimeJobActive
    <3>2. \A room, state : Publish(c, hand.job.id, room, state, selected, Stopping) = c
      BY <1>4 DEF Publish, RuntimeJobActive
    <3>3. CASE Receive \/ ReadTopology \/ ReadRoom \/ Prepare
      BY <1>3, <3>3 DEF Receive, ReadTopology, ReadRoom, Prepare
    <3>4. CASE ApplyTopology
      BY <1>3, <3>1, <3>4 DEF ApplyTopology, Abandon
    <3>5. CASE PublishUnavailable \/ Invalidate \/ Loading \/ PublishRead
      BY <1>3, <3>2, <3>5 DEF PublishUnavailable, PublishSession, Invalidate, Loading, PublishRead
    <3>6. CASE Submit \/ Execute \/ Verify \/ Conclude
      BY <1>3, <3>2, <3>6 DEF PublishSession, Submit, Execute, Verify, Conclude
    <3> QED
      BY <2>7, <3>3, <3>4, <3>5, <3>6 DEF WorkerTask
  <2>8. CASE Time \/ Asleep
    BY <1>3, <2>2, <2>8 DEF Time, Asleep, vars
  <2> QED
    BY <1>4, <2>3, <2>4, <2>5, <2>6, <2>7, <2>8 DEF Next
<1>5. ASSUME JInv, JInv', Next PROVE A
  BY <1>1, <1>4, <1>5
<1>6. JInv /\ JInv' /\ [Next]_vars => [A]_vars
  BY <1>5
<1> QED
  BY <1>6, JobInvariance, PTL DEF Spec, StoppingIsFinal

\* While another job runs in time, what the task still does for a job that has
\* ended changes nothing but the record of preemptions, or services the
\* lifecycles as any input does (the active checks of runWorker, finishJob).
THEOREM EndedJobsAreInert == Spec => EndedJobIsInert
<1> DEFINE P == /\ hand.job.id # NoId /\ hand' # hand
                /\ c.worker.running /\ c.worker.jobId # hand.job.id /\ c.worker.left > 0
           G == \/ c' = [c EXCEPT !.preemptedJobs = c'.preemptedJobs]
                \/ \E f \in FreshIds : c' = Service(c, f)
           A == P => G
<1>1. ASSUME JInv, Next, P PROVE G
  <2>1. /\ CoordinatorOK(c) /\ JobOK(c) /\ c \in CoordinatorType /\ Working
    BY <1>1 DEF JInv, IInv, JobsHeld, CoordinatorOK, Open, Consistent, InHandOK, NoJob
  <2>2. ASSUME c' = c PROVE G
    <3>1. c' = [c EXCEPT !.preemptedJobs = c'.preemptedJobs]
      BY <2>1, <2>2 DEF CoordinatorType
    <3> QED
      BY <3>1
  <2>3. ~RuntimeJobActive(c.worker, hand.job.id, Stopping)
    BY <1>1 DEF RuntimeJobActive
  <2>4. CASE MainTask \/ Time \/ Asleep
    BY <1>1, <2>4 DEF MainTask, Boot, MainService, MainServiceWifi, UserInput, UserJob, AutomaticJob,
                      Maintenance, PowerOff, MainShutdown, Time, Asleep, vars
  <2>5. CASE TopologyEvents \/ Receive
    BY <1>1, <2>1, <2>5 DEF TopologyEvents, TakeRequest, RequestAnswered, NotifyArrives, Receive, Working
  <2>6. CASE Pickup
    <3>1. CASE c' = c
      BY <2>2, <3>1
    <3>2. CASE c' # c
      <4>1. PICK f \in FreshIds : c' = BindDiscovery(c, hand.job.id, f).c
        BY <2>6, <3>2 DEF Pickup
      <4>2. FreshOK(f)
        BY FreshIdsOK
      <4>3. ExpireWorker(c) = c
        BY <1>1, <2>1, NothingExpires
      <4>4. Service(c, f).worker = c.worker
        BY <2>1, <4>2, <4>3, ServiceSteady
      <4>5. ~RuntimeJobActive(Service(c, f).worker, hand.job.id, FALSE)
        BY <1>1, <4>4 DEF RuntimeJobActive
      <4>6. c' = Service(c, f)
        BY <4>1, <4>5 DEF BindDiscovery, BindActiveJob
      <4> QED
        BY <4>6
    <3> QED
      BY <3>1, <3>2
  <2>7. CASE Finish
    <3>1. PICK finish \in {"Accepted", "Preempted", "Cancelled"} :
              FinishedAs(c, c', hand.job.id, finish)
      BY <1>1, <2>7, FinishReports
    <3>2. finish # "Accepted"
      BY <1>1, <3>1 DEF FinishedAs
    <3> QED
      BY <1>1, <3>1, <3>2 DEF FinishedAs
  <2>8. CASE WorkerTask /\ ~Receive /\ ~Pickup /\ ~Finish
    <3>1. \A room, state : Publish(c, hand.job.id, room, state, selected, Stopping) = c
      BY <2>3 DEF Publish
    <3>2. ~Active
      BY <2>3 DEF Active
    <3>3. CASE ApplyTopology
      BY <2>2, <3>2, <3>3 DEF ApplyTopology, Abandon
    <3>4. CASE ReadTopology \/ ReadRoom \/ Prepare
      BY <2>2, <3>4 DEF ReadTopology, ReadRoom, Prepare
    <3>5. CASE PublishUnavailable \/ Invalidate \/ Loading \/ PublishRead
      BY <2>2, <3>1, <3>5 DEF PublishUnavailable, PublishSession, Invalidate, Loading, PublishRead
    <3>6. CASE Submit \/ Execute \/ Verify \/ Conclude
      BY ZenonT(30), <2>2, <3>1, <3>6 DEF PublishSession, Submit, Execute, Verify, Conclude
    <3> QED
      BY <2>8, <3>3, <3>4, <3>5, <3>6 DEF WorkerTask
  <2> QED
    BY <1>1, <2>4, <2>5, <2>6, <2>7, <2>8 DEF Next
<1>2. JInv /\ [Next]_vars => [A]_vars
  BY <1>1
<1> QED
  BY <1>2, JobInvariance, PTL DEF Spec, EndedJobIsInert

\* Where nothing was revoked and no job ended, delivering the facts does no
\* more than owe a read.
LEMMA OnlyOwed ==
    ASSUME NEW x \in CoordinatorType, ~x.invalidated, x.completion = NoCompletion, NEW b
    PROVE  \E owed \in BOOLEAN :
              /\ owed = (x.reconciliationPending \/ x.reconcile \/ x.topologyChanged)
              /\ ApplyFacts(x, b) = [x EXCEPT !.reconciliationPending = owed, !.reconcile = FALSE,
                                              !.topologyChanged = FALSE]
<1>1. RevokeSubscription(x) = x
  BY DEF RevokeSubscription
<1>2. PICK stale \in BOOLEAN : stale = (x.display.stale \/ x.invalidated)
  BY Zenon
<1>3. stale = x.display.stale
  BY <1>2 DEF CoordinatorType, DisplayType
<1> DEFINE marked == [x EXCEPT !.invalidated = FALSE, !.display.stale = stale]
<1>4. marked = x
  BY <1>3 DEF CoordinatorType, DisplayType
<1>5. PICK owed \in BOOLEAN :
          owed = (x.reconciliationPending \/ x.reconcile \/ x.topologyChanged)
  BY Zenon
<1> DEFINE d == [x EXCEPT !.reconciliationPending = owed, !.reconcile = FALSE,
                          !.topologyChanged = FALSE]
<1>6. ApplySonosFacts(x) = d
  <2>1. marked = [x EXCEPT !.invalidated = FALSE, !.display.stale = @ \/ x.invalidated]
    BY <1>2
  <2>2. OweReconciliation(x) = d
    BY <1>5 DEF OweReconciliation
  <2> HIDE DEF marked, d
  <2> QED
    BY <1>1, <1>4, <2>1, <2>2 DEF ApplySonosFacts
<1>7. d.completion = NoCompletion
  BY DEF CoordinatorType
<1> HIDE DEF d
<1>8. ApplyFacts(x, b) = d
  BY <1>6, <1>7 DEF ApplyFacts, DeliverCompletion
<1> QED
  BY <1>5, <1>8 DEF d

\* A tick of the Sonos machine that leaves a household in use or in discovery
\* says nothing of the room shown, owes no read and counts no failure.
LEMMA TickSonosQuiet ==
    ASSUME NEW x, CoordinatorOK(x), NEW f, FreshOK(f),
           SonosTick(x.sonos, f.gen).sonos.state \in {"Ready", "Discovering"}
    PROVE  LET d == TickSonos(x, f.gen)
           IN  /\ d.display = x.display /\ d.reconciliationPending = x.reconciliationPending
               /\ d.sonos.failures = x.sonos.failures
<1> DEFINE r == SonosTick(x.sonos, f.gen)
           e == SonosEvent(x, r)
           d == TickSonos(x, f.gen)
<1>1. Consistent(x) /\ Delivered(x) /\ x \in CoordinatorType /\ x.sonos \in SonosType
  BY DEF CoordinatorOK, Open, Consistent, CoordinatorType
<1>2. SonosResultOK(r)
  <2>1. 1 \in Nat /\ Open(x)
    BY DEF CoordinatorOK
  <2> QED
    BY <2>1, MachineResults
<1>3. r.fx \in {{}, {"discoveryRequested"}} /\ r.sonos.failures = x.sonos.failures
  <2>1. \/ r = SonosStays(x.sonos)
        \/ r = BeginDiscovery(x.sonos, f.gen, TRUE)
        \/ r = SonosBackoff(x.sonos, FALSE)
    BY DEF SonosTick
  <2>2. SonosBackoff(x.sonos, FALSE).sonos.state = "Backoff"
    BY <1>1 DEF SonosBackoff, SonosType
  <2>3. r.sonos.state \in {"Ready", "Discovering"}
    OBVIOUS
  <2>4. SonosStays(x.sonos).fx = {} /\ SonosStays(x.sonos).sonos = x.sonos
    BY DEF SonosStays
  <2>5. /\ BeginDiscovery(x.sonos, f.gen, TRUE).fx = {"discoveryRequested"}
        /\ BeginDiscovery(x.sonos, f.gen, TRUE).sonos.failures = x.sonos.failures
    BY <1>1 DEF BeginDiscovery, SonosType
  <2> HIDE DEF r
  <2> QED
    BY <2>1, <2>2, <2>3, <2>4, <2>5
<1> HIDE DEF r
<1>4. /\ Consistent(e) /\ e.sonos = r.sonos /\ e.display = x.display
      /\ e.completion = x.completion /\ e.invalidated = x.invalidated /\ e.reconcile = x.reconcile
      /\ e.reconciliationPending = x.reconciliationPending
      /\ e.topologyChanged = x.topologyChanged
  BY <1>1, <1>2, <1>3, SonosEventKeeps, SonosEventLeavesJobs
<1>5. d = ApplyFacts(e, TRUE)
  BY DEF TickSonos, r
<1> HIDE DEF e, d
<1>6. e \in CoordinatorType /\ ~e.invalidated /\ e.completion = NoCompletion
  BY <1>1, <1>4 DEF Consistent, Delivered
<1>7. PICK owed \in BOOLEAN :
          /\ owed = (e.reconciliationPending \/ e.reconcile \/ e.topologyChanged)
          /\ d = [e EXCEPT !.reconciliationPending = owed, !.reconcile = FALSE,
                           !.topologyChanged = FALSE]
  BY <1>5, <1>6, OnlyOwed
<1>8. owed = x.reconciliationPending
  BY <1>1, <1>4, <1>7 DEF Delivered, CoordinatorType
<1>9. d.display = e.display /\ d.reconciliationPending = owed /\ d.sonos = e.sonos
  BY <1>6, <1>7 DEF CoordinatorType
<1> QED
  BY <1>3, <1>4, <1>8, <1>9 DEF d

\* A tick of the subscription machine says nothing of the room shown and owes
\* no read.
LEMMA TickSubscriptionQuiet ==
    ASSUME NEW x, CoordinatorOK(x), NEW f, FreshOK(f)
    PROVE  LET d == TickSubscription(x, f.request)
           IN  /\ d.subscription = SubTick(x.subscription, f.request).sub
               /\ d.display = x.display /\ d.reconciliationPending = x.reconciliationPending
<1> DEFINE r == SubTick(x.subscription, f.request)
           sent == IF r.request = NoId THEN x.request ELSE r.request
           e == SubscriptionEvent(x, r)
           d == [x EXCEPT !.subscription = r.sub, !.request = sent]
<1>1. Consistent(x) /\ Delivered(x) /\ x \in CoordinatorType
  BY DEF CoordinatorOK, Open, Consistent
<1>2. SubResultOK(r)
  <2>1. 1 \in Nat /\ Open(x)
    BY DEF CoordinatorOK
  <2> QED
    BY <2>1, MachineResults
<1>3. r.changed = FALSE
  BY DEF SubTick, SubBackoff, StartRequest, SubIs
<1>4. TickSubscription(x, f.request) = ApplyFacts(e, TRUE)
  BY DEF TickSubscription
<1> HIDE DEF r
<1>5. e = d
  <2>1. e = [x EXCEPT !.subscription = r.sub, !.request = sent,
                      !.topologyChanged = @ \/ r.changed]
    BY DEF SubscriptionEvent
  <2>2. (x.topologyChanged \/ r.changed) = x.topologyChanged
    BY <1>1, <1>3 DEF CoordinatorType
  <2> HIDE DEF sent
  <2> QED
    BY <1>1, <2>1, <2>2 DEF CoordinatorType
<1>6. Consistent(e)
  BY <1>1, <1>2, SubscriptionEventKeeps
<1> HIDE DEF sent, e
<1>7. Delivered(d)
  BY <1>1 DEF Delivered, CoordinatorType
<1>8. ApplyFacts(d, TRUE) = d
  BY <1>5, <1>6, <1>7, NothingRecorded DEF Consistent
<1>9. /\ d.subscription = r.sub /\ d.display = x.display
      /\ d.reconciliationPending = x.reconciliationPending
  BY <1>1 DEF CoordinatorType
<1> QED
  BY <1>4, <1>5, <1>8, <1>9 DEF r

\* Servicing the lifecycles beside a job that is in time, with a household in
\* use or in discovery, says nothing of the room shown, owes no read and counts
\* no failure.
LEMMA ServiceQuiet ==
    ASSUME NEW x, CoordinatorOK(x), JobOK(x), NEW f, FreshOK(f),
           x.worker.running, x.worker.left > 0,
           Service(x, f).sonos.state \in {"Ready", "Discovering"}
    PROVE  LET d == Service(x, f)
           IN  /\ d.display = x.display /\ d.reconciliationPending = x.reconciliationPending
               /\ d.sonos.failures = x.sonos.failures
<1> DEFINE s == TickSonos(x, f.gen)
           d == Service(x, f)
<1>1. ExpireWorker(x) = x
  BY NothingExpires
<1>2. CoordinatorOK(s) /\ s.sonos = SonosTick(x.sonos, f.gen).sonos
  BY TickSonosSteady
<1>3. d.sonos = SonosTick(x.sonos, f.gen).sonos
  BY <1>1, ServiceSteady
<1>4. /\ s.display = x.display /\ s.reconciliationPending = x.reconciliationPending
      /\ s.sonos.failures = x.sonos.failures
  BY <1>3, TickSonosQuiet
<1>5. d = TickSubscription(s, f.request)
  BY <1>1 DEF Service
<1>6. d.display = s.display /\ d.reconciliationPending = s.reconciliationPending
  BY <1>2, <1>5, TickSubscriptionQuiet
<1> QED
  BY <1>2, <1>3, <1>4, <1>6

\* Preempting a read is not a failure: the step that preempts leaves the
\* displayed observation, the command status and the schedule of
\* reconciliation as they were (RuntimeCoordinator::preemptAutomaticJob and the
\* delivery of a Preempted completion).
THEOREM PreemptionCostsNothing == Spec => PreemptionIsNotFailure
<1> DEFINE Same == /\ c'.reconciliationPending = c.reconciliationPending
                   /\ c'.sonos.failures = c.sonos.failures
                   /\ \/ c'.display.target # c.display.target
                      \/ [c'.display EXCEPT !.pending = NoId] = [c.display EXCEPT !.pending = NoId]
           Shrinks == c'.preemptedJobs \subseteq c.preemptedJobs
           A == ~Shrinks => Same
<1>1. ASSUME JInv, JInv', Next PROVE Shrinks \/ Same
  <2>1. /\ CoordinatorOK(c) /\ JobOK(c) /\ c \in CoordinatorType /\ c.display \in DisplayType
        /\ IInv /\ IInv' /\ JobsHeld /\ hand \in HandType
    BY <1>1 DEF JInv, IInv, JobsHeld, CoordinatorOK, Open, Consistent, TasksOK, CoordinatorType
  <2>2. CASE Held(c, c') \/ c' = c
    BY <2>2 DEF Held, Follows
  <2>3. CASE Boot \/ MainService \/ MainServiceWifi \/ PowerOff \/ MainShutdown
    BY <2>1, <2>2, <2>3, DeviceHeld
  <2>4. CASE TopologyEvents
    BY <2>1, <2>2, <2>4, TopologyEventHeld
  <2>5. CASE Maintenance
    <3>1. CASE c.worker.running
      <4>1. c' = PreemptAutomatic(c)
        BY <2>5, <3>1 DEF Maintenance
      <4>2. PreemptedFrom(c, c') \/ Steady(c, c')
        BY <2>1, <4>1, PreemptAutomaticHeld
      <4>3. CASE PreemptedFrom(c, c')
        BY <2>1, <4>3 DEF PreemptedFrom, DisplayType
      <4>4. CASE Steady(c, c')
        BY <2>2, <4>4 DEF Steady, Held
      <4> QED
        BY <4>2, <4>3, <4>4
    <3>2. CASE ~c.worker.running
      BY <2>5, <2>2, <3>2 DEF Maintenance
    <3> QED
      BY <3>1, <3>2
  <2>6. CASE UserInput
    <3>1. PICK kind \in UserKinds, room \in Rooms \cup {NoRoom} : UserJob(kind, room)
      BY <2>6 DEF UserInput
    <3>2. PICK f \in FreshIds, id \in FreshIn(JobIds, JobIdsHeld) :
              AcceptUserJob(Service(c, f), id, kind, room)
      BY <3>1 DEF UserJob
    <3> DEFINE s == Service(c, f)
               refresh == kind # "mutation"
               d == CommitJob(s, id, refresh, "user")
    <3>3. id \in Nat \ {NoId} /\ FreshOK(f) /\ refresh \in BOOLEAN /\ "user" \in Origins
      BY FreshIdsOK, RuntimeTaskAssumption DEF Origins, FreshIn
    <3>4. /\ CoordinatorOK(s) /\ Steady(c, s) /\ s.worker = ExpireWorker(c).worker
          /\ ExpireWorker(c).worker.running => c.worker.left > 0
      BY <2>1, <3>3, ServiceSteady, ExpireWorkerSteady
    <3>5. /\ Admitted(s, refresh, "user", FALSE)
          /\ c' = d \/ c' = SelectObservedRoom(d, room)
      BY <3>2 DEF AcceptUserJob
    <3>6. s.sonos.state \in {"Ready", "Discovering"}
      BY <3>5 DEF Admitted, Routine
    <3>7. c.worker.running /\ c.worker.left > 0
             => /\ s.display = c.display /\ s.reconciliationPending = c.reconciliationPending
                /\ s.sonos.failures = c.sonos.failures
      BY <2>1, <3>3, <3>6, ServiceQuiet
    <3> HIDE DEF s
    <3>8. Committed(s, d, id, "user") /\ CoordinatorOK(d)
      BY <3>3, <3>4, <3>5, CommitJobHeld, CommitJobSound DEF Sound, Steady
    <3> HIDE DEF d
    <3>9. JobOK(d) /\ d.display \in DisplayType
      BY <3>8 DEF Committed, CoordinatorOK, Open, Consistent, CoordinatorType
    <3>10. /\ c'.preemptedJobs = d.preemptedJobs
           /\ c'.reconciliationPending = d.reconciliationPending /\ c'.sonos = d.sonos
           /\ c'.display = d.display \/ c'.display.target # d.display.target
      <4>1. CASE c' = d
        BY <4>1
      <4>2. CASE c' = SelectObservedRoom(d, room)
        BY <3>8, <3>9, <4>2, SelectObservedRoomHeld DEF SameJobs
      <4> QED
        BY <3>5, <4>1, <4>2
    <3>11. CASE d.preemptedJobs = s.preemptedJobs
      BY <3>4, <3>10, <3>11 DEF Steady, Follows
    <3>12. CASE d.preemptedJobs # s.preemptedJobs
      <4>1. /\ s.worker.running /\ d.sonos = s.sonos
            /\ d.reconciliationPending = s.reconciliationPending
            /\ [d.display EXCEPT !.pending = NoId] = [s.display EXCEPT !.pending = NoId]
        BY <3>8, <3>12 DEF Committed
      <4>2. c.worker.running /\ c.worker.left > 0
        BY <3>4, <4>1 DEF Steady, Follows
      <4>3. d.display.target = c.display.target
        BY <2>1, <3>7, <3>9, <4>1, <4>2 DEF DisplayType
      <4> QED
        BY <3>7, <3>10, <4>1, <4>2, <4>3
    <3> QED
      BY <3>11, <3>12
  <2>7. CASE AutomaticJob
    <3>1. PICK f \in FreshIds, id \in FreshIn(JobIds, JobIdsHeld) :
              /\ AutomaticJobDue(Service(c, f), FALSE)
              /\ QueueAutomaticJob(TakeAutomaticTurn(Service(c, f)), id)
      BY <2>7 DEF AutomaticJob
    <3> DEFINE s == Service(c, f)
               t == TakeAutomaticTurn(s)
               d == CommitJob(t, id, TRUE, "automatic")
    <3>2. id \in Nat \ {NoId} /\ FreshOK(f) /\ TRUE \in BOOLEAN /\ "automatic" \in Origins
      BY FreshIdsOK, RuntimeTaskAssumption DEF Origins, FreshIn
    <3>3. CoordinatorOK(s) /\ Steady(c, s) /\ ~s.worker.running
      BY <2>1, <3>1, <3>2, ServiceSteady DEF AutomaticJobDue
    <3>4. c' = t \/ (c' = d /\ Admitted(t, TRUE, "automatic", FALSE))
      BY <3>1 DEF QueueAutomaticJob
    <3> HIDE DEF s
    <3>5. /\ CoordinatorOK(t) /\ JobOK(t) /\ t.worker = s.worker
          /\ t.preemptedJobs = s.preemptedJobs
      BY <3>3, TakeAutomaticTurnSound, TakeAutomaticTurnHeld DEF Sound, Steady, Held
    <3> HIDE DEF t
    <3>6. CASE c' = t
      BY <3>3, <3>5, <3>6 DEF Steady, Follows
    <3>7. CASE c' = d /\ Admitted(t, TRUE, "automatic", FALSE)
      <4>1. Committed(t, d, id, "automatic")
        BY <3>2, <3>5, <3>7, CommitJobHeld
      <4>2. d.preemptedJobs = t.preemptedJobs
        BY <3>3, <3>5, <4>1 DEF Committed
      <4> QED
        BY <3>3, <3>5, <3>7, <4>2 DEF Steady, Follows
    <3> QED
      BY <3>4, <3>6, <3>7
  <2>8. CASE Pickup
    <3>1. ASSUME NEW f \in FreshIds, c' = BindDiscovery(c, hand.job.id, f).c PROVE Shrinks
      <4>1. FreshOK(f)
        BY FreshIdsOK
      <4>2. c.worker.running /\ c.worker.jobId = hand.job.id => ~c.discoveryResultReceived
        BY <2>1, <2>8 DEF Pickup, JobsHeld, BoundAsTold
      <4>3. Bound(c, c', hand.job.id, BindDiscovery(c, hand.job.id, f).discoveryId)
        BY <2>1, <3>1, <4>1, <4>2, BindDiscoveryHeld
      <4> QED
        BY <4>3 DEF Bound
    <3> QED
      BY <2>2, <2>8, <3>1 DEF Pickup
  <2>9. CASE ApplyTopology
    <3>1. ASSUME NEW f \in FreshIds, NEW host \in Hosts, NEW eligible \in Topologies \cup {rooms},
                 NEW chosen \in Rooms \cup {NoRoom},
                 UseTopology(DiscoveryResult(c, hand.job.id, hand.discoveryId,
                                             hand.result = "ok", host, f), eligible, chosen)
          PROVE  Shrinks
      BY <2>1, <3>1, TopologyAnswered DEF Answered
    <3>2. CASE Abandon
      BY <2>2, <3>2 DEF Abandon
    <3> QED
      BY <2>9, <3>1, <3>2 DEF ApplyTopology
  <2>10. CASE Finish
    <3>1. PICK finish \in {"Accepted", "Preempted", "Cancelled"} :
              FinishedAs(c, c', hand.job.id, finish)
      BY <1>1, <2>10, FinishReports
    <3> QED
      BY <3>1 DEF FinishedAs
  <2>11. CASE Receive \/ ReadTopology \/ ReadRoom \/ Prepare \/ Asleep
    BY <2>2, <2>11 DEF Receive, ReadTopology, ReadRoom, Prepare, Asleep, vars
  <2>12. ASSUME NEW room, NEW state, c' = Publish(c, hand.job.id, room, state, selected, Stopping)
         PROVE  Shrinks
    BY <2>1, <2>12, PublicationJobs DEF SameJobs
  <2>13. CASE PublishUnavailable
    BY <2>12, <2>13 DEF PublishUnavailable
  <2>14. CASE Invalidate \/ Loading \/ PublishRead \/ Execute \/ Verify \/ Conclude
    BY <2>12, <2>14 DEF PublishSession, Invalidate, Loading, PublishRead, Execute, Verify, Conclude
  <2>15. CASE Submit
    BY <2>2, <2>12, <2>15 DEF PublishSession, Submit
  <2>16. CASE Time
    BY <2>1, <2>16 DEF Time, WorkerTime, WifiTime, SonosTime, RequestTime, LeaseTime, RateTime,
                       PollTime, CoordinatorType
  <2> QED
    BY <1>1, <2>3, <2>4, <2>5, <2>6, <2>7, <2>8, <2>9, <2>10, <2>11, <2>13, <2>14, <2>15, <2>16
       DEF Next, MainTask, WorkerTask
<1>2. JInv /\ JInv' /\ [Next]_vars => [A]_vars
  BY <1>1
<1> QED
  BY <1>2, JobInvariance, PTL DEF Spec, PreemptionIsNotFailure

\* A Sonos machine whose deadline or retry is still ahead does nothing on a tick.
LEMMA SonosCalm ==
    ASSUME NEW d, d.left > 0, NEW id
    PROVE  SonosTick(d, id) = SonosStays(d)
<1>1. ~(d.state = "Discovering" /\ d.left = 0) /\ ~(d.state = "Backoff" /\ d.left = 0)
  OBVIOUS
<1> QED
  BY <1>1, Zenon DEF SonosTick

\* A second tick of the Sonos machine in the same millisecond finds nothing due.
LEMMA SonosTickSettles ==
    ASSUME NEW s, SonosOK(s), NEW id
    PROVE  SonosTick(SonosTick(s, id).sonos, id) = SonosStays(SonosTick(s, id).sonos)
<1>1. s \in SonosType /\ s.attempts \in Nat /\ s.left \in Nat /\ DiscoveryBudget > 0
  BY DiscoveryAssumption DEF SonosOK, SonosType
<1>2. RetryDelay(s.attempts) > 0
  BY <1>1, RetryDelayRange, BackoffAssumption
<1>3. CASE s.state = "Discovering" /\ s.left = 0
  <2>1. SonosTick(s, id) = SonosBackoff(s, FALSE)
    BY <1>3 DEF SonosTick
  <2>2. SonosBackoff(s, FALSE).sonos.left = RetryDelay(s.attempts)
    BY <1>1 DEF SonosBackoff, SonosType
  <2>3. SonosTick(s, id).sonos.left > 0
    BY <1>2, <2>1, <2>2
  <2> QED
    BY <2>3, SonosCalm
<1>4. CASE s.state = "Backoff" /\ s.left = 0
  <2>1. SonosTick(s, id) = BeginDiscovery(s, id, TRUE)
    BY <1>4 DEF SonosTick
  <2>2. BeginDiscovery(s, id, TRUE).sonos.left = DiscoveryBudget
    BY <1>1 DEF BeginDiscovery, SonosType
  <2>3. SonosTick(s, id).sonos.left > 0
    BY <1>1, <2>1, <2>2
  <2> QED
    BY <2>3, SonosCalm
<1>5. CASE ~(s.state = "Discovering" /\ s.left = 0) /\ ~(s.state = "Backoff" /\ s.left = 0)
  <2>1. SonosTick(s, id) = SonosStays(s)
    BY <1>5, Zenon DEF SonosTick
  <2>2. SonosStays(s).sonos = s
    BY DEF SonosStays
  <2> QED
    BY <2>1, <2>2
<1> QED
  BY <1>3, <1>4, <1>5

\* A subscription with a time ahead of it and no lapsed lease does nothing on a tick.
LEMMA SubCalm ==
    ASSUME NEW d, d.left > 0, d.state # "Healthy", d.sid = NoSid \/ d.leaseLeft > 0, NEW id
    PROVE  SubTick(d, id) = SubIs(d)
<1>1. /\ ~(d.sid # NoSid /\ d.leaseLeft = 0)
      /\ ~(d.state \in Requesting /\ d.left = 0)
      /\ ~(d.state = "Healthy" /\ d.renewLeft = 0 /\ d.leaseLeft > 0)
      /\ ~(d.state = "Backoff" /\ d.left = 0)
  OBVIOUS
<1> QED
  BY <1>1, Zenon DEF SubTick

\* Nor does a second tick of the subscription machine.
LEMMA SubTickSettles ==
    ASSUME NEW s, SubOK(s), NEW id
    PROVE  SubTick(SubTick(s, id).sub, id) = SubIs(SubTick(s, id).sub)
<1>1. /\ s \in SubscriptionType(Hosts, Sids) /\ s.attempts \in Nat /\ RequestBudget > 0
      /\ SubscriptionInvariant(s)
  BY SubscriptionAssumption DEF SubOK, SubscriptionType
<1>2. RetryDelay(s.attempts) > 0
  BY <1>1, RetryDelayRange, BackoffAssumption
<1>3. CASE SubTick(s, id) = SubBackoff(s)
  <2>1. LET d == SubBackoff(s).sub
        IN  d.state = "Backoff" /\ d.left = RetryDelay(s.attempts) /\ d.sid = NoSid
    BY <1>1 DEF SubBackoff, SubIs, SubscriptionType
  <2> QED
    BY <1>2, <1>3, <2>1, SubCalm
<1>4. CASE SubTick(s, id) = StartRequest(s, id, "Renewing") /\ s.leaseLeft > 0
  <2>1. LET d == StartRequest(s, id, "Renewing").sub
        IN  d.state = "Renewing" /\ d.left = RequestBudget /\ d.leaseLeft = s.leaseLeft
    BY <1>1 DEF StartRequest, SubscriptionType
  <2> QED
    BY <1>1, <1>4, <2>1, SubCalm
<1>5. CASE SubTick(s, id) = StartRequest(s, id, "Subscribing") /\ s.state = "Backoff"
  <2>1. LET d == StartRequest(s, id, "Subscribing").sub
        IN  d.state = "Subscribing" /\ d.left = RequestBudget /\ d.sid = s.sid
    BY <1>1 DEF StartRequest, SubscriptionType
  <2>2. s.sid = NoSid
    BY <1>1, <1>5 DEF SubscriptionInvariant, Leased
  <2> QED
    BY <1>1, <1>5, <2>1, <2>2, SubCalm
<1>6. CASE SubTick(s, id) = SubIs(s)
  <2>1. SubIs(s).sub = s
    BY DEF SubIs
  <2> QED
    BY <1>6, <2>1
<1>7. \/ SubTick(s, id) = SubBackoff(s)
      \/ SubTick(s, id) = StartRequest(s, id, "Renewing") /\ s.leaseLeft > 0
      \/ SubTick(s, id) = StartRequest(s, id, "Subscribing") /\ s.state = "Backoff"
      \/ SubTick(s, id) = SubIs(s)
  <2>1. CASE s.sid # NoSid /\ s.leaseLeft = 0
    BY <2>1 DEF SubTick
  <2>2. CASE ~(s.sid # NoSid /\ s.leaseLeft = 0) /\ s.state \in Requesting /\ s.left = 0
    BY <2>2 DEF SubTick, Requesting
  <2>3. CASE /\ ~(s.sid # NoSid /\ s.leaseLeft = 0) /\ ~(s.state \in Requesting /\ s.left = 0)
             /\ s.state = "Healthy" /\ s.renewLeft = 0 /\ s.leaseLeft > 0
    BY <2>3 DEF SubTick, Requesting
  <2>4. CASE /\ ~(s.sid # NoSid /\ s.leaseLeft = 0) /\ ~(s.state \in Requesting /\ s.left = 0)
             /\ s.state = "Backoff" /\ s.left = 0
    BY <2>4 DEF SubTick, Requesting
  <2>5. CASE /\ ~(s.sid # NoSid /\ s.leaseLeft = 0) /\ ~(s.state \in Requesting /\ s.left = 0)
             /\ ~(s.state = "Healthy" /\ s.renewLeft = 0 /\ s.leaseLeft > 0)
             /\ ~(s.state = "Backoff" /\ s.left = 0)
    BY <2>5, Zenon DEF SubTick
  <2> QED
    BY <2>1, <2>2, <2>3, <2>4, <2>5
<1> QED
  BY <1>3, <1>4, <1>5, <1>6, <1>7

\* Repeating the service call in the same millisecond does nothing, so that
\* input may be admitted several times under one lock
\* (RuntimeCoordinator::service at the head of admission and its callers).
THEOREM ServiceAlwaysSettles == Spec => []ServiceSettles
<1>1. ASSUME JInv, NEW f \in FreshIds PROVE Service(Service(c, f), f) = Service(c, f)
  <2> DEFINE e == ExpireWorker(c)
             s == TickSonos(e, f.gen)
             d == Service(c, f)
  <2>1. CoordinatorOK(c) /\ JobOK(c) /\ FreshOK(f)
    BY <1>1, FreshIdsOK DEF JInv, IInv, JobsHeld
  <2>2. /\ CoordinatorOK(e) /\ JobOK(e)
        /\ e.worker.running => e.worker.left > 0
    <3>1. CoordinatorOK(e) /\ JobOK(e) /\ e.worker = WorkerDeadlineExpired(c.worker).worker
      BY <2>1, ExpireWorkerSteady, ExpireWorkerSound DEF Steady, Sound
    <3>2. c.worker.left \in Nat
      BY <2>1 DEF CoordinatorOK, Open, Consistent, WorkerOK, WorkerType
    <3> HIDE DEF e
    <3> QED
      BY <3>1, <3>2 DEF WorkerDeadlineExpired, WorkerStays, FinishWorker, IdleWorker
  <2>3. CoordinatorOK(d) /\ d.worker = e.worker /\ d.sonos = SonosTick(e.sonos, f.gen).sonos
    BY <2>1, ServiceSteady
  <2>4. CoordinatorOK(s)
    BY <2>1, <2>2, TickSonosSteady
  <2>5. d.subscription = SubTick(s.subscription, f.request).sub
    BY <2>1, <2>4, TickSubscriptionQuiet DEF Service
  <2>6. SonosOK(e.sonos) /\ SubOK(s.subscription)
    BY <2>2, <2>4 DEF CoordinatorOK, Open, Consistent
  <2> HIDE DEF e, s, d
  <2>7. d \in CoordinatorType /\ Delivered(d)
    BY <2>3 DEF CoordinatorOK, Open, Consistent
  <2>8. ExpireWorker(d) = d
    BY <2>2, <2>3, NothingExpires
  <2>9. TickSonos(d, f.gen) = d
    <3>1. SonosTick(d.sonos, f.gen) = SonosStays(d.sonos)
      BY <2>3, <2>6, SonosTickSettles
    <3>2. SonosEvent(d, SonosStays(d.sonos)) = d
      <4>1. SonosStays(d.sonos).fx = {} /\ SonosStays(d.sonos).sonos = d.sonos
        BY DEF SonosStays
      <4> QED
        BY <2>7, <4>1 DEF SonosEvent, CoordinatorType, Delivered
    <3> QED
      BY <2>7, <3>1, <3>2, NothingRecorded DEF TickSonos
  <2>10. TickSubscription(d, f.request) = d
    <3>1. SubTick(d.subscription, f.request) = SubIs(d.subscription)
      BY <2>5, <2>6, SubTickSettles
    <3>2. SubscriptionEvent(d, SubIs(d.subscription)) = d
      BY <2>7 DEF SubscriptionEvent, SubIs, CoordinatorType, Delivered
    <3> QED
      BY <2>7, <3>1, <3>2, NothingRecorded DEF TickSubscription
  <2> QED
    BY <2>8, <2>9, <2>10 DEF Service, d
<1>2. JInv => ServiceSettles
  BY <1>1 DEF ServiceSettles, ServiceIsIdempotent
<1> QED
  BY <1>2, JobInvariance, PTL
===============================================================================

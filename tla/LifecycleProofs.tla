--------------------------- MODULE LifecycleProofs ---------------------------
(***************************************************************************)
(* Every handler of the four lifecycle machines keeps the type of its      *)
(* machine and the invariant its header states, for all budgets, backoffs  *)
(* and leases.                                                             *)
(***************************************************************************)
EXTENDS WorkerLifecycle, WifiLifecycle, SonosHealth, SubscriptionLifecycle, FiniteSetTheorems,
        WellFoundedInduction, TLAPS

USE DEF NoId

\* The delay before a retry lies between the two backoff constants.
LEMMA RetryDelayRange ==
    ASSUME NEW n \in Nat
    PROVE  RetryDelay(n) \in Nat /\ InitialBackoff <= RetryDelay(n) /\ RetryDelay(n) <= MaximumBackoff
<1> DEFINE doubled == IF n <= 1 THEN InitialBackoff ELSE InitialBackoff * 2^(n - 1)
<1>1. CASE doubled \in InitialBackoff .. MaximumBackoff
  <2>1. RetryDelay(n) = doubled
    BY <1>1 DEF RetryDelay
  <2> QED
    BY <1>1, <2>1, BackoffAssumption
<1>2. CASE doubled \notin InitialBackoff .. MaximumBackoff
  <2>1. RetryDelay(n) = MaximumBackoff
    BY <1>2 DEF RetryDelay
  <2> QED
    BY <2>1, BackoffAssumption
<1> QED
  BY <1>1, <1>2

\* A power of two counts the subsets of an interval, and so it grows.
LEMMA PowerGrows ==
    ASSUME NEW m \in Nat, NEW n \in Nat, m <= n
    PROVE  2^m \in Nat /\ 2^n \in Nat /\ 2^m <= 2^n
<1> DEFINE I(k) == 1 .. k
<1>1. /\ IsFiniteSet(I(m)) /\ Cardinality(I(m)) = m
      /\ IsFiniteSet(I(n)) /\ Cardinality(I(n)) = n
  BY FS_Interval
<1>2. SUBSET I(m) \subseteq SUBSET I(n)
  OBVIOUS
<1> HIDE DEF I
<1>3. /\ IsFiniteSet(SUBSET I(m)) /\ Cardinality(SUBSET I(m)) = 2^m
      /\ IsFiniteSet(SUBSET I(n)) /\ Cardinality(SUBSET I(n)) = 2^n
  BY <1>1, FS_SUBSET
<1>4. Cardinality(SUBSET I(m)) <= Cardinality(SUBSET I(n))
  BY <1>2, <1>3, FS_Subset
<1>5. Cardinality(SUBSET I(m)) \in Nat /\ Cardinality(SUBSET I(n)) \in Nat
  BY <1>3, FS_CardinalityType
<1> QED
  BY <1>3, <1>4, <1>5

\* The longer the row of failures, the longer the delay before the next retry.
LEMMA RetryDelayGrows ==
    ASSUME NEW m \in Nat, NEW n \in Nat, m <= n
    PROVE  RetryDelay(m) <= RetryDelay(n)
<1> DEFINE doubled(k) == IF k <= 1 THEN InitialBackoff ELSE InitialBackoff * 2^(k - 1)
<1>1. InitialBackoff \in Nat /\ MaximumBackoff \in Nat /\ InitialBackoff <= MaximumBackoff
  BY BackoffAssumption
<1>2. doubled(m) \in Nat /\ doubled(n) \in Nat /\ doubled(m) <= doubled(n)
      /\ InitialBackoff <= doubled(m)
  <2>1. CASE n <= 1
    BY <1>1, <2>1
  <2>2. CASE n > 1
    <3>1. n - 1 \in Nat /\ 2^(n - 1) \in Nat /\ 2^0 <= 2^(n - 1)
      <4>1. n - 1 \in Nat /\ 0 \in Nat /\ 0 <= n - 1
        BY <2>2
      <4> HIDE DEF doubled
      <4> QED
        BY <4>1, PowerGrows
    <3>2. 1 <= 2^(n - 1)
      BY <3>1
    <3>3. \A a, b, k \in Nat : a <= b => k * a <= k * b /\ k * a \in Nat /\ k * b \in Nat
      OBVIOUS
    <3>4. CASE m <= 1
      <4>1. doubled(m) = InitialBackoff /\ doubled(n) = InitialBackoff * 2^(n - 1)
        BY <2>2, <3>4
      <4>2. InitialBackoff * 1 <= InitialBackoff * 2^(n - 1) /\ InitialBackoff * 2^(n - 1) \in Nat
        BY <1>1, <3>1, <3>2, <3>3, 1 \in Nat
      <4> QED
        BY <1>1, <4>1, <4>2
    <3>5. CASE m > 1
      <4>1. m - 1 \in Nat /\ m - 1 <= n - 1
        BY <3>5
      <4> HIDE DEF doubled
      <4>2. /\ 2^(m - 1) \in Nat /\ 2^(m - 1) <= 2^(n - 1)
            /\ 2^0 <= 2^(m - 1)
        BY <3>1, <4>1, 0 \in Nat, 0 <= m - 1, PowerGrows
      <4>3. 1 <= 2^(m - 1)
        BY <4>2
      <4>4. /\ InitialBackoff * 2^(m - 1) \in Nat /\ InitialBackoff * 2^(n - 1) \in Nat
            /\ InitialBackoff * 2^(m - 1) <= InitialBackoff * 2^(n - 1)
            /\ InitialBackoff * 1 <= InitialBackoff * 2^(m - 1)
        BY <1>1, <3>1, <3>3, <4>2, <4>3, 1 \in Nat
      <4>5. doubled(m) = InitialBackoff * 2^(m - 1) /\ doubled(n) = InitialBackoff * 2^(n - 1)
        BY <2>2, <3>5 DEF doubled
      <4> QED
        BY <1>1, <4>4, <4>5
    <3> QED
      BY <3>4, <3>5
  <2> QED
    BY <2>1, <2>2
<1>3. \A k : RetryDelay(k) = IF doubled(k) \in InitialBackoff .. MaximumBackoff
                             THEN doubled(k) ELSE MaximumBackoff
  BY DEF RetryDelay
<1> HIDE DEF doubled
<1> QED
  BY <1>1, <1>2, <1>3

\* An attempt counter stays a number and is positive after an attempt.
LEMMA BumpPositive ==
    ASSUME NEW n \in Nat
    PROVE  Bump(n) \in Nat /\ Bump(n) > 0
BY BackoffAssumption DEF Bump

\* A timer runs down and never below zero.
LEMMA ElapsedNat ==
    ASSUME NEW n \in Nat
    PROVE  Elapsed(n) \in Nat /\ Elapsed(n) <= n
BY DEF Elapsed

\* A set of natural numbers that is not empty has a least member.
LEMMA Least ==
    ASSUME NEW S \in SUBSET Nat, S # {}
    PROVE  \E n \in S : \A m \in S : n <= m
<1> DEFINE Below(n) == 0..(n - 1)
           T == {Below(n) : n \in S}
<1>1. T \subseteq FiniteSubsetsOf(Nat) /\ T # {}
  <2>1. \A n \in S : IsFiniteSet(Below(n)) /\ Below(n) \in SUBSET Nat
    BY FS_Interval
  <2> HIDE DEF Below
  <2> QED
    BY <2>1, Zenon DEF FiniteSubsetsOf
<1>2. PICK x \in T : \A y \in T : <<y, x>> \notin StrictSubsetOrdering(Nat)
  <2> HIDE DEF T
  <2> QED
    BY <1>1, FS_StrictSubsetOrderingWellFounded, WFMin
<1>3. PICK n \in S : x = Below(n)
  OBVIOUS
<1>4. ASSUME NEW m \in S, m < n PROVE FALSE
  <2>1. Below(m) \subseteq Below(n) /\ Below(m) # Below(n)
    <3>1. m \in Below(n) /\ m \notin Below(m)
      BY <1>4
    <3> QED
      BY <1>4, <3>1
  <2>2. Below(m) \subseteq Nat /\ Below(n) \subseteq Nat
    OBVIOUS
  <2> HIDE DEF Below
  <2>3. <<Below(m), Below(n)>> \in StrictSubsetOrdering(Nat)
    BY <2>1, <2>2 DEF StrictSubsetOrdering
  <2>4. Below(m) \in T
    OBVIOUS
  <2> QED
    BY <1>2, <1>3, <2>3, <2>4
<1> QED
  BY <1>3, <1>4

\* A pool that is not used up has an identity to give out.
LEMMA SomethingFresh ==
    ASSUME NEW pool \in SUBSET Nat, NEW used, pool \ used # {}
    PROVE  FreshIn(pool, used) # {}
<1>1. PICK n \in pool \ used : \A m \in pool \ used : n <= m
  BY Least
<1>2. \A m \in pool : m < n => m \in used
  BY <1>1
<1> QED
  BY <1>1, <1>2 DEF FreshIn

------------------------------------------------------------------------------
(* Worker *)

WorkerOK(w) == w \in WorkerType /\ (w.running \/ w = IdleWorker)
WorkerResultOK(r) ==
    r \in [worker : WorkerType, ended : CompletionType] /\ WorkerOK(r.worker)

\* Every handler of the worker machine returns a well-formed machine, and an
\* idle one is always the same: no identity or deadline of an ended job stays.
LEMMA WorkerHandlers ==
    ASSUME NEW w, WorkerOK(w), NEW id \in Nat, NEW budget \in Nat, NEW origin \in Origins,
           NEW outcome \in Outcomes
    PROVE  /\ WorkerResultOK(WorkerSubmit(w, id, budget, origin))
           /\ WorkerResultOK(WorkerResult(w, id, outcome))
           /\ WorkerResultOK(WorkerDeadlineExpired(w))
           /\ WorkerResultOK(WorkerNetworkUnavailable(w))
           /\ WorkerResultOK(WorkerShutdown(w))
           /\ WorkerResultOK(WorkerPreempt(w))
<1>1. WorkerResultOK(WorkerStays(w))
  BY DEF WorkerStays, WorkerOK, WorkerResultOK, WorkerType, CompletionType, Outcomes, NoCompletion
<1>2. \A o \in Outcomes : WorkerResultOK(FinishWorker(w, o))
  BY DEF FinishWorker, WorkerOK, WorkerResultOK, WorkerType, CompletionType, Outcomes, Origins,
         IdleWorker
<1>3. WorkerResultOK(WorkerSubmit(w, id, budget, origin))
  BY <1>1 DEF WorkerSubmit, WorkerOK, WorkerResultOK, WorkerType, CompletionType, NoCompletion, NoId
<1>4. WorkerResultOK(WorkerResult(w, id, outcome))
  BY <1>1, <1>2 DEF WorkerResult
<1>5. WorkerResultOK(WorkerDeadlineExpired(w)) /\ WorkerResultOK(WorkerNetworkUnavailable(w))
  BY <1>1, <1>2 DEF WorkerDeadlineExpired, WorkerNetworkUnavailable, Outcomes
<1>6. WorkerResultOK(WorkerShutdown(w)) /\ WorkerResultOK(WorkerPreempt(w))
  BY <1>1, <1>2 DEF WorkerShutdown, WorkerPreempt, Outcomes
<1> QED
  BY <1>3, <1>4, <1>5, <1>6

------------------------------------------------------------------------------
(* Wi-Fi *)

WifiOK(w) == w \in WifiType /\ WifiInvariant(w)
WifiResultOK(r) ==
    /\ r \in [wifi : WifiType, connect : BOOLEAN, availability : {"none", "up", "down"}]
    /\ WifiInvariant(r.wifi)

\* Every handler of the Wi-Fi machine preserves wifiInvariant.
LEMMA WifiHandlers ==
    ASSUME NEW w, WifiOK(w)
    PROVE  /\ WifiResultOK(WifiConfigAvailable(w))
           /\ WifiResultOK(WifiConnected(w))
           /\ WifiResultOK(WifiDisconnected(w))
           /\ WifiResultOK(WifiShutdown(w))
           /\ WifiResultOK(WifiTick(w))
<1>1. WifiResultOK(WifiStays(w))
  <2> DEFINE r == WifiStays(w)
  <2>1. r.wifi = w /\ r \in [wifi : WifiType, connect : BOOLEAN, availability : {"none", "up", "down"}]
    BY DEF WifiStays, WifiOK
  <2> QED
    BY <2>1 DEF WifiOK, WifiResultOK
<1>2. w.state \in {"Unconfigured", "Backoff"} => WifiResultOK(BeginConnect(w))
  <2> SUFFICES ASSUME w.state \in {"Unconfigured", "Backoff"}
               PROVE  WifiResultOK(BeginConnect(w))
    OBVIOUS
  <2>1. w.ready = FALSE
    <3>1. w.ready \in BOOLEAN
      BY DEF WifiOK, WifiType
    <3>2. w.state # "Online"
      OBVIOUS
    <3> QED
      BY <3>1, <3>2, Zenon DEF WifiOK, WifiInvariant
  <2>2. Bump(w.attempts) \in Nat /\ Bump(w.attempts) > 0
    BY BumpPositive DEF WifiOK, WifiType
  <2> DEFINE begun == BeginConnect(w).wifi
  <2>3. begun \in WifiType /\ BeginConnect(w) = [wifi |-> begun, connect |-> TRUE, availability |-> "none"]
    BY <2>2, ConnectAssumption DEF BeginConnect, WifiOK, WifiType, WifiStates
  <2>4. /\ begun.state = "Connecting" /\ begun.left = ConnectBudget
        /\ begun.attempts = Bump(w.attempts) /\ begun.ready = FALSE
    BY <2>1 DEF BeginConnect, WifiOK, WifiType
  <2> HIDE DEF begun
  <2>5. WifiInvariant(begun)
    BY <2>2, <2>4, ConnectAssumption DEF WifiInvariant
  <2> QED
    BY <2>3, <2>5 DEF WifiResultOK
<1>3. WifiResultOK(WifiBackoff(w))
  BY RetryDelayRange
  DEF WifiBackoff, Lost, WifiOK, WifiResultOK, WifiType, WifiStates, WifiInvariant
<1>4. WifiResultOK(WifiStop(w))
  BY DEF WifiStop, Lost, UnconfiguredWifi, WifiResultOK, WifiType, WifiStates, WifiInvariant
<1>5. WifiResultOK(WifiConfigAvailable(w))
  BY <1>1, <1>2 DEF WifiConfigAvailable, WifiOK, WifiInvariant
<1>6. WifiResultOK(WifiConnected(w))
  BY <1>1 DEF WifiConnected, WifiResultOK, WifiType, WifiStates, WifiInvariant
<1>7. WifiResultOK(WifiDisconnected(w))
  BY <1>1, <1>3 DEF WifiDisconnected
<1>8. WifiResultOK(WifiShutdown(w))
  BY <1>1, <1>4 DEF WifiShutdown
<1>9. WifiResultOK(WifiTick(w))
  BY <1>1, <1>2, <1>3 DEF WifiTick, WifiOK, WifiInvariant
<1> QED
  BY <1>5, <1>6, <1>7, <1>8, <1>9

------------------------------------------------------------------------------
(* Sonos *)

SonosEffects == {"discoveryRequested", "reconcile", "invalidateSession", "invalidateDiscovery"}
SonosOK(s) == s \in SonosType /\ SonosInvariant(s)
SonosResultOK(r) ==
    r \in [sonos : SonosType, fx : SUBSET SonosEffects] /\ SonosInvariant(r.sonos)

\* Every handler of the Sonos machine preserves sonosInvariant, given an
\* identity for the generation it may begin.
LEMMA SonosHandlers ==
    ASSUME NEW s, SonosOK(s), NEW id \in Nat, NEW fresh \in Nat \ {NoId}
    PROVE  /\ SonosResultOK(SonosStop(s))
           /\ SonosResultOK(SonosNetworkAvailable(s, fresh))
           /\ SonosResultOK(SonosRefreshRequested(s, fresh))
           /\ SonosResultOK(SonosDiscoverySucceeded(s, id))
           /\ SonosResultOK(SonosDiscoveryFailed(s, id))
           /\ SonosResultOK(SonosSessionFailure(s, id))
           /\ SonosResultOK(SonosSessionSucceeded(s, id))
           /\ SonosResultOK(SonosTick(s, fresh))
<1>1. SonosResultOK(SonosStays(s))
  <2> DEFINE r == SonosStays(s)
  <2>1. r.sonos = s /\ r \in [sonos : SonosType, fx : SUBSET SonosEffects]
    BY DEF SonosStays, SonosOK
  <2> QED
    BY <2>1 DEF SonosOK, SonosResultOK
<1>2. \A recovering \in BOOLEAN : SonosResultOK(BeginDiscovery(s, fresh, recovering))
  <2> SUFFICES ASSUME NEW recovering \in BOOLEAN
               PROVE  SonosResultOK(BeginDiscovery(s, fresh, recovering))
    OBVIOUS
  <2> DEFINE begun == BeginDiscovery(s, fresh, recovering).sonos
  <2>1. Bump(s.attempts) \in Nat /\ Bump(s.attempts) > 0
    BY BumpPositive DEF SonosOK, SonosType
  <2>2. /\ BeginDiscovery(s, fresh, recovering) = [sonos |-> begun, fx |-> {"discoveryRequested"}]
        /\ begun \in SonosType
    BY <2>1, DiscoveryAssumption DEF BeginDiscovery, SonosOK, SonosType, SonosStates
  <2>3. /\ begun.state = "Discovering" /\ begun.left = DiscoveryBudget
        /\ begun.discoveryId = fresh /\ begun.attempts = Bump(s.attempts) /\ begun.network = TRUE
    BY DEF BeginDiscovery, SonosOK, SonosType
  <2> HIDE DEF begun
  <2>4. SonosInvariant(begun)
    BY <2>1, <2>3, DiscoveryAssumption DEF SonosInvariant
  <2>5. {"discoveryRequested"} \in SUBSET SonosEffects
    BY DEF SonosEffects
  <2> QED
    BY <2>2, <2>4, <2>5 DEF SonosResultOK
<1>3. s.state = "Discovering" => SonosResultOK(BecomeReady(s))
  BY DEF BecomeReady, SonosOK, SonosResultOK, SonosType, SonosStates, SonosInvariant, SonosEffects
<1>4. \A failure \in BOOLEAN :
          s.state # "Offline" => SonosResultOK(SonosBackoff(s, failure))
  <2> SUFFICES ASSUME NEW failure \in BOOLEAN, s.state # "Offline"
               PROVE  SonosResultOK(SonosBackoff(s, failure))
    OBVIOUS
  <2> DEFINE failures == IF failure THEN Bump(s.failures) ELSE s.failures
             row == IF failure /\ failures > s.attempts THEN failures ELSE s.attempts
  <2>1. failures \in Nat /\ row \in Nat
    BY BumpPositive DEF SonosOK, SonosType
  <2>2. RetryDelay(row) \in Nat /\ RetryDelay(row) <= MaximumBackoff
    BY <2>1, RetryDelayRange
  <2> DEFINE waiting == SonosBackoff(s, failure).sonos
             lost == IF failure THEN {"invalidateSession"} ELSE {"invalidateDiscovery"}
  <2>3. SonosBackoff(s, failure) = [sonos |-> waiting, fx |-> lost] /\ waiting \in SonosType
    BY <2>1, <2>2 DEF SonosBackoff, SonosOK, SonosType, SonosStates
  <2>4. /\ waiting.state = "Backoff" /\ waiting.left = RetryDelay(row)
        /\ waiting.discoveryId = NoId /\ waiting.recovering = TRUE
        /\ waiting.network = s.network
    BY DEF SonosBackoff, SonosOK, SonosType
  <2>5. s.network = TRUE
    <3>1. s.network \in BOOLEAN
      BY DEF SonosOK, SonosType
    <3> QED
      BY <3>1, Zenon DEF SonosOK, SonosInvariant
  <2> HIDE DEF row, waiting
  <2>6. SonosInvariant(waiting)
    BY <2>2, <2>4, <2>5 DEF SonosInvariant
  <2>7. lost \in SUBSET SonosEffects
    BY DEF SonosEffects
  <2> QED
    BY <2>3, <2>6, <2>7 DEF SonosResultOK
<1>5. SonosResultOK(SonosStop(s))
  BY <1>1 DEF SonosStop, OfflineSonos, SonosResultOK, SonosType, SonosStates, SonosInvariant,
              SonosEffects
<1>6. SonosResultOK(SonosNetworkAvailable(s, fresh)) /\ SonosResultOK(SonosRefreshRequested(s, fresh))
  BY <1>1, <1>2 DEF SonosNetworkAvailable, SonosRefreshRequested
<1>7. SonosResultOK(SonosDiscoverySucceeded(s, id)) /\ SonosResultOK(SonosDiscoveryFailed(s, id))
  BY <1>1, <1>3, <1>4 DEF SonosDiscoverySucceeded, SonosDiscoveryFailed
<1>8. SonosResultOK(SonosSessionFailure(s, id))
  BY <1>1, <1>4 DEF SonosSessionFailure
<1>9. SonosResultOK(SonosSessionSucceeded(s, id))
  BY <1>1 DEF SonosSessionSucceeded, SonosOK, SonosResultOK, SonosType, SonosInvariant, SonosEffects,
              OfflineSonos
<1>10. SonosResultOK(SonosTick(s, fresh))
  BY <1>1, <1>2, <1>4 DEF SonosTick
<1> QED
  BY <1>5, <1>6, <1>7, <1>8, <1>9, <1>10

------------------------------------------------------------------------------
(* Subscription *)

SubOK(s) == s \in SubscriptionType(Hosts, Sids) /\ SubscriptionInvariant(s)
SubResultOK(r) ==
    /\ r \in [sub : SubscriptionType(Hosts, Sids), request : Nat, changed : BOOLEAN]
    /\ SubscriptionInvariant(r.sub)

\* A request started outside another one keeps subscriptionInvariant.
LEMMA StartedRequest ==
    ASSUME NEW s \in SubscriptionType(Hosts, Sids), NEW id \in Nat \ {NoId},
           NEW state \in Requesting,
           s.network = TRUE, s.address # NoHost, s.leaseLeft <= MaximumLease,
           s.sid # NoSid <=> state = "Renewing",
           state = "Subscribing" => s.leaseLeft = 0 /\ s.renewLeft = 0
    PROVE  SubResultOK(StartRequest(s, id, state))
<1> DEFINE begun == StartRequest(s, id, state).sub
<1>1. Bump(s.attempts) \in Nat /\ Bump(s.attempts) > 0
  BY BumpPositive DEF SubscriptionType
<1>2. /\ StartRequest(s, id, state) = [sub |-> begun, request |-> id, changed |-> FALSE]
      /\ begun \in SubscriptionType(Hosts, Sids)
  BY <1>1, SubscriptionAssumption
  DEF StartRequest, SubscriptionType, SubscriptionStates, Requesting
<1>3. /\ begun.state = state /\ begun.requestId = id /\ begun.left = RequestBudget
      /\ begun.attempts = Bump(s.attempts) /\ begun.network = TRUE /\ begun.address = s.address
      /\ begun.sid = s.sid /\ begun.leaseLeft = s.leaseLeft /\ begun.renewLeft = s.renewLeft
  BY DEF StartRequest, SubscriptionType
<1> HIDE DEF begun
<1>4. SubscriptionInvariant(begun)
  BY <1>1, <1>3, SubscriptionAssumption DEF SubscriptionInvariant, Leased, Requesting
<1> QED
  BY <1>2, <1>4 DEF SubResultOK

\* Every handler of the subscription machine preserves subscriptionInvariant,
\* given an identity for the request it may start.
LEMMA SubscriptionHandlers ==
    ASSUME NEW s, SubOK(s), NEW id \in Nat, NEW fresh \in Nat \ {NoId},
           NEW address \in Hosts \cup {NoHost}, NEW sid \in Sids \cup {NoSid}, NEW lease \in Nat
    PROVE  /\ SubResultOK(SubStop(s))
           /\ SubResultOK(SubNetworkAvailable(s, address, fresh))
           /\ SubResultOK(SubRequestSucceeded(s, id, sid, lease))
           /\ SubResultOK(SubRequestFailed(s, id))
           /\ SubResultOK(SubNotifyReceived(s, sid))
           /\ SubResultOK(SubTick(s, fresh))
<1>1. SubResultOK(SubIs(s))
  <2> DEFINE r == SubIs(s)
  <2>1. /\ r.sub = s
        /\ r \in [sub : SubscriptionType(Hosts, Sids), request : Nat, changed : BOOLEAN]
    BY DEF SubIs, SubOK
  <2> QED
    BY <2>1 DEF SubOK, SubResultOK
<1>2. s.state = "Healthy" => SubResultOK(StartRequest(s, fresh, "Renewing"))
  <2> SUFFICES ASSUME s.state = "Healthy"
               PROVE  SubResultOK(StartRequest(s, fresh, "Renewing"))
    OBVIOUS
  <2> QED
    BY StartedRequest, SubscriptionAssumption
    DEF SubOK, SubscriptionInvariant, Leased, Requesting
<1>3. s.state = "Backoff" => SubResultOK(StartRequest(s, fresh, "Subscribing"))
  <2> SUFFICES ASSUME s.state = "Backoff"
               PROVE  SubResultOK(StartRequest(s, fresh, "Subscribing"))
    OBVIOUS
  <2>1. /\ s \in SubscriptionType(Hosts, Sids) /\ s.address # NoHost
        /\ s.sid = NoSid /\ s.leaseLeft = 0 /\ s.renewLeft = 0
    BY DEF SubOK, SubscriptionInvariant, Leased
  <2>2. s.network = TRUE
    <3>1. s.network \in BOOLEAN
      BY DEF SubOK, SubscriptionType
    <3> QED
      BY <3>1, Zenon DEF SubOK, SubscriptionInvariant
  <2>3. s.leaseLeft <= MaximumLease /\ "Subscribing" \in Requesting
    BY <2>1, SubscriptionAssumption DEF Requesting
  <2> QED
    BY <2>1, <2>2, <2>3, StartedRequest
<1>4. SubResultOK(ReplacePublisher(s, address, fresh))
  <2> DEFINE new == [InactiveSubscription EXCEPT !.address = address, !.network = TRUE]
  <2>0. InactiveSubscription \in SubscriptionType(Hosts, Sids)
    BY DEF InactiveSubscription, SubscriptionType, SubscriptionStates
  <2>1. /\ new \in SubscriptionType(Hosts, Sids)
        /\ new.network = TRUE /\ new.address = address
        /\ new.sid = InactiveSubscription.sid /\ new.leaseLeft = InactiveSubscription.leaseLeft
        /\ new.renewLeft = InactiveSubscription.renewLeft /\ new.left = InactiveSubscription.left
        /\ new.state = InactiveSubscription.state
        /\ new.requestId = InactiveSubscription.requestId
    BY <2>0 DEF SubscriptionType
  <2>2. ReplacePublisher(s, address, fresh) =
            IF address = NoHost THEN SubIs(new) ELSE StartRequest(new, fresh, "Subscribing")
    BY DEF ReplacePublisher
  <2> HIDE DEF new
  <2>3. CASE address = NoHost
    <3>1. SubscriptionInvariant(new)
      BY <2>1 DEF SubscriptionInvariant, InactiveSubscription, Leased, Requesting
    <3>2. SubIs(new).sub = new /\
          SubIs(new) \in [sub : SubscriptionType(Hosts, Sids), request : Nat, changed : BOOLEAN]
      BY <2>1 DEF SubIs
    <3> QED
      BY <2>2, <2>3, <3>1, <3>2 DEF SubResultOK
  <2>4. CASE address # NoHost
    <3>1. SubResultOK(StartRequest(new, fresh, "Subscribing"))
      <4>1. new.leaseLeft <= MaximumLease /\ "Subscribing" \in Requesting
        BY <2>1, SubscriptionAssumption DEF Requesting, InactiveSubscription
      <4> QED
        BY <2>1, <2>4, <4>1, StartedRequest DEF InactiveSubscription
    <3> QED
      BY <2>2, <2>4, <3>1
  <2> QED
    BY <2>3, <2>4
<1>5. s.state # "Inactive" => SubResultOK(SubBackoff(s))
  BY RetryDelayRange
  DEF SubBackoff, SubIs, SubOK, SubResultOK, SubscriptionType, SubscriptionStates,
      SubscriptionInvariant, Requesting, Leased
<1>6. s.state \in Requesting /\ ValidGrant(s, sid, lease) => SubResultOK(Granted(s, sid, lease))
  <2> SUFFICES ASSUME s.state \in Requesting, ValidGrant(s, sid, lease)
               PROVE  SubResultOK(Granted(s, sid, lease))
    OBVIOUS
  <2> DEFINE capped == IF lease < MaximumLease THEN lease ELSE MaximumLease
             renewAfter == IF (capped * 4) \div 5 = 0 THEN 1 ELSE (capped * 4) \div 5
             held == Granted(s, sid, lease).sub
  <2>1. capped \in Nat /\ capped <= MaximumLease
    BY SubscriptionAssumption
  <2>2. renewAfter \in Nat
    BY <2>1
  <2>3. /\ Granted(s, sid, lease) = [sub |-> held, request |-> NoId, changed |-> FALSE]
        /\ held = [s EXCEPT !.state = "Healthy", !.sid = sid, !.requestId = NoId, !.left = 0,
                            !.leaseLeft = capped, !.renewLeft = renewAfter, !.attempts = 0]
    BY DEF Granted, SubIs
  <2> HIDE DEF capped, renewAfter, held
  <2>4. held \in SubscriptionType(Hosts, Sids)
    BY <2>1, <2>2, <2>3 DEF SubOK, SubscriptionType, SubscriptionStates
  <2>5. /\ held.state = "Healthy" /\ held.sid = sid /\ held.requestId = NoId /\ held.left = 0
        /\ held.leaseLeft = capped /\ held.network = s.network /\ held.address = s.address
    BY <2>3 DEF SubOK, SubscriptionType
  <2>6. s.network = TRUE /\ s.address # NoHost /\ sid # NoSid
    <3>1. s.network \in BOOLEAN
      BY DEF SubOK, SubscriptionType
    <3>2. s.state # "Inactive"
      BY DEF Requesting
    <3> QED
      BY <3>1, <3>2, Zenon DEF SubOK, SubscriptionInvariant, ValidGrant
  <2>7. SubscriptionInvariant(held)
    BY <2>1, <2>5, <2>6 DEF SubscriptionInvariant, Leased, Requesting
  <2> QED
    BY <2>3, <2>4, <2>7 DEF SubResultOK
<1>7. SubResultOK(SubStop(s))
  BY DEF SubStop, SubIs, InactiveSubscription, SubResultOK, SubscriptionType, SubscriptionStates,
         SubscriptionInvariant, Requesting, Leased
<1>8. SubResultOK(SubNetworkAvailable(s, address, fresh))
  BY <1>1, <1>4 DEF SubNetworkAvailable
<1>9. SubResultOK(SubRequestSucceeded(s, id, sid, lease)) /\ SubResultOK(SubRequestFailed(s, id))
  BY <1>1, <1>5, <1>6 DEF SubRequestSucceeded, SubRequestFailed, Requesting
<1>10. SubResultOK(SubNotifyReceived(s, sid))
  BY <1>1 DEF SubNotifyReceived, SubIs, SubResultOK
<1>11. SubResultOK(SubTick(s, fresh))
  BY <1>1, <1>2, <1>3, <1>5 DEF SubTick, SubOK, SubscriptionInvariant, Leased, Requesting
<1> QED
  BY <1>7, <1>8, <1>9, <1>10, <1>11

------------------------------------------------------------------------------
(* What the machines say about the network *)

\* The availability a Wi-Fi event reports is exactly the change of `ready'.
LEMMA WifiReports ==
    ASSUME NEW w, WifiOK(w)
    PROVE  /\ \A r \in {WifiConfigAvailable(w), WifiTick(w)} :
                  r.availability = "none" /\ r.wifi.ready = w.ready
           /\ WifiShutdown(w).wifi.ready = FALSE
<1>1. w \in WifiType /\ w.ready \in BOOLEAN
  BY DEF WifiOK, WifiType
<1>2. w.state # "Online" => w.ready = FALSE
  BY <1>1, Zenon DEF WifiOK, WifiInvariant
<1>3. WifiConfigAvailable(w).availability = "none" /\ WifiConfigAvailable(w).wifi.ready = w.ready
  BY <1>1 DEF WifiConfigAvailable, BeginConnect, WifiStays, WifiType
<1>4. WifiTick(w).availability = "none" /\ WifiTick(w).wifi.ready = w.ready
  BY <1>1, <1>2 DEF WifiTick, WifiBackoff, BeginConnect, WifiStays, Lost, WifiType
<1>5. WifiShutdown(w).wifi.ready = FALSE
  BY <1>1, <1>2 DEF WifiShutdown, WifiStop, WifiStays, UnconfiguredWifi, WifiType
<1> QED
  BY <1>3, <1>4, <1>5

\* Connecting reports the network up and losing the link reports it down.
LEMMA WifiLinkReports ==
    ASSUME NEW w, WifiOK(w), NEW r \in {WifiConnected(w), WifiDisconnected(w)}
    PROVE  /\ r.availability = "none" => r.wifi.ready = w.ready
           /\ r.availability = "up" => r.wifi.ready = TRUE
           /\ r.availability = "down" => r.wifi.ready = FALSE
<1>1. w \in WifiType
  BY DEF WifiOK
<1>2. CASE r = WifiConnected(w)
  BY <1>1, <1>2 DEF WifiConnected, WifiStays, WifiType
<1>3. CASE r = WifiDisconnected(w)
  BY <1>1, <1>3 DEF WifiDisconnected, WifiBackoff, WifiStays, Lost, WifiType
<1> QED
  BY <1>2, <1>3

\* No result of a job changes the network of the Sonos machine.
LEMMA SonosResultNetwork ==
    ASSUME NEW s, SonosOK(s), NEW id \in Nat
    PROVE  /\ SonosDiscoverySucceeded(s, id).sonos.network = s.network
           /\ SonosDiscoveryFailed(s, id).sonos.network = s.network
           /\ SonosSessionFailure(s, id).sonos.network = s.network
           /\ SonosSessionSucceeded(s, id).sonos.network = s.network
<1>1. s \in SonosType
  BY DEF SonosOK
<1>2. \A failure : SonosBackoff(s, failure).sonos.network = s.network
  BY <1>1 DEF SonosBackoff, SonosType
<1>3. BecomeReady(s).sonos.network = s.network
  BY <1>1 DEF BecomeReady, SonosType
<1>4. /\ SonosDiscoverySucceeded(s, id).sonos.network = s.network
      /\ SonosDiscoveryFailed(s, id).sonos.network = s.network
  BY <1>2, <1>3 DEF SonosDiscoverySucceeded, SonosDiscoveryFailed, SonosStays
<1>5. /\ SonosSessionFailure(s, id).sonos.network = s.network
      /\ SonosSessionSucceeded(s, id).sonos.network = s.network
  BY <1>1, <1>2 DEF SonosSessionFailure, SonosSessionSucceeded, SonosStays, SonosType
<1> QED
  BY <1>4, <1>5

\* Neither a refresh nor a retry does: only the arrival of the network sets
\* it, and only its loss withdraws it, which invalidates the discovery.
LEMMA SonosNetwork ==
    ASSUME NEW s, SonosOK(s), NEW fresh \in Nat \ {NoId}
    PROVE  /\ SonosRefreshRequested(s, fresh).sonos.network = s.network
           /\ SonosTick(s, fresh).sonos.network = s.network
           /\ SonosNetworkAvailable(s, fresh).sonos.network = TRUE
<1>1. s \in SonosType /\ s.network \in BOOLEAN
  BY DEF SonosOK, SonosType
<1>2. s.state # "Offline" => s.network = TRUE
  BY <1>1, Zenon DEF SonosOK, SonosInvariant
<1>3. \A recovering : BeginDiscovery(s, fresh, recovering).sonos.network = TRUE
  BY <1>1 DEF BeginDiscovery, SonosType
<1>4. \A failure : SonosBackoff(s, failure).sonos.network = s.network
  BY <1>1 DEF SonosBackoff, SonosType
<1>5. SonosRefreshRequested(s, fresh).sonos.network = s.network
  BY <1>2, <1>3 DEF SonosRefreshRequested, SonosStays
<1>6. SonosTick(s, fresh).sonos.network = s.network
  BY <1>2, <1>3, <1>4 DEF SonosTick, SonosStays
<1>7. SonosNetworkAvailable(s, fresh).sonos.network = TRUE
  BY <1>2, <1>3 DEF SonosNetworkAvailable, SonosStays
<1> QED
  BY <1>5, <1>6, <1>7

\* A stopped Sonos machine has no network, and if it had one its discovery is
\* invalidated.
LEMMA SonosStopNetwork ==
    ASSUME NEW s, SonosOK(s)
    PROVE  /\ SonosResultOK(SonosStop(s))
           /\ SonosStop(s).sonos.network = FALSE
           /\ s.network => "invalidateDiscovery" \in SonosStop(s).fx
<1>1. s \in SonosType /\ s.network \in BOOLEAN
  BY DEF SonosOK, SonosType
<1>2. s.state = "Offline" => s.network = FALSE
  BY <1>1, Zenon DEF SonosOK, SonosInvariant
<1>3. SonosStop(s).sonos.network = FALSE
  BY <1>2 DEF SonosStop, SonosStays, OfflineSonos
<1>4. s.network => "invalidateDiscovery" \in SonosStop(s).fx
  BY <1>2 DEF SonosStop, SonosStays
<1>5. SonosResultOK(SonosStop(s))
  BY SonosHandlers
<1> QED
  BY <1>3, <1>4, <1>5

\* Only a discovered publisher and the loss of the discovery change the
\* network of the subscription machine.
LEMMA SubscriptionNetwork ==
    ASSUME NEW s, SubOK(s)
    PROVE  /\ SubStop(s).sub.network = FALSE
           /\ \A id : SubRequestFailed(s, id).sub.network = s.network
           /\ \A sid : SubNotifyReceived(s, sid).sub.network = s.network
           /\ \A id : SubTick(s, id).sub.network = s.network
<1>1. s \in SubscriptionType(Hosts, Sids)
  BY DEF SubOK
<1>2. SubBackoff(s).sub.network = s.network /\ SubIs(s).sub.network = s.network
  BY <1>1 DEF SubBackoff, SubIs, SubscriptionType
<1>3. \A id, state : StartRequest(s, id, state).sub.network = s.network
  BY <1>1 DEF StartRequest, SubscriptionType
<1>5. SubStop(s).sub.network = FALSE
  BY DEF SubStop, SubIs, InactiveSubscription
<1>6. \A id : SubRequestFailed(s, id).sub.network = s.network
  BY <1>2 DEF SubRequestFailed
<1>7. \A sid : SubNotifyReceived(s, sid).sub.network = s.network
  BY <1>2 DEF SubNotifyReceived, SubIs
<1>8. \A id : SubTick(s, id).sub.network = s.network
  BY <1>2, <1>3 DEF SubTick
<1> QED
  BY <1>5, <1>6, <1>7, <1>8

\* A grant leaves the network flag of the subscription as it was.
LEMMA SubscriptionGrantNetwork ==
    ASSUME NEW s, SubOK(s), NEW id, NEW sid, NEW lease
    PROVE  SubRequestSucceeded(s, id, sid, lease).sub.network = s.network
<1>1. s \in SubscriptionType(Hosts, Sids)
  BY DEF SubOK
<1>2. SubBackoff(s).sub.network = s.network /\ SubIs(s).sub.network = s.network
  BY <1>1 DEF SubBackoff, SubIs, SubscriptionType
<1>3. Granted(s, sid, lease).sub.network = s.network
  BY <1>1 DEF Granted, SubIs, SubscriptionType
<1> QED
  BY <1>2, <1>3 DEF SubRequestSucceeded
==============================================================================

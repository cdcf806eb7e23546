------------------------ MODULE SubscriptionLifecycle ------------------------
(***************************************************************************)
(* SubscriptionLifecycle.h: the lease of one topology subscription, held   *)
(* at a publisher address, and the one SUBSCRIBE request in flight for it. *)
(*                                                                         *)
(* left is the request deadline while a request is in flight and the retry *)
(* time in Backoff; the code never needs both.  NoSid stands for an absent *)
(* or malformed SID, NoHost for the empty address.                         *)
(*                                                                         *)
(* A handler maps the machine and an event to                              *)
(*   [sub |-> the machine after it, request |-> the id of the request it   *)
(*    started or NoId, changed |-> `topologyChanged' was called]           *)
(***************************************************************************)
EXTENDS Lifecycle

CONSTANTS
    RequestBudget, MaximumLease,
    Hosts, NoHost, Sids, NoSid      \* publisher addresses and subscription identities

ASSUME SubscriptionAssumption ==
    /\ RequestBudget \in Nat \ {0}
    /\ MaximumLease \in Nat \ {0}
    /\ NoSid \notin Sids

SubscriptionStates == {"Inactive", "Subscribing", "Healthy", "Renewing", "Backoff"}
Requesting == {"Subscribing", "Renewing"}
Leased == {"Healthy", "Renewing"}

SubscriptionType(hosts, sids) ==
    [state : SubscriptionStates, requestId : Nat, left : Nat, renewLeft : Nat, leaseLeft : Nat,
     attempts : Nat, address : hosts \cup {NoHost}, sid : sids \cup {NoSid}, network : BOOLEAN]

InactiveSubscription ==
    [state |-> "Inactive", requestId |-> NoId, left |-> 0, renewLeft |-> 0, leaseLeft |-> 0,
     attempts |-> 0, address |-> NoHost, sid |-> NoSid, network |-> FALSE]

SubIs(s) == [sub |-> s, request |-> NoId, changed |-> FALSE]

\* Mutant: the request gets no deadline.
StartRequestUnbounded(s, id, state) ==
    [sub |-> [s EXCEPT !.state = state, !.requestId = id, !.left = 0, !.attempts = Bump(s.attempts)],
     request |-> id, changed |-> FALSE]

\* Context::start
StartRequest(s, id, state) ==
    [sub |-> [s EXCEPT !.state = state, !.requestId = id, !.left = RequestBudget,
                       !.attempts = Bump(s.attempts)],
     request |-> id, changed |-> FALSE]

\* Mutant: the lease of the former publisher is not cleared.
ReplacePublisherKeepingLease(s, address, id) ==
    LET kept == [s EXCEPT !.address = address, !.network = TRUE]
    IN  IF address = NoHost THEN SubIs(kept) ELSE StartRequest(kept, id, "Renewing")

\* Context::replace: authority at another publisher starts from nothing.
ReplacePublisher(s, address, id) ==
    LET fresh == [InactiveSubscription EXCEPT !.address = address, !.network = TRUE]
    IN  IF address = NoHost THEN SubIs(fresh) ELSE StartRequest(fresh, id, "Subscribing")

\* Context::active: the response to request id can still be used.
SubActive(s, id) ==
    id # NoId /\ id = s.requestId /\ s.left > 0 /\ (s.sid = NoSid \/ s.leaseLeft > 0)

\* Context::valid: a renewal must be granted to the same SID.
ValidGrant(s, sid, lease) == sid # NoSid /\ (s.sid = NoSid \/ sid = s.sid) /\ lease > 0

\* Mutant: the renewal falls due with the lease.
GrantedRenewingLate(s, sid, granted) ==
    LET lease == IF granted < MaximumLease THEN granted ELSE MaximumLease
    IN  SubIs([s EXCEPT !.state = "Healthy", !.sid = sid, !.requestId = NoId, !.left = 0,
                        !.leaseLeft = lease, !.renewLeft = lease, !.attempts = 0])

\* Context::success
Granted(s, sid, granted) ==
    LET lease == IF granted < MaximumLease THEN granted ELSE MaximumLease
        renewAfter == IF (lease * 4) \div 5 = 0 THEN 1 ELSE (lease * 4) \div 5
    IN  SubIs([s EXCEPT !.state = "Healthy", !.sid = sid, !.requestId = NoId, !.left = 0,
                           !.leaseLeft = lease, !.renewLeft = renewAfter, !.attempts = 0])

\* Context::backoff discards the lease with its SID.
SubBackoff(s) ==
    SubIs([s EXCEPT !.state = "Backoff", !.requestId = NoId, !.left = RetryDelay(s.attempts),
                       !.sid = NoSid, !.renewLeft = 0, !.leaseLeft = 0])

\* Context::stop, for the loss of the network and for shutdown, in any state
SubStop(s) == SubIs(InactiveSubscription)

SubNetworkAvailable(s, address, id) ==
    IF s.state = "Inactive" \/ address # s.address THEN ReplacePublisher(s, address, id)
                                                   ELSE SubIs(s)

SubRequestSucceeded(s, id, sid, lease) ==
    IF s.state \in Requesting /\ SubActive(s, id)
    THEN IF ValidGrant(s, sid, lease) THEN Granted(s, sid, lease) ELSE SubBackoff(s)
    ELSE SubIs(s)

SubRequestFailed(s, id) ==
    IF s.state \in Requesting /\ SubActive(s, id) THEN SubBackoff(s) ELSE SubIs(s)

SubNotifyReceived(s, sid) ==
    [SubIs(s) EXCEPT !.changed =
        s.state \in Leased /\ s.sid # NoSid /\ sid = s.sid /\ s.leaseLeft > 0]

\* tick: a lapsed lease is noticed before the request deadline or the renewal.
SubTick(s, id) ==
    CASE s.sid # NoSid /\ s.leaseLeft = 0 -> SubBackoff(s)
      [] s.state \in Requesting /\ s.left = 0 -> SubBackoff(s)
      [] s.state = "Healthy" /\ s.renewLeft = 0 /\ s.leaseLeft > 0 ->
             StartRequest(s, id, "Renewing")
      [] s.state = "Backoff" /\ s.left = 0 -> StartRequest(s, id, "Subscribing")
      [] OTHER -> SubIs(s)

\* subscriptionInvariant
SubscriptionInvariant(s) ==
    /\ s.sid # NoSid <=> s.state \in Leased
    /\ s.requestId # NoId <=> s.state \in Requesting
    /\ s.state # "Inactive" => s.network /\ s.address # NoHost
    /\ s.state \in Requesting => s.left <= RequestBudget /\ s.attempts > 0
    /\ s.state = "Backoff" => s.left <= MaximumBackoff
    /\ s.state \in {"Inactive", "Healthy"} => s.left = 0
    /\ s.state \in Leased => s.leaseLeft <= MaximumLease
    /\ s.state \notin Leased => s.leaseLeft = 0 /\ s.renewLeft = 0
==============================================================================

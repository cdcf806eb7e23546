---------------------------- MODULE TopologyLease ----------------------------
(***************************************************************************)
(* SubscriptionLifecycle against the publishers it subscribes to.  A       *)
(* publisher answers a SUBSCRIBE some time after it granted it, or never;  *)
(* the device goes by its own copy of the lease, started when the answer   *)
(* came in, and never unsubscribes.                                        *)
(*                                                                         *)
(* Time passes for both sides at once, and only when a service call has    *)
(* nothing to do: the main loop runs far more often than timers elapse.    *)
(***************************************************************************)
EXTENDS SubscriptionLifecycle

CONSTANTS
    RequestIds,
    Grants          \* the leases a publisher grants

ASSUME LeaseAssumption == RequestIds \subseteq Nat \ {NoId} /\ Grants \subseteq Nat

VARIABLES
    sub,        \* the machine
    pending,    \* SubscriptionFacts.pending: the request to be sent
    call,       \* the SUBSCRIBE in progress on the worker task
    publisher,  \* what is left of each SID's lease at each host
    prompt      \* every SUBSCRIBE is granted and answered without delay

leaseVars == <<sub, pending, call, publisher, prompt>>

NoCall == [id |-> NoId, host |-> NoHost, sid |-> NoSid, phase |-> "none", lease |-> 0]

FreshRequest == FreshIn(RequestIds, {sub.requestId, pending.id, call.id})

LeaseInit ==
    /\ sub = InactiveSubscription
    /\ pending = NoCall
    /\ call = NoCall
    /\ publisher = [h \in Hosts |-> [s \in Sids |-> 0]]
    /\ prompt \in BOOLEAN

\* The effect `request' freezes the address and the SID of the request.
Apply(r) ==
    /\ sub' = r.sub
    /\ pending' = IF r.request = NoId THEN pending
                  ELSE [NoCall EXCEPT !.id = r.request, !.host = r.sub.address, !.sid = r.sub.sid]

TopologyRead ==
    /\ \E host \in Hosts, id \in FreshRequest : Apply(SubNetworkAvailable(sub, host, id))
    /\ UNCHANGED <<call, publisher>>

Revoked ==
    /\ sub' = SubStop(sub).sub
    /\ pending' = NoCall
    /\ UNCHANGED <<call, publisher>>

Service ==
    /\ \E id \in FreshRequest : Apply(SubTick(sub, id))
    /\ UNCHANGED <<call, publisher>>

\* TopologyEvents::service, up to sendRequest
Send ==
    /\ call = NoCall /\ pending # NoCall
    /\ pending' = NoCall
    /\ call' = IF SubActive(sub, pending.id) THEN [pending EXCEPT !.phase = "sent"] ELSE NoCall
    /\ UNCHANGED <<sub, publisher>>

\* A renewal extends the lease of its SID, if the publisher still knows it; a
\* new subscription gets a SID that is not in use.  A lease of one unit would be
\* renewed in the unit in which it expires: a prompt publisher grants more.
Grant ==
    /\ call.phase = "sent"
    /\ \E s \in Sids, lease \in Grants :
          /\ IF call.sid = NoSid THEN publisher[call.host][s] = 0
                                 ELSE s = call.sid /\ publisher[call.host][s] > 0
          /\ prompt => lease > 1
          /\ publisher' = [publisher EXCEPT ![call.host][s] = lease]
          /\ call' = [call EXCEPT !.phase = "granted", !.sid = s, !.lease = lease]
    /\ UNCHANGED <<sub, pending>>

Answer ==
    /\ call.phase = "granted"
    /\ sub' = SubRequestSucceeded(sub, call.id, call.sid, call.lease).sub
    /\ call' = NoCall
    /\ UNCHANGED <<pending, publisher>>

\* Refused, lost on the way there or lost on the way back.
NoAnswer ==
    /\ call # NoCall /\ ~prompt
    /\ sub' = SubRequestFailed(sub, call.id).sub
    /\ call' = NoCall
    /\ UNCHANGED <<pending, publisher>>

LeaseTime ==
    /\ \A id \in FreshRequest : SubTick(sub, id) = SubIs(sub)
    /\ prompt => call = NoCall /\ pending = NoCall
    /\ sub' = [sub EXCEPT !.left = Elapsed(@), !.renewLeft = Elapsed(@), !.leaseLeft = Elapsed(@)]
    /\ publisher' = [h \in Hosts |-> [s \in Sids |-> Elapsed(publisher[h][s])]]
    /\ UNCHANGED <<pending, call>>

LeaseNext ==
    /\ \/ TopologyRead \/ Revoked \/ Service \/ LeaseTime
       \/ Send \/ Grant \/ Answer \/ NoAnswer
    /\ UNCHANGED prompt

LeaseSpec == LeaseInit /\ [][LeaseNext]_leaseVars

\* The shape of the machine (subscriptionInvariant in SubscriptionLifecycle.h).
LeaseTypeOK == SubscriptionInvariant(sub) /\ FreshRequest # {}

\* A lease the device believes in was granted for that SID by the publisher it
\* is subscribed to, and outlives the publisher's own by less than the time a
\* SUBSCRIBE may take: neither a late answer nor one of a former publisher can
\* make the device deaf for longer.  Only a renewal that is granted for less
\* goes further, and the device gives it up at the request's deadline.
LeaseBacked ==
    sub.sid # NoSid =>
        \/ sub.leaseLeft < publisher[sub.address][sub.sid] + RequestBudget
        \/ sub.state = "Renewing" /\ (sub.left = 0 \/ (call.phase = "granted" /\ call.id = sub.requestId))

\* The machine has its shape, and the lease it believes in is backed.
BelievedLeaseBacked == LeaseTypeOK /\ LeaseBacked

\* A device whose publisher answers without delay never loses its lease: the
\* renewal at four fifths of the lease comes in time.
RenewedInTime ==
    [][prompt /\ sub.state \in Leased
       => sub'.state \in Leased \/ sub'.address # sub.address]_leaseVars
==============================================================================

------------------------------ MODULE Household ------------------------------
(***************************************************************************)
(* SonosHealth under an arbitrary caller, with the budgets and backoffs at *)
(* work: the machine `s', the effects `fx' of its last step, and what a    *)
(* reader needs in order to judge them:                                    *)
(*   owed     the session was lost since the last authoritative read was   *)
(*            asked for                                                    *)
(*   streak   session failures since a session last succeeded              *)
(***************************************************************************)
EXTENDS SonosHealth

CONSTANT DiscoveryIds
ASSUME HouseholdAssumption == DiscoveryIds \subseteq Nat \ {NoId}

VARIABLES s, fx, owed, streak
householdVars == <<s, fx, owed, streak>>

HouseholdInit == s = OfflineSonos /\ fx = {} /\ owed = TRUE /\ streak = 0

\* What a step of the machine means to the two observers.
Reacts(r, lost, streakAfter) ==
    /\ s' = r.sonos
    /\ fx' = r.fx
    /\ owed' = (lost \/ (owed /\ r.sonos.state # "Ready"))
    /\ streak' = streakAfter

FreshDiscovery == FreshIn(DiscoveryIds, {s.discoveryId})

NetworkAvailable == \E id \in FreshDiscovery : Reacts(SonosNetworkAvailable(s, id), FALSE, streak)
NetworkLost == Reacts(SonosStop(s), TRUE, 0)
RefreshRequested == \E id \in FreshDiscovery : Reacts(SonosRefreshRequested(s, id), FALSE, streak)

DiscoverySucceeded ==
    \E id \in DiscoveryIds : Reacts(SonosDiscoverySucceeded(s, id), FALSE, streak)
DiscoveryFailed ==
    \E id \in DiscoveryIds :
        Reacts(SonosDiscoveryFailed(s, id), s.state = "Discovering" /\ id = s.discoveryId, streak)

SessionFailed ==
    \E id \in DiscoveryIds :
        LET counts == s.state \in {"Discovering", "Ready"} /\ id = s.discoveryId
        IN  Reacts(SonosSessionFailure(s, id), counts, IF counts THEN Bump(streak) ELSE streak)
SessionSucceeded ==
    \E id \in DiscoveryIds :
        LET counts == s.state = "Ready" /\ id = s.discoveryId
        IN  Reacts(SonosSessionSucceeded(s, id), FALSE, IF counts THEN 0 ELSE streak)

HouseholdTick ==
    \E id \in FreshDiscovery :
        Reacts(SonosTick(s, id), s.state = "Discovering" /\ s.left = 0, streak)

HouseholdTime ==
    /\ s.left > 0
    /\ s' = [s EXCEPT !.left = Elapsed(@)] /\ fx' = {}
    /\ UNCHANGED <<owed, streak>>

HouseholdNext == NetworkAvailable \/ NetworkLost \/ RefreshRequested \/ DiscoverySucceeded
          \/ DiscoveryFailed \/ SessionFailed \/ SessionSucceeded \/ HouseholdTick \/ HouseholdTime

HouseholdSpec == HouseholdInit /\ [][HouseholdNext]_householdVars
HouseholdFairness == WF_householdVars(HouseholdTick) /\ WF_householdVars(HouseholdTime)
HouseholdFairSpec == HouseholdSpec /\ HouseholdFairness

\* The shape of the machine (sonosInvariant in SonosHealth.h).
HouseholdTypeOK == s \in SonosType /\ SonosInvariant(s)

\* An authoritative read is asked for exactly when the household becomes usable
\* after its authority was lost: never for a routine refresh that succeeds, and
\* never forgotten because a routine refresh was under way when it was lost.
ReconcileExactlyWhenOwed ==
    [][/\ "reconcile" \in fx' <=> s.state = "Discovering" /\ s'.state = "Ready" /\ owed
       /\ s.state = "Discovering" /\ s'.state = "Ready" => ~owed']_householdVars

\* Session failures in a row are retried ever more slowly, although every
\* retry reads the topology successfully and thereby resets the discovery
\* attempts: the delay never falls behind the length of the row.
SessionBackoffGrows ==
    [][streak' > 0 /\ s'.state = "Backoff" /\ s.state # "Backoff" /\ "invalidateSession" \in fx'
       => s'.left >= RetryDelay(streak')]_householdVars

\* Liveness: a discovery comes to an end by itself, and so does a backoff.
HouseholdMovesOn ==
    /\ s.state = "Discovering" ~> s.state # "Discovering"
    /\ s.state = "Backoff" ~> s.state # "Backoff"
==============================================================================

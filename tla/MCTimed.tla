------------------------------ MODULE MCTimed ------------------------------
(***************************************************************************)
(* The machines in which durations matter, each against its own            *)
(* environment: the household; the lease, while the device moves between   *)
(* two publishers (`lease') or while one of them grants several SIDs       *)
(* (`sids'); one HTTP exchange; and the cover.  `part' says which a        *)
(* behaviour explores; the others rest.                                    *)
(***************************************************************************)
EXTENDS Household, TopologyLease, DeadlineClient, Artwork

VARIABLE part
timedVars == <<part, householdVars, leaseVars, clientVars, artVars>>

O == INSTANCE TopologyLease WITH Hosts <- {"h1"}, Sids <- {"s1", "s2"}

LeaseRests == LeaseInit /\ ~prompt
CoverRests ==
    CoverInit /\ now = 0 /\ observed = [track |-> "t1", url |-> NoUrl, usable |-> FALSE]

Init ==
    /\ HouseholdInit /\ ClientInit
    /\ \/ part \in {"household", "http"} /\ LeaseRests /\ CoverRests
       \/ part = "lease" /\ LeaseInit /\ CoverRests
       \/ part = "sids" /\ O!LeaseInit /\ CoverRests
       \/ part = "cover" /\ LeaseRests /\ CoverInit

Next ==
    \/ part = "household" /\ HouseholdNext /\ UNCHANGED <<part, leaseVars, clientVars, artVars>>
    \/ part = "lease" /\ LeaseNext /\ UNCHANGED <<part, householdVars, clientVars, artVars>>
    \/ part = "sids" /\ O!LeaseNext /\ UNCHANGED <<part, householdVars, clientVars, artVars>>
    \/ part = "http" /\ ClientNext /\ UNCHANGED <<part, householdVars, leaseVars, artVars>>
    \/ part = "cover" /\ CoverNext /\ UNCHANGED <<part, householdVars, leaseVars, clientVars>>

\* The fairness of each part, as far as it is explored.
FairSpec ==
    /\ Init /\ [][Next]_timedVars
    /\ HouseholdFairness
    /\ WF_clientVars(part = "http" /\ Step) /\ WF_clientVars(part = "http" /\ ClientTick)
    /\ SF_artVars(part = "cover" /\ Update)
    /\ WF_artVars(part = "cover" /\ Work) /\ WF_artVars(part = "cover" /\ CoverTick)

\* Liveness: nothing hangs.  A discovery and a backoff end by themselves; an HTTP
\* exchange ends although the peer never stops; and a cover that is wanted is
\* tried again, wherever millis wraps.
NothingHangs ==
    /\ HouseholdMovesOn
    /\ part = "http" => RequestEnds
    /\ CoverIsTriedAgain
=============================================================================

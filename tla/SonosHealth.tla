----------------------------- MODULE SonosHealth -----------------------------
(***************************************************************************)
(* SonosHealth.h: whether the household may be used, under which discovery *)
(* generation, and what recovery owes.                                     *)
(*                                                                         *)
(* A handler maps the machine and an event to                              *)
(*   [sonos |-> the machine after it, fx |-> the set of effects it called] *)
(* with the effects "discoveryRequested", "reconcile", and                 *)
(* "invalidateSession" or "invalidateDiscovery" for invalidateAuthority    *)
(* with discovery = false or true.                                         *)
(***************************************************************************)
EXTENDS Lifecycle

CONSTANT DiscoveryBudget
ASSUME DiscoveryAssumption == DiscoveryBudget \in Nat \ {0}

SonosStates == {"Offline", "Discovering", "Ready", "Backoff"}

SonosType ==
    [state : SonosStates, left : Nat, discoveryId : Nat, attempts : Nat, failures : Nat,
     recovering : BOOLEAN, network : BOOLEAN]

OfflineSonos ==
    [state |-> "Offline", left |-> 0, discoveryId |-> NoId, attempts |-> 0,
     failures |-> 0, recovering |-> FALSE, network |-> FALSE]

SonosStays(s) == [sonos |-> s, fx |-> {}]

\* Context::begin
BeginDiscovery(s, id, recovering) ==
    [sonos |-> [s EXCEPT !.state = "Discovering", !.left = DiscoveryBudget,
                         !.discoveryId = id, !.recovering = recovering,
                         !.attempts = Bump(s.attempts), !.network = TRUE],
     fx |-> {"discoveryRequested"}]

\* Context::ready: a recovered generation asks for an authoritative read.
BecomeReady(s) ==
    [sonos |-> [s EXCEPT !.state = "Ready", !.left = 0, !.attempts = 0, !.recovering = FALSE],
     fx |-> IF s.recovering THEN {"reconcile"} ELSE {}]

\* Mutants: the generation stays valid; a row of session failures is not
\* looked at for the delay.
SonosBackoffKeepingGeneration(s, sessionFailure) ==
    [sonos |-> [s EXCEPT !.state = "Backoff", !.left = RetryDelay(s.attempts), !.recovering = TRUE],
     fx |-> IF sessionFailure THEN {"invalidateSession"} ELSE {"invalidateDiscovery"}]
SonosBackoffByAttempts(s, sessionFailure) ==
    [sonos |-> [s EXCEPT !.state = "Backoff", !.left = RetryDelay(s.attempts),
                         !.discoveryId = NoId, !.recovering = TRUE],
     fx |-> IF sessionFailure THEN {"invalidateSession"} ELSE {"invalidateDiscovery"}]

\* Context::backoff.  A session failure is counted apart from the discovery
\* attempts, which every successful topology read resets.
SonosBackoff(s, sessionFailure) ==
    LET failures == IF sessionFailure THEN Bump(s.failures) ELSE s.failures
        row == IF sessionFailure /\ failures > s.attempts THEN failures ELSE s.attempts
    IN  [sonos |-> [s EXCEPT !.state = "Backoff", !.left = RetryDelay(row),
                             !.discoveryId = NoId, !.failures = failures,
                             !.recovering = TRUE],
         fx |-> IF sessionFailure THEN {"invalidateSession"} ELSE {"invalidateDiscovery"}]

\* Context::stop, for the loss of the network and for shutdown
SonosStop(s) ==
    IF s.state = "Offline" THEN SonosStays(s)
    ELSE [sonos |-> OfflineSonos, fx |-> {"invalidateDiscovery"}]

SonosNetworkAvailable(s, id) ==
    IF s.state = "Offline" THEN BeginDiscovery(s, id, TRUE) ELSE SonosStays(s)

SonosRefreshRequested(s, id) ==
    IF s.state = "Ready" THEN BeginDiscovery(s, id, FALSE) ELSE SonosStays(s)

\* A success at or after the discovery deadline is late.
SonosDiscoverySucceeded(s, id) ==
    IF s.state = "Discovering" /\ id = s.discoveryId /\ s.left > 0 THEN BecomeReady(s)
                                                                   ELSE SonosStays(s)

SonosDiscoveryFailed(s, id) ==
    IF s.state = "Discovering" /\ id = s.discoveryId THEN SonosBackoff(s, FALSE)
                                                     ELSE SonosStays(s)

SonosSessionFailure(s, id) ==
    IF s.state \in {"Discovering", "Ready"} /\ id = s.discoveryId THEN SonosBackoff(s, TRUE)
                                                                  ELSE SonosStays(s)

SonosSessionSucceeded(s, id) ==
    IF s.state = "Ready" /\ id = s.discoveryId
    THEN [sonos |-> [s EXCEPT !.failures = 0], fx |-> {}]
    ELSE SonosStays(s)

\* Mutant: no retry out of Backoff.
SonosTickWithoutRetry(s, id) ==
    IF s.state = "Discovering" /\ s.left = 0 THEN SonosBackoff(s, FALSE) ELSE SonosStays(s)

\* Mutant: a retry is taken for a routine refresh.
SonosTickRoutineRetry(s, id) ==
    CASE s.state = "Discovering" /\ s.left = 0 -> SonosBackoff(s, FALSE)
      [] s.state = "Backoff" /\ s.left = 0     -> BeginDiscovery(s, id, FALSE)
      [] OTHER                                 -> SonosStays(s)

\* tick: the discovery deadline while Discovering, the retry while in Backoff.
SonosTick(s, id) ==
    CASE s.state = "Discovering" /\ s.left = 0 -> SonosBackoff(s, FALSE)
      [] s.state = "Backoff" /\ s.left = 0     -> BeginDiscovery(s, id, TRUE)
      [] OTHER                                 -> SonosStays(s)

SonosUsable(s, id) == s.state = "Ready" /\ s.network /\ id = s.discoveryId

\* sonosInvariant
SonosInvariant(s) ==
    /\ s.network <=> s.state # "Offline"
    /\ s.discoveryId = NoId <=> s.state \in {"Offline", "Backoff"}
    /\ s.state = "Offline" => s = OfflineSonos
    /\ s.state = "Discovering" => s.left <= DiscoveryBudget /\ s.attempts > 0
    /\ s.state = "Ready" => s.left = 0 /\ s.attempts = 0 /\ ~s.recovering
    /\ s.state = "Backoff" => s.left <= MaximumBackoff /\ s.recovering
==============================================================================

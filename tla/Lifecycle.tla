------------------------------ MODULE Lifecycle ------------------------------
(***************************************************************************)
(* Arithmetic shared by the lifecycle machines of SurfaceDevice.           *)
(*                                                                         *)
(* The code keeps absolute 64-bit millisecond timestamps and compares each *)
(* with a monotone clock.  A timer is kept here as the time it has left,   *)
(* so that `now >= deadline' is `left = 0'; the tests against the start of *)
(* the interval (`now >= since') hold whenever the clock is monotone.      *)
(* The 64-bit identities of jobs, discoveries and requests are compared    *)
(* for equality only and never repeat in the life of a device: an identity *)
(* is any one that nothing in the system still holds.                      *)
(***************************************************************************)
EXTENDS Integers

CONSTANTS
    InitialBackoff,     \* the first retry delay
    MaximumBackoff,     \* the longest retry delay
    AttemptLimit        \* where the attempt counters saturate (UINT32_MAX)

ASSUME BackoffAssumption ==
    /\ InitialBackoff \in Nat \ {0}
    /\ MaximumBackoff \in Nat
    /\ InitialBackoff <= MaximumBackoff
    /\ AttemptLimit \in Nat \ {0}

NoId == 0

\* One unit of time passes for a timer; an elapsed timer stays elapsed.
Elapsed(left) == IF left > 0 THEN left - 1 ELSE 0

\* `if (attempts != max) ++attempts'
Bump(attempts) == IF attempts < AttemptLimit THEN attempts + 1 ELSE attempts

\* The delay before the retry that follows the n-th failure in a row: it
\* doubles from InitialBackoff until it would pass MaximumBackoff.
RetryDelay(n) ==
    LET doubled == IF n <= 1 THEN InitialBackoff ELSE InitialBackoff * 2^(n - 1)
    IN  IF doubled \in InitialBackoff .. MaximumBackoff THEN doubled
                                                        ELSE MaximumBackoff

\* The least identity of ids that is not in use: a set of at most one element.
FreshIn(ids, used) ==
    {i \in ids : i \notin used /\ \A j \in ids : j < i => j \in used}
==============================================================================

--------------------------- MODULE CommandOutcome ---------------------------
(***************************************************************************)
(* What the outcome of a command means, as the caller of Application sees  *)
(* it.                                                                     *)
(*   busy      a command is under way                                      *)
(*   effect    what it has done: "none", "some", or "unknown" if the device*)
(*             cannot tell whether its last operation was carried out      *)
(*   outcome   how the last command ended                                  *)
(*   blocked   no command may begin before an authoritative read           *)
(***************************************************************************)
VARIABLES busy, effect, outcome, blocked
outcomeVars == <<busy, effect, outcome, blocked>>

Outcomes == {"succeeded", "partial", "failed", "uncertain"}

Init == busy = FALSE /\ effect = "none" /\ outcome = "idle" /\ blocked = FALSE

Begin ==
    /\ ~busy /\ ~blocked
    /\ busy' = TRUE /\ effect' = "none"
    /\ UNCHANGED <<outcome, blocked>>

\* An operation reaches the speaker; none does after one whose effect is unknown.
Change ==
    /\ busy /\ effect # "unknown"
    /\ effect' \in {"some", "unknown"}
    /\ UNCHANGED <<busy, outcome, blocked>>

\* A failed command changed nothing; only an uncertain one may have done
\* something the device does not know of, and it blocks the next.
End ==
    /\ busy
    /\ busy' = FALSE
    /\ outcome' \in Outcomes
    /\ outcome' = "failed" => effect = "none"
    /\ effect = "unknown" => outcome' = "uncertain"
    /\ blocked' = (outcome' = "uncertain")
    /\ UNCHANGED effect

\* A command turned away before its first operation leaves no outcome of its own.
Refuse ==
    /\ busy /\ effect = "none"
    /\ busy' = FALSE
    /\ UNCHANGED <<effect, outcome, blocked>>

\* An authoritative read: the outcome stays, the block goes.
Reconcile ==
    /\ ~busy
    /\ blocked' = FALSE
    /\ UNCHANGED <<busy, effect, outcome>>

Next == Begin \/ Change \/ End \/ Refuse \/ Reconcile
Spec == Init /\ [][Next]_outcomeVars
=============================================================================

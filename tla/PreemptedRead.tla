---------------------------- MODULE PreemptedRead ----------------------------
(***************************************************************************)
(* What docs/runtime-lifecycles.md says of a preempted read, against the   *)
(* device of Runtime: `published' remembers that the job in the task's     *)
(* hand has replaced the displayed observation.                            *)
(***************************************************************************)
EXTENDS Runtime

VARIABLE published

PreemptedReadInit == Init /\ published = FALSE

PreemptedReadNext ==
    /\ Next
    /\ published' = /\ hand'.job.id # NoId
                    /\ \/ published
                       \/ hand.pc = "roomRead" /\ hand'.pc = "finish" /\ c' # c

PreemptedReadSpec == PreemptedReadInit /\ [][PreemptedReadNext]_<<vars, published>>

\* "a Preempted job never publishes" (docs/runtime-lifecycles.md): a job that
\* was preempted has not replaced the displayed observation with its own.
PreemptedReadPublishesNothing == hand.job.id \in c.preemptedJobs => ~published
=============================================================================

----------------------------- MODULE MCCommands -----------------------------
(***************************************************************************)
(* A command from the request to its outcome, in two parts: what the plan  *)
(* of each of several hundred requests makes of a speaker (Planning), and  *)
(* how the exchanges of a few requests go with a speaker that others use   *)
(* too, on a network that may lose them (Executor).  `part' says which of  *)
(* the two a behaviour explores; the other rests in one initial state.     *)
(***************************************************************************)
EXTENDS Executor, Planning, MCPlanning

VARIABLE part
commandsVars == <<part, planningVars, executorVars>>

I(f, v) == [EmptyIntent EXCEPT ![f] = {v}]
Louder == [relative |-> TRUE, value |-> 20]

\* A source with what policy makes of it, a station, and one of each other kind.
SessionRequests ==
    {[I("source", "album") EXCEPT !.shuffle = {FALSE}, !.repeat = {"off"}],
     [I("source", "station") EXCEPT !.transport = {"play"}],
     [I("transport", "next") EXCEPT !.volume = {Louder}],
     I("seek", 1), I("queueIndex", 1)}

Players ==
    {[playing |-> "queue", queue |-> "old", moved |-> "no", transport |-> t, mode |-> "REPEAT_ALL",
      volume |-> 90, mute |-> FALSE, content |-> 0, rev |-> 0, grouped |-> FALSE, here |-> TRUE] :
        t \in {"PLAYING", "PAUSED"}}

PlanRests == PlanInit /\ context = Elsewhere /\ planned = CHOOSE s \in MCSpeakers : TRUE
SessionRests == Init /\ spk = CHOOSE p \in Players : TRUE

MCInit ==
    \/ part = "plan" /\ PlanInit /\ SessionRests
    \/ part = "session" /\ PlanRests /\ Init

MCNext ==
    \/ part = "plan" /\ PlanNext /\ UNCHANGED <<part, executorVars>>
    \/ part = "session" /\ Next /\ UNCHANGED <<part, planningVars>>

MCSpec == MCInit /\ [][MCNext]_commandsVars
=============================================================================

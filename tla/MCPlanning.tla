----------------------------- MODULE MCPlanning -----------------------------
(* The requests, configurations and speakers of the planning run.          *)
EXTENDS Intent

PolicyOf(album, playlist, track) == [album |-> album, playlist |-> playlist, track |-> track]
M(shuffle, repeat) == [shuffle |-> shuffle, repeat |-> repeat]

NoPolicy == PolicyOf(NoModes, NoModes, NoModes)
Party == PolicyOf(M({TRUE}, {"all"}), M({TRUE}, {}), M({}, {"one"}))
Calm == PolicyOf(M({}, {"off"}), M({FALSE}, {"all"}), M({}, {}))

\* The target's own policy is `mine'; another room has one of its own.
Context(device, mine, revision) ==
    [device |-> device, rooms |-> [kitchen |-> mine, office |-> Party],
     target |-> "kitchen", revision |-> revision]
Elsewhere == [device |-> Party, rooms |-> [office |-> Party], target |-> "kitchen", revision |-> 1]

MCContexts == {Context(d, m, 1) : d, m \in {NoPolicy, Party, Calm}} \cup {Elsewhere}
MCReconfigured == {Context(Party, Calm, 2)}

Volumes == {{}} \cup {{[relative |-> FALSE, value |-> 30]}, {[relative |-> TRUE, value |-> 20]},
                      {[relative |-> TRUE, value |-> -20]}, {[relative |-> FALSE, value |-> 101]}}

WithSource ==
    {[EmptyIntent EXCEPT !.source = {k}, !.transport = t, !.shuffle = s, !.repeat = r] :
        k \in SourceKinds, t \in Optional(Transports), s \in Optional(BOOLEAN),
        r \in Optional(Repeats)}
WithoutSource ==
    {[EmptyIntent EXCEPT !.transport = t, !.volume = v, !.shuffle = s, !.repeat = r] :
        t \in Optional(Transports), v \in Volumes, s \in Optional(BOOLEAN),
        r \in Optional(Repeats)}
WithPlace ==
    {[EmptyIntent EXCEPT !.seek = p, !.queueIndex = q, !.transport = t, !.repeat = r] :
        p \in Optional(-1 .. MaxU32 + 1), q \in Optional(-1 .. MaxU32),
        t \in Optional(Transports), r \in Optional({"one"})}
Loud == {[i EXCEPT !.volume = {[relative |-> TRUE, value |-> 20]}] : i \in WithSource}
MCRequests == WithSource \cup WithoutSource \cup WithPlace \cup Loud

MCSpeakers ==
    {[playing |-> "queue", queue |-> "old", moved |-> "no", transport |-> t, mode |-> m,
      volume |-> v, mute |-> FALSE, content |-> 0, rev |-> 0, grouped |-> FALSE, here |-> TRUE] :
        t \in {"PLAYING", "PAUSED"}, m \in {"NORMAL", "SHUFFLE_REPEAT_ONE"}, v \in {10, 90}}
=============================================================================

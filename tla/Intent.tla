------------------------------- MODULE Intent -------------------------------
(***************************************************************************)
(* What a listener asks for, as the pure functions of SurfaceCore.cpp treat*)
(* it: validation, the resolution of shuffle and repeat against the        *)
(* configured policies, and the plan of Sonos operations.                  *)
(*                                                                         *)
(* A std::optional is the set of its values, {} or {x}.  A source is its   *)
(* kind: the address behind it is opaque here.                             *)
(***************************************************************************)
EXTENDS Integers, Sequences

CONSTANT MaxU32      \* UINT32_MAX
ASSUME MaxU32Assumption == MaxU32 \in Nat

Optional(S) == {{}} \cup {{x} : x \in S}
The(o) == CHOOSE x \in o : TRUE

SourceKinds == {"album", "playlist", "track", "station"}
Transports == {"play", "pause", "next", "previous"}
Advances == {"next", "previous"}
Repeats == {"off", "all", "one"}
Modes == [shuffle : Optional(BOOLEAN), repeat : Optional(Repeats)]
NoModes == [shuffle |-> {}, repeat |-> {}]

\* Intent: a member of the struct for each field; numbers have their wire's range.
Intents ==
    [source : Optional(SourceKinds), transport : Optional(Transports),
     shuffle : Optional(BOOLEAN), repeat : Optional(Repeats),
     volume : Optional([relative : BOOLEAN, value : -100 .. 100]),
     seek : Optional(0 .. MaxU32), queueIndex : Optional(0 .. MaxU32)]
EmptyIntent == [source |-> {}, transport |-> {}, shuffle |-> {}, repeat |-> {},
                volume |-> {}, seek |-> {}, queueIndex |-> {}]

----------------------------------------------------------------------------
\* Which modes a kind of source can be given.
validateSourceModes(kind, m) ==
    /\ kind \in {"album", "playlist"} => m.repeat # {"one"}
    /\ kind = "track" => m.shuffle = {} /\ m.repeat # {"all"}
    /\ kind = "station" => m = NoModes

ValidVolume(v) == v.value <= 100 /\ v.value >= (IF v.relative THEN -100 ELSE 0)

\* The combinations one request may make; the range checks at the wire's bounds.
validateIntent(i) ==
    /\ i # EmptyIntent
    /\ \A p \in i.seek : p \in 0 .. MaxU32
    /\ \A q \in i.queueIndex : q \in 0 .. MaxU32 - 1
    /\ i.seek \cup i.queueIndex # {} => i.source = {} /\ i.transport \cap Advances = {}
    /\ i.seek = {} \/ i.queueIndex = {}
    /\ \A v \in i.volume : ValidVolume(v)
    /\ i.transport \cap Advances # {} => i.source = {} /\ i.shuffle = {} /\ i.repeat = {}
    /\ \A k \in i.source : validateSourceModes(k, [shuffle |-> i.shuffle, repeat |-> i.repeat])

----------------------------------------------------------------------------
(* Policies.  A policy gives modes to the three kinds of source that have  *)
(* any; a context holds the device's policy, one policy for each configured*)
(* and eligible room, and the room the request is for.                     *)
Policies == [{"album", "playlist", "track"} -> Modes]

sourceDefaults(kind) ==
    [shuffle |-> IF kind = "album" THEN {FALSE} ELSE {},
     repeat |-> IF kind = "station" THEN {} ELSE {"off"}]

\* What parseModePolicy and parseSourcePolicy let into a configuration.
ValidPolicy(policy) == \A kind \in DOMAIN policy : validateSourceModes(kind, policy[kind])

\* Mutant: a station gets modes too.
sourcePolicyModesForStations(policy, kind) ==
    IF kind \in DOMAIN policy THEN policy[kind] ELSE policy["playlist"]

sourcePolicyModes(policy, kind) == IF kind \in DOMAIN policy THEN policy[kind] ELSE NoModes

\* The modes the room and the device configure for a request; none for a
\* request without a source, or for a room outside the configuration.
RoomModes(i, ctx) ==
    IF i.source # {} /\ ctx.target \in DOMAIN ctx.rooms
    THEN sourcePolicyModes(ctx.rooms[ctx.target], The(i.source)) ELSE NoModes
DeviceModes(i, ctx) ==
    IF i.source # {} /\ ctx.target \in DOMAIN ctx.rooms
    THEN sourcePolicyModes(ctx.device, The(i.source)) ELSE NoModes
DefaultModes(i) == IF i.source # {} THEN sourceDefaults(The(i.source)) ELSE NoModes

\* The first of the four sources of a mode that has a value, and its origin.
ResolveField(explicit, room, device, default) ==
    CASE explicit # {} -> [value |-> explicit, origin |-> "explicit"]
      [] explicit = {} /\ room # {} -> [value |-> room, origin |-> "room"]
      [] explicit = {} /\ room = {} /\ device # {} -> [value |-> device, origin |-> "device"]
      [] explicit = {} /\ room = {} /\ device = {} /\ default # {} ->
            [value |-> default, origin |-> "default"]
      [] OTHER -> [value |-> {}, origin |-> "preserved"]

ResolvedFields(i, room, device, default) ==
    [shuffle |-> ResolveField(i.shuffle, room.shuffle, device.shuffle, default.shuffle),
     repeat |-> ResolveField(i.repeat, room.repeat, device.repeat, default.repeat)]

\* The request frozen with its modes, their provenance, its target and the
\* revision of the configuration it was resolved against.
Frozen(i, ctx, f) ==
    [intent |-> [i EXCEPT !.shuffle = f.shuffle.value, !.repeat = f.repeat.value],
     origin |-> [shuffle |-> f.shuffle.origin, repeat |-> f.repeat.origin],
     target |-> ctx.target, revision |-> ctx.revision]

resolvePolicy(i, ctx) ==
    Frozen(i, ctx, ResolvedFields(i, RoomModes(i, ctx), DeviceModes(i, ctx), DefaultModes(i)))

----------------------------------------------------------------------------
(* Play modes.  Sonos names the six combinations; combineMode reads and    *)
(* writes the names, refresh reads them by their position in a table.      *)
ModeNames == <<"NORMAL", "REPEAT_ALL", "REPEAT_ONE",
               "SHUFFLE_NOREPEAT", "SHUFFLE", "SHUFFLE_REPEAT_ONE">>
PlayModes == {ModeNames[n] : n \in DOMAIN ModeNames}
RepeatOrder == <<"off", "all", "one">>

\* refresh: shuffle from the half of the table, repeat from the place in it.
ObservedMode(name) ==
    LET i == CHOOSE i \in DOMAIN ModeNames : ModeNames[i] = name
    IN  [shuffle |-> i > 3, repeat |-> RepeatOrder[((i - 1) % 3) + 1]]

NormalNames == [off |-> "NORMAL", all |-> "REPEAT_ALL", one |-> "REPEAT_ONE"]
ShuffledNames == [off |-> "SHUFFLE_NOREPEAT", all |-> "SHUFFLE", one |-> "SHUFFLE_REPEAT_ONE"]

OldRepeat(name) == CHOOSE r \in Repeats : name \in {NormalNames[r], ShuffledNames[r]}
OldShuffle(name) == \E r \in Repeats : name = ShuffledNames[r]

\* The mode asked for, with whatever is not asked for kept from the current one.
combineMode(current, shuffle, repeat) ==
    LET r == IF repeat # {} THEN The(repeat) ELSE OldRepeat(current)
        s == IF shuffle # {} THEN The(shuffle) ELSE OldShuffle(current)
    IN  IF s THEN ShuffledNames[r] ELSE NormalNames[r]

----------------------------------------------------------------------------
(* Plans.                                                                  *)
Operations == {"Stop", "ClearQueue", "AddSource", "SelectQueue", "SelectStation", "ApplyMode",
               "SetVolume", "RestoreTransport", "Play", "Pause", "Next", "Previous",
               "Seek", "SelectQueueItem"}
TransportOperation == [play |-> "Play", pause |-> "Pause", next |-> "Next", previous |-> "Previous"]

If(condition, ops) == IF condition THEN ops ELSE <<>>

QueuePlan == <<"Stop", "ClearQueue", "AddSource", "SelectQueue", "ApplyMode">>
StationPlan(i) == If(i.transport # {"play"}, <<"Stop">>) \o <<"SelectStation">>

SourcePlan(i) ==
    CASE i.source = {} -> If(i.shuffle # {} \/ i.repeat # {}, <<"ApplyMode">>)
      [] i.source = {"station"} -> StationPlan(i)
      [] OTHER -> QueuePlan

TransportPlan(i) ==
    IF i.transport # {} THEN <<TransportOperation[The(i.transport)]>>
    ELSE If(i.source # {}, <<"RestoreTransport">>)

\* The operations of a valid request, in the order they are executed.
makePlan(i) ==
    If(i.seek # {}, <<"Seek">>) \o If(i.queueIndex # {}, <<"SelectQueueItem">>)
      \o SourcePlan(i) \o If(i.volume # {}, <<"SetVolume">>) \o TransportPlan(i)

\* Relative volume is frozen against the volume read before the first operation.
Clamp(v) == IF v < 0 THEN 0 ELSE IF v > 100 THEN 100 ELSE v
DesiredVolume(i, baseline) ==
    IF i.volume = {} THEN {}
    ELSE {Clamp(v.value + (IF v.relative THEN baseline ELSE 0)) : v \in i.volume}
=============================================================================

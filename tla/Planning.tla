------------------------------ MODULE Planning ------------------------------
(***************************************************************************)
(* A request from admission to the last operation of its plan, against a   *)
(* speaker that nobody else controls: what do the plan's operations, one   *)
(* after the other, make of the speaker?  The speaker is what SurfaceSonos *)
(* expects of each operation.  The configuration may change at any time    *)
(* after admission.                                                        *)
(*   context    the configuration now;  bound  the one at admission        *)
(*   request    what was asked;  resolved  what was frozen                 *)
(*   todo       operations left;  base  the speaker at preflight           *)
(***************************************************************************)
EXTENDS Speaker

CONSTANTS PlanRequests, Contexts, Reconfigured, PlanSpeakers

\* Requests as callers put them together, before anything is validated.
Wishes ==
    [source : Optional(SourceKinds), transport : Optional(Transports),
     shuffle : Optional(BOOLEAN), repeat : Optional(Repeats),
     volume : SUBSET [relative : BOOLEAN, value : Int],
     seek : SUBSET Int, queueIndex : SUBSET Int]

\* A configuration holds only policies that its parser accepts.
ASSUME PlanningAssumption ==
    /\ PlanSpeakers \subseteq SpeakerType
    /\ \A i \in PlanRequests :
        i \in Wishes /\ \A f \in {"volume", "seek", "queueIndex"} : \A x, y \in i[f] : x = y
    /\ \A ctx \in Contexts \cup Reconfigured :
        /\ ctx.device \in Policies /\ ValidPolicy(ctx.device)
        /\ \A r \in DOMAIN ctx.rooms : ctx.rooms[r] \in Policies /\ ValidPolicy(ctx.rooms[r])

VARIABLES context, bound, request, resolved, todo, base, planned
planningVars == <<context, bound, request, resolved, todo, base, planned>>

Idle == request = EmptyIntent

PlanInit ==
    /\ context \in Contexts /\ bound = context
    /\ request = EmptyIntent
    /\ resolved = Frozen(EmptyIntent, context,
                         ResolvedFields(EmptyIntent, NoModes, NoModes, NoModes))
    /\ todo = <<>>
    /\ planned \in PlanSpeakers /\ base = planned

\* Admission: validate, resolve against the bound context, plan, take the baseline.
Accept ==
    /\ Idle
    /\ \E i \in PlanRequests :
        /\ validateIntent(i)
        /\ request' = i /\ bound' = context
        /\ resolved' = resolvePolicy(i, context)
        /\ todo' = makePlan(resolved'.intent)
    /\ base' = planned
    /\ UNCHANGED <<context, planned>>

\* The configuration is replaced while the request is under way.
Reconfigure ==
    /\ ~Idle /\ todo # <<>>
    /\ context' \in Reconfigured
    /\ UNCHANGED <<bound, request, resolved, todo, base, planned>>

Execute ==
    /\ todo # <<>>
    /\ planned' = Applied(Head(todo), resolved.intent, base, planned)
    /\ todo' = Tail(todo)
    /\ UNCHANGED <<context, bound, request, resolved, base>>

Done == ~Idle /\ todo = <<>> /\ UNCHANGED planningVars

PlanNext == Accept \/ Reconfigure \/ Execute \/ Done
PlanSpec == PlanInit /\ [][PlanNext]_planningVars

----------------------------------------------------------------------------
(* The reference: what the documentation promises of each field.           *)
Asked(f) == request[f] # {}
Plays == planned.transport = "PLAYING"
Finished == ~Idle /\ todo = <<>>

\* The modes a request ends with: its own, else the first configured one.
Configured(f) ==
    LET layers == IF bound.target \in DOMAIN bound.rooms
                  THEN <<bound.rooms[bound.target], bound.device>> ELSE <<>>
        kind == The(request.source)
        set == {l \in DOMAIN layers : layers[l][kind][f] # {}}
    IN  IF set = {} THEN {} ELSE layers[CHOOSE l \in set : \A m \in set : l <= m][kind][f]

Usual(f) == IF f = "repeat" THEN {"off"} ELSE IF request.source = {"album"} THEN {FALSE} ELSE {}

Expected(f) ==
    CASE Asked(f) -> request[f]
      [] ~Asked(f) /\ OfQueue(request) -> IF Configured(f) # {} THEN Configured(f) ELSE Usual(f)
      [] OTHER -> {}

\* A request that passed admission never fails the second validation that
\* execution makes of its frozen form: no policy the configuration can hold
\* turns a valid request into an invalid one.
FrozenStaysValid == ~Idle => validateIntent(resolved.intent)

\* The plan does to the speaker what was asked and nothing else: content,
\* place, transport and volume.  A source given without a transport resumes
\* exactly if something was playing, although the plan begins with Stop.
PlanAchieves == Finished => AsAsked(request, base, planned)

\* The mode the speaker ends in has the shuffle and the repeat that the request
\* asked for, or that were configured when it was admitted, and keeps the rest
\* of its old mode, read the way an observation reads it.  A later
\* configuration changes nothing, and neither does one for another room.
ModesAsConfigured ==
    Finished =>
        LET old == ObservedMode(base.mode)
            new == ObservedMode(planned.mode)
        IN  \A f \in {"shuffle", "repeat"} :
                new[f] = IF Expected(f) # {} THEN The(Expected(f)) ELSE old[f]

\* While a queue is being replaced nothing plays: neither the rest of the old
\* queue, nor the new one before its mode and volume are set.
QuietUntilReady ==
    OfQueue(request) /\ planned # base /\ todo # <<>> => ~Plays

\* The plan does to the speaker exactly what was asked, and nothing plays while
\* a queue is being replaced.
PlanIsFaithful == PlanAchieves /\ QuietUntilReady

\* A request ends in the modes it asked for or that were configured when it was
\* admitted, and no policy makes a valid request invalid.
PolicyAsAdmitted == ModesAsConfigured /\ FrozenStaysValid
=============================================================================

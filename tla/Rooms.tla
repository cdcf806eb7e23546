------------------------------- MODULE Rooms -------------------------------
(***************************************************************************)
(* RoomSelection: which players a configuration resolves to, which of them *)
(* is selected, and what of it survives a restart.  Discoveries, explicit  *)
(* selections, the main task's writes to flash and restarts with a new     *)
(* configuration come in any order.  A name is a display ID; names that    *)
(* yield none are Unnamed.                                                 *)
(***************************************************************************)
EXTENDS Integers, FiniteSets, Sequences

CONSTANTS
  Players,     \* the UUIDs in a household, ordered as numbers
  Names,       \* the display IDs, ordered as numbers
  Topologies,  \* the topologies discovery may return
  Configs      \* the room maps a configuration may carry, as sets of display IDs

Unnamed == 0
Nobody  == 0

ASSUME RoomsAssumption ==
  /\ Players \subseteq Nat \ {Nobody} /\ Names \subseteq Nat \ {Unnamed}
  /\ Configs \subseteq SUBSET Names

VARIABLES
  sel,         \* the RoomSelection
  configured,  \* the keys of the loaded room map
  seen,        \* the players of the last accepted topology
  shown,       \* the room of the shared observation
  running,     \* the room an automatic read is bound to
  flash,       \* preferred-id in flash
  written,     \* what the main task believes is there
  lost,        \* the last write of preferred-id failed
  choosing     \* the last step was a user's choice of a room (for the properties)

roomsVars == <<sel, configured, seen, shown, running, flash, written, lost, choosing>>

-----------------------------------------------------------------------------
\* Topology

\* parseTopology: a member of the zone groups, by UUID.
Member == [name : Names \cup {Unnamed}, coordinator : Players, visible : BOOLEAN]
ASSUME TopologiesAssumption ==
  \A t \in Topologies :
    /\ DOMAIN t \subseteq Players /\ DOMAIN t # {} /\ IsFiniteSet(DOMAIN t)
    /\ \A p \in DOMAIN t : t[p] \in Member

\* Alone in its own group, visible, neither bonded nor a satellite.
eligible(t, p) ==
  /\ t[p].coordinator = p /\ t[p].visible
  /\ \A q \in DOMAIN t \ {p} : t[q].coordinator # p

\* RoomSelection::update's resolve: exactly one player of the snapshot, ineligible
\* ones included, answers to a display ID.
Named(t, name) == {p \in DOMAIN t : t[p].name = name}

\* Mutant: only eligible players make a name ambiguous.
ResolvedAmongEligible(t, name) ==
  LET those == {p \in Named(t, name) : eligible(t, p)}
  IN  IF Cardinality(those) = 1 THEN those ELSE {}

Resolved(t, name) ==
  IF Cardinality(Named(t, name)) = 1 THEN {p \in Named(t, name) : eligible(t, p)} ELSE {}

Selectable(t) == UNION {Resolved(t, name) : name \in configured}

\* std::sort: by name, and by UUID among equal names.
Before(a, b) == a.name < b.name \/ (a.name = b.name /\ a.id < b.id)
InOrder(S) ==
  CHOOSE s \in [1 .. Cardinality(S) -> S] : \A i, j \in DOMAIN s : i < j => Before(s[i], s[j])
Sorted(t) == InOrder({[id |-> p, name |-> t[p].name] : p \in Selectable(t)})

-----------------------------------------------------------------------------
\* RoomSelection

Listed(s, id)  == \E i \in 1 .. Len(s.rooms) : s.rooms[i].id = id
At(s, id)      == CHOOSE i \in 1 .. Len(s.rooms) : s.rooms[i].id = id
FirstRoom(s)   == IF s.rooms = <<>> THEN Nobody ELSE s.rooms[1].id

Fallback(s) ==
  LET preferred == {i \in 1 .. Len(s.rooms) : s.rooms[i].name = s.preferredId}
      id == IF preferred = {} THEN FirstRoom(s) ELSE s.rooms[CHOOSE i \in preferred : TRUE].id
  IN  [s EXCEPT !.selectedId = id, !.initialized = id # Nobody]

\* Mutant: the preferred room is returned to.
NeedsFallbackUnlessPreferred(s) ==
  ~s.initialized \/ \A i \in 1 .. Len(s.rooms) :
                      s.rooms[i].id = s.selectedId => s.rooms[i].name # s.preferredId

\* The selection stays where it is while it can, and is looked for anew otherwise.
NeedsFallback(s) == ~s.initialized \/ ~Listed(s, s.selectedId)

update(s, t) ==
  LET listed == [s EXCEPT !.rooms = Sorted(t)]
  IN  IF NeedsFallback(listed) THEN Fallback(listed) ELSE listed

Chosen(s, i) == [s EXCEPT !.selectedId = s.rooms[i].id, !.preferredId = s.rooms[i].name,
                          !.initialized = TRUE]
cycle(s) ==
  IF s.rooms = <<>> THEN s
  ELSE IF ~Listed(s, s.selectedId) THEN Chosen(s, 1)
  ELSE Chosen(s, (At(s, s.selectedId) % Len(s.rooms)) + 1)

restorePreference(saved) == IF saved \in configured' THEN saved ELSE Unnamed

-----------------------------------------------------------------------------
\* The runtime around it

\* A topology read is accepted: with room-next the selection moves on.
Discover ==
  \E t \in Topologies, next \in BOOLEAN :
    /\ seen' = t
    /\ sel' = IF next THEN cycle(update(sel, t)) ELSE update(sel, t)
    /\ shown' = sel'.selectedId
    /\ running' = (running \cup {sel'.selectedId}) \ {Nobody}
    /\ choosing' = next
    /\ UNCHANGED <<configured, flash, written, lost>>

\* selectRoom: preempts an automatic read, which may still publish what it has.
SelectRoom ==
  \E i \in 1 .. Len(sel.rooms) :
    /\ sel' = Chosen(sel, i) /\ shown' = sel'.selectedId /\ choosing' = TRUE
    /\ UNCHANGED <<configured, seen, running, flash, written, lost>>

\* publishSelectedState: a session speaks for the selected room only.
Speaks(id) == id = sel.selectedId
Publish ==
  \E id \in running :
    /\ running' = running \ {id}
    /\ shown' = IF Speaks(id) THEN id ELSE shown
    /\ choosing' = FALSE
    /\ UNCHANGED <<sel, configured, seen, flash, written, lost>>

\* Mutant: only the first choice is saved.
UnsavedOnce == written = Unnamed /\ sel.preferredId # Unnamed

\* The main task writes a changed preference once; a failed write is not repeated.
Unsaved == sel.preferredId # written /\ sel.preferredId # Unnamed
Save ==
  /\ Unsaved
  /\ written' = sel.preferredId
  /\ \/ flash' = sel.preferredId /\ lost' = FALSE
     \/ lost' = TRUE /\ UNCHANGED flash
  /\ choosing' = FALSE
  /\ UNCHANGED <<sel, configured, seen, shown, running>>

Fresh(preferred) == [rooms |-> <<>>, selectedId |-> Nobody, preferredId |-> preferred,
                     initialized |-> FALSE]

\* A crash, a sleep or a new configuration: begin() starts from flash.
Restart ==
  /\ configured' \in Configs
  /\ sel' = Fresh(restorePreference(flash)) /\ written' = sel'.preferredId
  /\ flash' \in IF sel'.preferredId = flash THEN {flash} ELSE {flash, Unnamed}
  /\ shown' = Nobody /\ running' = {} /\ seen' = <<>> /\ lost' = FALSE
  /\ choosing' = FALSE

RoomsInit ==
  /\ configured \in Configs /\ flash = Unnamed /\ written = Unnamed
  /\ sel = Fresh(Unnamed) /\ shown = Nobody /\ running = {} /\ seen = <<>> /\ lost = FALSE
  /\ choosing = FALSE

RoomsNext == Discover \/ SelectRoom \/ Publish \/ Save \/ Restart

RoomsSpec == RoomsInit /\ [][RoomsNext]_roomsVars

-----------------------------------------------------------------------------
\* Properties

\* What is selected may be played: it is present and eligible in the last topology, and it
\* alone answers to one of the configured names.
SelectedIsEligible ==
  sel.selectedId # Nobody =>
    /\ sel.selectedId \in DOMAIN seen /\ eligible(seen, sel.selectedId)
    /\ seen[sel.selectedId].name \in configured
    /\ \A p \in DOMAIN seen \ {sel.selectedId} : seen[p].name # seen[sel.selectedId].name

\* Whatever a fallback selects, the choice stays the user's, and it is a configured room
\* even if flash names one of an earlier configuration.
PreferenceIsConfigured == sel.preferredId \in configured \cup {Unnamed}

\* The observation on display is never another room's than the selected one.
ShowsTheSelected == shown = sel.selectedId

\* The selected room may be played and is the one displayed, and the preference that brings it
\* back is a configured room.
SelectionIsSound == SelectedIsEligible /\ PreferenceIsConfigured /\ ShowsTheSelected

\* "A recovered room rejoins without stealing selection": while the selected room can still be
\* selected, only a user's choice (a selection or room-next) selects another, the preferred
\* room that returns beside its fallback included.
NothingSteals ==
  [][ sel.selectedId # Nobody /\ Listed(sel', sel.selectedId) /\ ~choosing'
        => sel'.selectedId = sel.selectedId ]_roomsVars

\* "Boot selects it if eligible": a device that comes back selects the room in flash if the
\* first topology after the restart has it.
BootSelectsSaved ==
  [][ seen = <<>> /\ seen' # <<>> /\ sel'.preferredId = sel.preferredId
        /\ flash \in configured /\ Resolved(seen', flash) # {}
      => sel'.selectedId \in Resolved(seen', flash) ]_roomsVars

\* Only a choice moves the selection away from a room that is there, and after a restart the
\* room in flash is selected if it is there.
SelectionIsTheUsers == NothingSteals /\ BootSelectsSaved

\* A choice reaches flash unless it is replaced, the write fails, or the device restarts.
ChoiceIsSaved ==
  \A name \in Names :
    sel.preferredId = name ~> (flash = name \/ sel.preferredId # name \/ lost)
=============================================================================

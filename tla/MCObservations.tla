--------------------------- MODULE MCObservations ---------------------------
(***************************************************************************)
(* What the display says of a room, in two parts: which room is selected   *)
(* (Rooms) and what is observed of it (Snapshot).  `part' says which of the*)
(* two a behaviour explores; the other rests in one initial state.         *)
(***************************************************************************)
EXTENDS MCRooms, Snapshot

VARIABLE part
observationVars == <<part, roomsVars, snapshotVars>>

MCInit ==
    \/ part = "rooms" /\ RoomsInit /\ SnapshotInit /\ spk.queue = <<"x", "y">>
    \/ part = "player" /\ RoomsInit /\ configured = {} /\ SnapshotInit /\ spk.queue[1] = "x"

MCNext ==
    \/ part = "rooms" /\ RoomsNext /\ UNCHANGED <<part, snapshotVars>>
    \/ part = "player" /\ SnapshotNext /\ UNCHANGED <<part, roomsVars>>

MCFairSpec == MCInit /\ [][MCNext]_observationVars /\ WF_roomsVars(Save)
=============================================================================

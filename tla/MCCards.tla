------------------------------ MODULE MCCards -------------------------------
(***************************************************************************)
(* Writing cards, in three parts: the writer with its board, browser and   *)
(* cards (CardWriter), the memory of one card while its pages are written  *)
(* (NtagPages), and the web server (WriterServer).  `part' says which of   *)
(* the three a behaviour explores; the others rest in one initial state.   *)
(***************************************************************************)
EXTENDS CardWriter, NtagPages, WriterServer

VARIABLE part
cardsVars == <<part, writerVars, ntagVars, serverVars>>

\* How a behaviour of the writer starts: one text on both cards, or no text and nothing, and
\* the page just opened; or two texts, one of the cards on the reader as the device starts, and
\* a page that still shows the other, as the first read of before that start left it.
Text(url) == [url |-> url, advanced |-> TRUE]
Outlived == [PageInit(TRUE) EXCEPT !.editId = 1, !.loadedId = 1, !.doc = {Text("v")}]
WriterStarts ==
    \/ /\ WriterInit /\ field = {}
       /\ cards \in {[A |-> Text("u"), B |-> Text("u")], [A |-> Garbage, B |-> Blank]}
    \/ /\ DeviceInit /\ page = Outlived /\ field = {"A"}
       /\ cards = [A |-> Text("u"), B |-> Text("v")]

\* Texts and links on both sides of what fits a tag of 144 bytes, with and without
\* its prefix, and of the short forms' limits on one of 504, over factory-empty
\* and used tags.
New(uri, sizes) == {[uri |-> uri, size |-> n, mark |-> 7] : n \in sizes}
Used(uri, n) == [uri |-> uri, size |-> n, mark |-> 9]
Tags == {144, 504}
NewCards == [n \in Tags |->
    IF n = 144 THEN New(TRUE, {139, 140, 144, 145}) \cup New(FALSE, {30, 129, 130, 134, 135})
    ELSE New(TRUE, {60, 257, 258, 262, 263}) \cup New(FALSE, {247, 248, 252, 253})]
UsedCards == [n \in Tags |->
    IF n = 144 THEN {Used(TRUE, 20), Used(FALSE, 122)} ELSE {Used(FALSE, 261)}]

WriterRests ==
    WriterInit /\ page = PageInit(TRUE) /\ field = {} /\ cards = [A |-> Garbage, B |-> Blank]
MemoryRests == MemoryInit /\ userBytes = 144 /\ Content(mem) = Empty /\ mem[1] = 3

MCInit ==
    \/ part = "writer" /\ WriterStarts /\ MemoryRests /\ ServerInit
    \/ part = "memory" /\ WriterRests /\ MemoryInit /\ ServerInit
    \/ part = "server" /\ WriterRests /\ MemoryRests /\ ServerInit

MCNext ==
    \/ part = "writer" /\ WriterNext /\ UNCHANGED <<part, ntagVars, serverVars>>
    \/ part = "memory" /\ MemoryNext /\ UNCHANGED <<part, writerVars, serverVars>>
    \/ part = "server" /\ ServerNext /\ UNCHANGED <<part, writerVars, ntagVars>>

\* The loop runs and time passes, as CardWriter and WriterServer say: a resting
\* server, which has yet to listen, is not expected to.
MCFairSpec ==
    /\ MCInit /\ [][MCNext]_cardsVars
    /\ LoopFairness
    /\ WF_serverVars(part = "server" /\ Loop) /\ WF_serverVars(part = "server" /\ Pass)

\* CardWriter and WriterServer: the writer gives the reader back to playing cards even while a
\* finger rests on a button, the board gives up the session with the card as soon as none does,
\* and no client keeps the server from the next one.
Occupied ==
    IF part = "writer" THEN active(w) \/ (board.pending /\ ~held) ELSE conn.who # {}
NobodyHoldsForEver == Occupied ~> ~Occupied
=============================================================================

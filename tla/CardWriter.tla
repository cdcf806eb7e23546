----------------------------- MODULE CardWriter -----------------------------
(***************************************************************************)
(* Reading, writing and playing cards on the Stick: the CardWriter state   *)
(* machine, the browser requests that arm it, and the board's loop, which  *)
(* polls the reader, runs one writer step at a time and lets a button press*)
(* delay both; and the page in the browser, which outlives the device's    *)
(* sleep.  Cards come and go, and the device may restart at any time.      *)
(*   w      CardWriter          board  the loop's latch, session and misses*)
(*   cards  what each card holds, as NtagPages shows it to read            *)
(*   field  the card on the reader, if any                                 *)
(*   page   the browser's editor (`fresh': it was loaded since the device  *)
(*          started, for the properties)   held   a finger on a button     *)
(*   moves  what people did                                                *)
(*   hist   for the properties: what the device read last, what the page   *)
(*          showed when the last write was asked for (or if it was outdated*)
(*          then), what that was to produce, the cards used since they were*)
(*          put down, and those of them that wait on the reader since the  *)
(*          device started                                                 *)
(***************************************************************************)
EXTENDS Integers, FiniteSets

CONSTANTS Uids, Urls, Pages, ArmTime, OpTime, MaxMoves
ASSUME CardWriterAssumption == Pages \in Nat \ {0, 1} /\ ArmTime \in Nat /\ OpTime \in Nat

VARIABLES w, board, cards, field, page, held, moves, hist
writerVars == <<w, board, cards, field, page, held, moves, hist>>

\* A card's text: a source with or without advanced settings; blank or garbage.
Docs == [url : Urls, advanced : BOOLEAN]
Blank == [url |-> "", advanced |-> FALSE]
Garbage == [url |-> "?", advanced |-> FALSE]

Armed == {"armed-read", "armed-write"}
Operating == {"card-detected", "reading", "writing", "verifying"}
Ended == {"idle", "success", "failed", "timed-out"}

active(x) == x.current \in Armed \cup Operating

CardWriterInit ==
    [current |-> "idle", owner |-> "Playback", left |-> 0, sequence |-> 0, edited |-> {},
     editUid |-> {}, editId |-> 0, editing |-> FALSE, intended |-> {}]
BoardInit == [latched |-> FALSE, misses |-> 0, pending |-> FALSE, picc |-> {}, page |-> 0,
              selected |-> FALSE]

\* A page opened by a shared link has fields of its own, and takes no read but one it asks for.
PageInit(acceptRead) ==
    [editId |-> 0, loadedId |-> 0, acceptRead |-> acceptRead, doc |-> {}, fresh |-> FALSE]

DeviceInit ==
    /\ w = CardWriterInit /\ board = BoardInit
    /\ cards \in [Uids -> Docs \cup {Blank, Garbage}]
    /\ field \in {{}} \cup {{u} : u \in Uids} /\ held = FALSE
    /\ moves = Cardinality(field)   \* somebody put it there
    /\ hist = [read |-> {}, shown |-> {}, outdated |-> FALSE, asked |-> {}, used |-> {},
               waiting |-> field]

WriterInit == DeviceInit /\ page \in {PageInit(acceptRead) : acceptRead \in BOOLEAN}

----------------------------------------------------------------------------
(* CardWriter.  Every entry first lets the deadline expire.                *)
Ended_(x, how) == [x EXCEPT !.current = how, !.owner = "Playback"]
tick(x) == IF active(x) /\ x.left = 0 THEN Ended_(x, "timed-out") ELSE x
fail(x) == IF active(x) THEN Ended_(x, "failed") ELSE x

Arm(x, current, owner) ==
    [x EXCEPT !.current = current, !.owner = owner, !.left = ArmTime, !.sequence = @ + 1]

\* authorCard: an edit keeps the advanced settings of the card it is based on.
authorCard(url, base) == [url |-> url, advanced |-> \E d \in base : d.advanced]

\* show: what the page makes of a status: it loads the editor of a read it asked
\* for, unless it has it; an editor it did not ask for is one it has.
Loads(p, x) == p.acceptRead /\ x.editId # p.loadedId
Shown(p, x) ==
    IF x.edited # {} /\ Loads(p, x)
    THEN [p EXCEPT !.loadedId = x.editId, !.editId = x.editId, !.doc = x.edited, !.fresh = TRUE]
    ELSE IF x.edited # {} /\ ~p.acceptRead THEN [p EXCEPT !.loadedId = x.editId]
    ELSE IF x.edited = {} /\ x.current = "success" THEN [p EXCEPT !.editId = 0]
    ELSE p

Move == moves < MaxMoves /\ moves' = moves + 1
Arming == Move /\ ~active(tick(w)) /\ UNCHANGED <<board, cards, field, held>>

ArmRead ==
    /\ Arming
    /\ w' = Arm(tick(w), "armed-read", "Read")
    /\ page' \in {page, [Shown(page, w') EXCEPT !.acceptRead = TRUE]}   \* a reply may be lost
    /\ UNCHANGED hist

\* The page sends the number of the editor it has loaded, 0 for a new card.
ArmWrite ==
    /\ Arming
    /\ page.editId # 0 => w.edited # {} /\ page.editId = w.editId
    /\ \E url \in Urls :
        LET editing == page.editId # 0
        IN  /\ w' = [Arm(tick(w), "armed-write", "Write") EXCEPT !.editing = editing,
                        !.intended = {authorCard(url, IF editing THEN w.edited ELSE {})}]
            /\ hist' = [hist EXCEPT !.shown = IF editing THEN page.doc ELSE {},
                                    !.outdated = editing /\ ~page.fresh,
                  !.asked = {[url |-> url,
                              advanced |-> editing /\ \E s \in hist.read : s.doc.advanced]}]
    /\ page' \in {page, Shown(page, w')}

PagePoll ==
    /\ page' = Shown(page, w)
    /\ UNCHANGED <<w, board, cards, field, held, moves, hist>>

NewCard ==
    /\ page' = [page EXCEPT !.acceptRead = FALSE, !.editId = 0, !.doc = {}]
    /\ UNCHANGED <<w, board, cards, field, held, moves, hist>>

Cancel ==
    /\ w' = Ended_(w, "idle")
    /\ page' \in {page, Shown(page, w')}
    /\ UNCHANGED <<board, cards, field, held, moves, hist>>

\* present: an armed writer owns the card.
Owned(x) == tick(x).current \in Armed
Detected(x) == [tick(x) EXCEPT !.current = "card-detected", !.left = OpTime]

----------------------------------------------------------------------------
(* pollInput.  A press delays everything below it.                         *)
On == IF board.picc \subseteq field THEN board.picc ELSE {}
Finish == board' = [board EXCEPT !.pending = FALSE, !.page = 0, !.selected = FALSE]
TheCard == CHOOSE u \in board.picc : TRUE

\* Mutant: two misses release the card.
MissedTwice(b) == [b EXCEPT !.misses = @ + 1, !.latched = @ /\ b.misses < 1]

Missed(b) == [b EXCEPT !.misses = IF b.latched /\ @ < 3 THEN @ + 1 ELSE @,
                       !.latched = @ /\ b.misses < 2]

\* A card is acted on once: only three polls in a row without one release it.
PollNfc ==
    /\ ~held /\ ~board.pending
    /\ \/ field = {} /\ board' = Missed(board) /\ w' = tick(w) /\ UNCHANGED hist
       \/ /\ field # {} /\ board.misses < 2 /\ board' = Missed(board)   \* a missed answer
          /\ w' = tick(w) /\ UNCHANGED hist
       \/ /\ field # {} /\ board.latched
          /\ board' = [board EXCEPT !.misses = 0] /\ w' = tick(w) /\ UNCHANGED hist
       \/ /\ field # {} /\ ~board.latched
          /\ hist' = [hist EXCEPT !.used = @ \cup field, !.waiting = @ \ field]
          /\ IF Owned(w)
             THEN /\ w' = Detected(w)
                  /\ board' = [board EXCEPT !.latched = TRUE, !.misses = 0, !.pending = TRUE,
                                            !.picc = field, !.selected = TRUE]
             ELSE w' = tick(w) /\ board' = [board EXCEPT !.latched = TRUE, !.misses = 0]
    /\ UNCHANGED <<cards, field, page, held, moves>>

\* The board plays a card when it detects one that no operation owns.
Plays == ~held /\ ~board.pending /\ field # {} /\ ~board.latched /\ ~Owned(w)

\* Mutant: a session whose operation is over is kept.
ReleasedWhenArmed(x) == x.current \in Armed

\* A session whose operation is over, or was armed anew, is given up.
Released(x) == ~active(x) \/ x.current \in Armed

Release_ ==
    /\ Released(tick(w)) /\ w' = tick(w) /\ Finish
    /\ UNCHANGED <<cards, hist>>

\* Mutant: only the card is compared.
checkUid(uid, payload) == w.editing => uid = w.editUid

\* checkEdit: a new card is written to an empty tag, an edit to the very card
\* and text that were read.
checkEdit(uid, payload) ==
    IF w.editing THEN uid = w.editUid /\ \E d \in w.edited : payload = d
    ELSE payload = Blank

Detect ==
    /\ tick(w).current = "card-detected"
    /\ \/ w' = fail(tick(w)) /\ Finish
       \/ /\ On # {} /\ w.owner = "Read"
          /\ w' = [tick(w) EXCEPT !.current = "reading"]
          /\ board' = [board EXCEPT !.selected = TRUE]
       \/ /\ On # {} /\ w.owner = "Write" /\ checkEdit(board.picc, cards[TheCard])
          /\ w' = [tick(w) EXCEPT !.current = "writing"]
          /\ board' = [board EXCEPT !.selected = TRUE, !.page = 0]
    /\ UNCHANGED <<cards, hist>>

\* read: what was read is what an edit may replace.
Read ==
    /\ tick(w).current = "reading" /\ Finish
    /\ \/ w' = fail(tick(w)) /\ UNCHANGED hist
       \/ /\ board.selected /\ cards[TheCard] \in Docs
          /\ w' = [Ended_(w, "success") EXCEPT !.edited = {cards[TheCard]}, !.editUid = board.picc,
                                               !.editId = w.sequence]
          /\ hist' = [hist EXCEPT !.read = {[uid |-> TheCard, doc |-> cards[TheCard]]}]
    /\ UNCHANGED cards

\* The first page empties the card, the last one completes it (NtagPages).
Stored(n) == IF n = Pages - 1 THEN CHOOSE d \in w.intended : TRUE ELSE Blank

StorePage ==
    /\ tick(w).current = "writing"
    /\ \/ /\ board.selected
          /\ cards' = [cards EXCEPT ![TheCard] = Stored(board.page)]
          /\ \/ /\ board' = [board EXCEPT !.page = @ + 1]
                /\ w' = [tick(w) EXCEPT !.current = IF board.page = Pages - 1
                                                    THEN "verifying" ELSE @]
             \/ w' = fail(tick(w)) /\ Finish
       \/ w' = fail(tick(w)) /\ Finish /\ UNCHANGED cards
    /\ UNCHANGED hist

\* verify: a later edit must start from a fresh read.
DropsEdit(x) == [x EXCEPT !.edited = {}, !.editId = 0]

Verify ==
    /\ tick(w).current = "verifying" /\ Finish
    /\ \/ w' = fail(tick(w))
       \/ /\ On # {} /\ cards[TheCard] \in w.intended
          /\ w' = DropsEdit(Ended_(w, "success"))
    /\ UNCHANGED <<cards, hist>>

WriterStep ==
    /\ ~held /\ board.pending
    /\ Release_ \/ Detect \/ Read \/ StorePage \/ Verify
    /\ UNCHANGED <<field, page, held, moves>>

\* boardPoll: the loop looks at the deadline whatever else it is kept from.
Tick ==
    /\ w' = tick(w)
    /\ UNCHANGED <<board, cards, field, page, held, moves, hist>>

----------------------------------------------------------------------------
Elapse ==
    /\ active(w) /\ w.left > 0
    /\ w' = [w EXCEPT !.left = @ - 1]
    /\ UNCHANGED <<board, cards, field, page, held, moves, hist>>

Put ==
    /\ Move
    /\ field = {} /\ \E u \in Uids : field' = {u}
    /\ hist' = [hist EXCEPT !.used = @ \ field', !.waiting = {}]
    /\ UNCHANGED <<w, board, cards, page, held>>

TakeAway ==
    /\ field # {} /\ field' = {}
    /\ board' = [board EXCEPT !.selected = FALSE]
    /\ UNCHANGED <<w, cards, page, held, moves, hist>>

Press ==
    /\ Move
    /\ ~held /\ held' = TRUE
    /\ UNCHANGED <<w, board, cards, field, page, hist>>

LetGo == held /\ held' = FALSE /\ UNCHANGED <<w, board, cards, field, page, moves, hist>>

\* Power fails, or the device sleeps and wakes: the cards remember, and the page.  A card on
\* the reader stays there, and the latch does not remember it.
Restart ==
    /\ Move
    /\ w' = CardWriterInit
    /\ board' = BoardInit
    /\ page' = [page EXCEPT !.fresh = FALSE]
    /\ hist' = [hist EXCEPT !.read = {}, !.shown = {}, !.outdated = FALSE, !.asked = {},
                            !.waiting = field]
    /\ UNCHANGED <<cards, field, held>>

WriterNext == ArmRead \/ ArmWrite \/ PagePoll \/ NewCard \/ Cancel \/ PollNfc \/ WriterStep \/ Tick \/ Elapse
                \/ Put \/ TakeAway \/ Press \/ LetGo \/ Restart
WriterSpec == WriterInit /\ [][WriterNext]_writerVars

\* The loop runs and time passes; nobody has to lift a finger.
LoopFairness == WF_writerVars(Tick) /\ WF_writerVars(Elapse) /\ WF_writerVars(WriterStep)

----------------------------------------------------------------------------
\* An operation that has met its card has a session of the board with it, and
\* no session outlives its operation and the next arming.
SessionIsItsOperations ==
    /\ w.current \in Operating => board.pending /\ board.picc # {} /\ w.owner # "Playback"
    /\ w.current = "writing" => w.owner = "Write" /\ board.page < Pages
    /\ w.current = "verifying" => w.owner = "Write" /\ board.page = Pages
    /\ w.editId # 0 => w.edited # {}

\* A card that is not blank is written over only if the device, since it started, read that
\* text from that very card, and the page showed that text when the write was asked for.  The
\* exception is a page that still shows an editor of before the last start: a read that was
\* given the same number since is not loaded into it, and is overwritten unseen.
OverwritesOnlyWhatWasShown ==
    [][\A u \in Uids : cards'[u] # cards[u] /\ cards[u] # Blank =>
            /\ [uid |-> u, doc |-> cards[u]] \in hist.read
            /\ cards[u] \in hist.shown \/ hist.outdated]_writerVars

\* A write reported as done left on the card what was asked for, with the
\* advanced settings of the card that was edited.
DoneIsAsAsked ==
    [][w.current = "verifying" /\ w'.current = "success" => cards'[TheCard] \in hist.asked]_writerVars

\* A card that was read, written or played since it was put down is not played again
\* while it lies there, but once after a start of the device: the latch is not kept
\* over a sleep, and the first detection cannot tell that card from a new one.
PlaysOnlyFreshCards == Plays => field \cap hist.used \subseteq hist.waiting

\* An operation has its board session and its card, and no card is played that was
\* read, written or played since it was put down and since the device started.
SessionsMatch == SessionIsItsOperations /\ PlaysOnlyFreshCards

\* No text is overwritten that the device had not read or, unless its editor was of before
\* the last start, the page did not show; and a write reported as done left what was asked for.
WritesAsAsked == OverwritesOnlyWhatWasShown /\ DoneIsAsAsked

\* Reading a card loads its fields into the page that asked for it: an editor
\* that the page takes for loaded is the one on display.
ReadIsLoaded ==
    w.current = "success" /\ w.editId = w.sequence /\ page.acceptRead /\ page.loadedId = w.editId
        => page.doc = w.edited

\* Liveness: the reader always comes back to playing cards.
=============================================================================

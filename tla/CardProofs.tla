------------------------------ MODULE CardProofs ------------------------------
(***************************************************************************)
(* Theorems about writing cards: what the writer, its board and the editor *)
(* in the browser keep of each other (CardWriter), who is answered by the  *)
(* web server and which drafts it keeps (WriterServer), and what is on a   *)
(* card between any two pages of a write (NtagPages).                      *)
(***************************************************************************)
EXTENDS CardWriter, NtagPages, WriterServer, FiniteSetTheorems, SequenceTheorems, TLAPS

------------------------------------------------------------------------------
(* CardWriter: types and the invariant *)

States == Armed \cup Operating \cup Ended
WriterType ==
    [current : States, owner : {"Playback", "Read", "Write"}, left : Nat, sequence : Nat,
     edited : SUBSET Docs, editUid : SUBSET Uids, editId : Nat, editing : BOOLEAN,
     intended : SUBSET Docs]
BoardType ==
    [latched : BOOLEAN, misses : Nat, pending : BOOLEAN, picc : SUBSET Uids, page : Nat,
     selected : BOOLEAN]
PageType ==
    [editId : Nat, loadedId : Nat, acceptRead : BOOLEAN, doc : SUBSET Docs, fresh : BOOLEAN]
HistType ==
    [read : SUBSET [uid : Uids, doc : Docs], shown : SUBSET Docs, outdated : BOOLEAN,
     asked : SUBSET Docs, used : SUBSET Uids, waiting : SUBSET Uids]

\* The reader sees one card at most.
OneCard(f) == f = {} \/ \E u \in Uids : f = {u}

CardTypeOK ==
    /\ w \in WriterType /\ board \in BoardType /\ hist \in HistType /\ page \in PageType
    /\ DOMAIN cards = Uids /\ OneCard(field) /\ OneCard(board.picc)

\* An operation belongs to the one who armed it.
OwnersOK ==
    /\ w.current \in {"armed-read", "reading"} => w.owner = "Read"
    /\ w.current \in {"armed-write", "writing", "verifying"} => w.owner = "Write"

\* A card that something was done with is latched as long as it lies there, or waits for the
\* first detection since the device started.
UsedIsLatched == field \cap hist.used # {} => board.latched \/ field \subseteq hist.waiting

\* The text to edit is the one read last, of the card it was read from.
EditorWasRead ==
    w.edited # {} => \E u \in Uids, d \in Docs : /\ w.editUid = {u} /\ w.edited = {d}
                                                 /\ hist.read = {[uid |-> u, doc |-> d]}

\* A write in progress is the one that was asked for.
AskedIsIntended ==
    w.current = "armed-write" \/ (w.current \in Operating /\ w.owner = "Write")
        => w.intended = hist.asked

\* What a write is about to overwrite was checked, or is what its first page left.
CheckedOrBlank ==
    w.current = "writing" =>
        IF board.page = 0 THEN checkEdit(board.picc, cards[TheCard]) ELSE cards[TheCard] = Blank

CardInv ==
    /\ CardTypeOK /\ SessionIsItsOperations /\ OwnersOK /\ UsedIsLatched /\ EditorWasRead
    /\ AskedIsIntended /\ CheckedOrBlank

\* The deadline ends an operation and changes nothing else; what is still active is what it was.
LEMMA Ticking ==
    ASSUME w \in WriterType
    PROVE  /\ tick(w) \in WriterType
           /\ tick(w).edited = w.edited /\ tick(w).editUid = w.editUid /\ tick(w).editId = w.editId
           /\ tick(w).editing = w.editing /\ tick(w).intended = w.intended
           /\ tick(w).sequence = w.sequence
           /\ tick(w) = w \/ tick(w).current = "timed-out"
<1>1. CASE active(w) /\ w.left = 0
  BY <1>1 DEF tick, Ended_, WriterType, States, Ended
<1>2. CASE ~(active(w) /\ w.left = 0)
  BY <1>2 DEF tick
<1> QED
  BY <1>1, <1>2

\* An operation that ends keeps the editor; every other fact is about one under way.
LEMMA EndingKeeps ==
    ASSUME CardInv, NEW how \in Ended,
           w' \in WriterType, w'.current = how,
           w'.edited = w.edited, w'.editUid = w.editUid, w'.editId = w.editId,
           board' \in BoardType, OneCard(board'.picc), OneCard(field'), DOMAIN cards' = Uids,
           page' \in PageType,
           hist' \in HistType, hist'.read = hist.read, UsedIsLatched'
    PROVE  CardInv'
<1>1. w'.current \notin Operating /\ w'.current \notin Armed
  BY DEF Ended, Operating, Armed
<1>2. CardTypeOK'
  BY DEF CardTypeOK
<1>3. SessionIsItsOperations'
  BY <1>1 DEF SessionIsItsOperations, Operating, CardInv
<1>4. EditorWasRead'
  BY DEF EditorWasRead, CardInv
<1>5. OwnersOK' /\ AskedIsIntended' /\ CheckedOrBlank'
  BY <1>1 DEF OwnersOK, AskedIsIntended, CheckedOrBlank, Armed, Operating
<1> QED
  BY <1>2, <1>3, <1>4, <1>5 DEF CardInv

\* An operation that goes on, or none, with the board and the cards as they were.
LEMMA GoingOn ==
    ASSUME CardInv,
           w' \in WriterType, w'.current = w.current, w'.owner = w.owner, w'.editing = w.editing,
           w'.edited = w.edited, w'.editUid = w.editUid, w'.editId = w.editId,
           w'.intended = w.intended, cards' = cards,
           board' \in BoardType, board'.pending = board.pending, board'.picc = board.picc,
           board'.page = board.page,
           page' \in PageType,
           hist' \in HistType, hist'.read = hist.read, hist'.asked = hist.asked,
           OneCard(field'), UsedIsLatched'
    PROVE  CardInv'
<1>1. CardTypeOK'
  BY DEF CardTypeOK, CardInv
<1>2. SessionIsItsOperations'
  BY DEF SessionIsItsOperations, CardInv
<1>3. EditorWasRead' /\ OwnersOK' /\ AskedIsIntended'
  BY DEF EditorWasRead, OwnersOK, AskedIsIntended, CardInv
<1>4. CheckedOrBlank'
  BY DEF CheckedOrBlank, checkEdit, TheCard, CardInv
<1> QED
  BY <1>1, <1>2, <1>3, <1>4 DEF CardInv

\* The deadline may end an operation; if not, the operation goes on.
LEMMA TickingOn ==
    ASSUME CardInv, w' = tick(w), cards' = cards,
           board' \in BoardType, board'.pending = board.pending, board'.picc = board.picc,
           board'.page = board.page,
           page' \in PageType,
           hist' \in HistType, hist'.read = hist.read, hist'.asked = hist.asked,
           OneCard(field'), UsedIsLatched'
    PROVE  CardInv'
<1>1. w \in WriterType /\ OneCard(board'.picc) /\ DOMAIN cards' = Uids
  BY DEF CardInv, CardTypeOK
<1>2. CASE w' = w
  BY <1>1, <1>2, GoingOn
<1>3. CASE tick(w).current = "timed-out"
  <2>1. "timed-out" \in Ended
    BY DEF Ended
  <2> QED
    BY <1>1, <1>3, <2>1, Ticking, EndingKeeps
<1> QED
  BY <1>1, <1>2, <1>3, Ticking

LEMMA WriterBegins == WriterInit => CardInv
<1> SUFFICES ASSUME WriterInit PROVE CardInv
  OBVIOUS
<1>1. /\ w \in WriterType /\ w.current = "idle" /\ w.edited = {} /\ w.editId = 0
  BY DEF WriterInit, DeviceInit, CardWriterInit, WriterType, States, Ended
<1>2. board \in BoardType /\ board.picc = {}
  BY DEF WriterInit, DeviceInit, BoardInit, BoardType
<1>3. hist \in HistType /\ hist.used = {} /\ OneCard(field)
  BY DEF WriterInit, DeviceInit, HistType, OneCard
<1>4. page \in PageType /\ DOMAIN cards = Uids
  <2>1. PICK b \in BOOLEAN : page = PageInit(b)
    BY DEF WriterInit
  <2>2. page \in PageType
    BY <2>1 DEF PageInit, PageType
  <2> QED
    BY <2>2 DEF WriterInit, DeviceInit
<1>5. CardTypeOK
  BY <1>1, <1>2, <1>3, <1>4 DEF CardTypeOK, OneCard
<1> QED
  BY <1>1, <1>3, <1>4, <1>5
  DEF CardInv, SessionIsItsOperations, OwnersOK, UsedIsLatched, EditorWasRead, AskedIsIntended,
      CheckedOrBlank, Operating

\* What the page makes of a status is a page, with the editor it had or the one reported.
LEMMA Showing ==
    ASSUME NEW p \in PageType, NEW x \in WriterType
    PROVE  LET s == Shown(p, x)
           IN  /\ s \in PageType
               /\ \/ s.editId = p.editId /\ s.doc = p.doc /\ s.fresh = p.fresh
                  \/ s.editId = x.editId /\ s.doc = x.edited
                  \/ s.editId = 0
               /\ s.editId \in {p.editId, x.editId, 0}
<1>1. CASE x.edited # {} /\ Loads(p, x)
  <2>1. Shown(p, x) = [p EXCEPT !.loadedId = x.editId, !.editId = x.editId, !.doc = x.edited,
                                !.fresh = TRUE]
    BY <1>1 DEF Shown
  <2> QED
    BY <2>1 DEF PageType, WriterType
<1>2. CASE ~(x.edited # {} /\ Loads(p, x)) /\ x.edited # {} /\ ~p.acceptRead
  <2>1. Shown(p, x) = [p EXCEPT !.loadedId = x.editId]
    BY <1>2 DEF Shown
  <2> QED
    BY <2>1 DEF PageType, WriterType
<1>3. CASE x.edited = {} /\ x.current = "success"
  <2>1. Shown(p, x) = [p EXCEPT !.editId = 0]
    BY <1>3 DEF Shown
  <2> QED
    BY <2>1 DEF PageType, WriterType
<1>4. CASE Shown(p, x) = p
  BY <1>4
<1> QED
  BY <1>1, <1>2, <1>3, <1>4 DEF Shown

LEMMA ArmingIt ==
    ASSUME NEW x \in WriterType, NEW current \in States, NEW owner \in {"Read", "Write"}
    PROVE  LET y == Arm(x, current, owner)
           IN  /\ y \in WriterType /\ y.current = current /\ y.owner = owner
               /\ y.edited = x.edited /\ y.editUid = x.editUid /\ y.editId = x.editId
<1> DEFINE s == x.sequence + 1
<1>1. s \in Nat /\ ArmTime \in Nat
  BY CardWriterAssumption DEF WriterType
<1>2. Arm(x, current, owner) = [x EXCEPT !.current = current, !.owner = owner, !.left = ArmTime,
                                         !.sequence = s]
  BY DEF Arm
<1> HIDE DEF s
<1> QED
  BY <1>1, <1>2 DEF WriterType

\* Arming takes over from no operation.
LEMMA ArmReadStep ==
    ASSUME CardInv, ArmRead
    PROVE  CardInv'
<1>1. /\ UNCHANGED <<board, cards, field, hist>> /\ w \in WriterType
      /\ w' = Arm(tick(w), "armed-read", "Read")
  BY DEF ArmRead, Arming, CardInv, CardTypeOK
<1>2. /\ w' \in WriterType /\ w'.current = "armed-read" /\ w'.owner = "Read"
      /\ w'.edited = w.edited /\ w'.editUid = w.editUid /\ w'.editId = w.editId
  <2>1. tick(w) \in WriterType /\ "armed-read" \in States
    BY <1>1, Ticking DEF States, Armed
  <2> QED
    BY <1>1, <2>1, Ticking, ArmingIt
<1>3. CardTypeOK'
  <2>1. page' \in PageType
    BY <1>2, Showing DEF ArmRead, CardInv, CardTypeOK, PageType
  <2> QED
    BY <1>1, <1>2, <2>1 DEF CardInv, CardTypeOK
<1> QED
  BY <1>1, <1>2, <1>3
  DEF CardInv, SessionIsItsOperations, OwnersOK, UsedIsLatched, EditorWasRead, AskedIsIntended,
      CheckedOrBlank, Operating

LEMMA ArmWriteStep ==
    ASSUME CardInv, ArmWrite
    PROVE  CardInv'
<1> DEFINE editing == page.editId # 0
           base == IF editing THEN w.edited ELSE {}
           shows == IF editing THEN page.doc ELSE {}
           outdated == editing /\ ~page.fresh
<1>1. PICK url \in Urls :
        /\ w' = [Arm(tick(w), "armed-write", "Write") EXCEPT !.editing = editing,
                        !.intended = {authorCard(url, base)}]
        /\ hist' = [hist EXCEPT !.shown = shows, !.outdated = outdated, !.asked =
                  {[url |-> url, advanced |-> editing /\ \E s \in hist.read : s.doc.advanced]}]
  BY ZenonT(30) DEF ArmWrite
<1>2. /\ UNCHANGED <<board, cards, field>> /\ w \in WriterType /\ hist \in HistType
      /\ editing => w.edited # {}
      /\ page \in PageType /\ shows \in SUBSET Docs /\ outdated \in BOOLEAN
  BY DEF ArmWrite, Arming, CardInv, CardTypeOK, PageType
<1>3. authorCard(url, base) = [url |-> url, advanced |-> editing /\ \E s \in hist.read : s.doc.advanced]
  <2>1. (\E d \in base : d.advanced) <=> editing /\ \E s \in hist.read : s.doc.advanced
    <3>1. CASE ~editing
      BY <3>1
    <3>2. CASE editing
      <4>1. PICK u \in Uids, d \in Docs : w.edited = {d} /\ hist.read = {[uid |-> u, doc |-> d]}
        BY <1>2, <3>2 DEF CardInv, EditorWasRead
      <4> QED
        BY <3>2, <4>1
    <3> QED
      BY <3>1, <3>2
  <2> HIDE DEF editing, base
  <2>2. (\E d \in base : d.advanced) = (editing /\ \E s \in hist.read : s.doc.advanced)
    BY <2>1
  <2> QED
    BY <2>2 DEF authorCard
<1> DEFINE adv == editing /\ \E s \in hist.read : s.doc.advanced
           doc == [url |-> url, advanced |-> adv]
<1>4. doc \in Docs
  <2>1. adv \in BOOLEAN
    OBVIOUS
  <2> HIDE DEF adv
  <2> QED
    BY <2>1 DEF Docs
<1>5. editing \in BOOLEAN
  OBVIOUS
<1>6. hist' = [hist EXCEPT !.shown = shows, !.outdated = outdated, !.asked = {doc}]
  BY <1>1
<1>7. w' = [Arm(tick(w), "armed-write", "Write") EXCEPT !.editing = editing, !.intended = {doc}]
  BY <1>1, <1>3
<1> HIDE DEF editing, adv, doc, base, shows, outdated
<1>8. /\ hist' \in HistType /\ hist'.asked = {doc} /\ hist'.read = hist.read
      /\ hist'.used = hist.used /\ hist'.waiting = hist.waiting
  BY <1>2, <1>4, <1>6 DEF HistType
<1>9. /\ w' \in WriterType /\ w'.current = "armed-write" /\ w'.owner = "Write" /\ w'.intended = {doc}
      /\ w'.edited = w.edited /\ w'.editUid = w.editUid /\ w'.editId = w.editId
  <2>1. tick(w) \in WriterType /\ "armed-write" \in States
    BY <1>2, Ticking DEF States, Armed
  <2> DEFINE x == Arm(tick(w), "armed-write", "Write")
  <2>2. /\ x \in WriterType /\ x.current = "armed-write" /\ x.owner = "Write"
        /\ x.edited = w.edited /\ x.editUid = w.editUid /\ x.editId = w.editId
    BY <1>2, <2>1, Ticking, ArmingIt
  <2>3. w' = [x EXCEPT !.editing = editing, !.intended = {doc}]
    BY <1>7
  <2> HIDE DEF x
  <2> QED
    BY <1>4, <1>5, <2>2, <2>3 DEF WriterType
<1>10. CardTypeOK'
  <2>1. page' \in PageType
    BY <1>2, <1>9, Showing DEF ArmWrite
  <2> QED
    BY <1>2, <1>8, <1>9, <2>1 DEF CardInv, CardTypeOK
<1> QED
  BY <1>2, <1>8, <1>9, <1>10
  DEF CardInv, SessionIsItsOperations, OwnersOK, UsedIsLatched, EditorWasRead, AskedIsIntended,
      CheckedOrBlank, Operating

LEMMA CancelStep ==
    ASSUME CardInv, Cancel
    PROVE  CardInv'
<1>1. UNCHANGED <<board, cards, field, hist>> /\ w' = [w EXCEPT !.current = "idle", !.owner = "Playback"]
  BY DEF Cancel, Ended_
<1>2. /\ w' \in WriterType /\ w'.current = "idle" /\ w'.edited = w.edited
      /\ w'.editUid = w.editUid /\ w'.editId = w.editId
  BY <1>1 DEF CardInv, CardTypeOK, WriterType, States, Ended
<1>3. "idle" \in Ended
  BY DEF Ended
<1>4. page' \in PageType
  BY <1>2, Showing DEF Cancel, CardInv, CardTypeOK
<1> QED
  BY <1>1, <1>2, <1>3, <1>4, EndingKeeps DEF CardInv, CardTypeOK, UsedIsLatched

\* The reader's loop: a card is detected by an armed writer that has no session.
LEMMA PollNfcStep ==
    ASSUME CardInv, PollNfc
    PROVE  CardInv'
<1>1. /\ w \in WriterType /\ board \in BoardType /\ hist \in HistType /\ OneCard(field)
      /\ UNCHANGED <<cards, field, page>> /\ UsedIsLatched /\ page \in PageType
  BY DEF PollNfc, CardInv, CardTypeOK
<1>2. /\ Missed(board) \in BoardType /\ Missed(board).pending = board.pending
      /\ Missed(board).picc = board.picc /\ Missed(board).page = board.page
      /\ board.misses < 2 => Missed(board).latched = board.latched
  <2> DEFINE m == IF board.latched /\ board.misses < 3 THEN board.misses + 1 ELSE board.misses
             l == board.latched /\ board.misses < 2
  <2>1. m \in Nat
    BY <1>1 DEF BoardType
  <2>2. l \in BOOLEAN /\ (board.misses < 2 => (l <=> board.latched))
    OBVIOUS
  <2>3. Missed(board) = [board EXCEPT !.misses = m, !.latched = l]
    BY DEF Missed
  <2>4. board.latched \in BOOLEAN
    BY <1>1 DEF BoardType
  <2> HIDE DEF m, l
  <2>5. /\ Missed(board) \in BoardType /\ Missed(board).pending = board.pending
        /\ Missed(board).picc = board.picc /\ Missed(board).page = board.page
        /\ Missed(board).latched = l
    BY <1>1, <2>1, <2>2, <2>3 DEF BoardType
  <2> QED
    BY <2>2, <2>4, <2>5
<1>3. CASE field = {} /\ board' = Missed(board) /\ w' = tick(w) /\ UNCHANGED hist
  BY <1>1, <1>2, <1>3, TickingOn DEF UsedIsLatched
<1>4. CASE board.misses < 2 /\ board' = Missed(board) /\ w' = tick(w) /\ UNCHANGED hist
  BY <1>1, <1>2, <1>4, TickingOn DEF UsedIsLatched
<1>5. CASE board.latched /\ board' = [board EXCEPT !.misses = 0] /\ w' = tick(w) /\ UNCHANGED hist
  <2>1. /\ board' \in BoardType /\ board'.pending = board.pending /\ board'.picc = board.picc
        /\ board'.page = board.page /\ board'.latched = board.latched
    BY <1>1, <1>5 DEF BoardType
  <2> QED
    BY <1>1, <1>5, <2>1, TickingOn DEF UsedIsLatched
<1>6. CASE /\ field # {} /\ hist' = [hist EXCEPT !.used = @ \cup field, !.waiting = @ \ field]
           /\ ~Owned(w) /\ w' = tick(w) /\ board' = [board EXCEPT !.latched = TRUE, !.misses = 0]
  <2>1. /\ board' \in BoardType /\ board'.pending = board.pending /\ board'.picc = board.picc
        /\ board'.page = board.page /\ board'.latched
    BY <1>1, <1>6 DEF BoardType
  <2>2. hist' \in HistType /\ hist'.read = hist.read /\ hist'.asked = hist.asked
    BY <1>1, <1>6 DEF HistType, OneCard
  <2>3. UsedIsLatched'
    BY <2>1 DEF UsedIsLatched
  <2> QED
    BY <1>1, <1>6, <2>1, <2>2, <2>3, TickingOn
<1>7. CASE /\ field # {} /\ hist' = [hist EXCEPT !.used = @ \cup field, !.waiting = @ \ field]
           /\ Owned(w) /\ w' = Detected(w)
           /\ board' = [board EXCEPT !.latched = TRUE, !.misses = 0, !.pending = TRUE,
                                     !.picc = field, !.selected = TRUE]
  <2>1. board' \in BoardType /\ board'.pending /\ board'.picc = field /\ board'.latched
    BY <1>1, <1>7 DEF BoardType, OneCard
  <2>2. hist' \in HistType /\ hist'.read = hist.read /\ hist'.asked = hist.asked
    BY <1>1, <1>7 DEF HistType, OneCard
  <2>3. UsedIsLatched'
    BY <2>1 DEF UsedIsLatched
  <2>4. w.current \in Armed /\ tick(w) = w
    BY <1>1, <1>7, Ticking DEF Owned, Armed
  <2>5. w' = [w EXCEPT !.current = "card-detected", !.left = OpTime]
    BY <1>7, <2>4 DEF Detected
  <2>6. OpTime \in Nat /\ "card-detected" \in States
    BY CardWriterAssumption DEF States, Operating
  <2>7. /\ w' \in WriterType /\ w'.current = "card-detected" /\ w'.owner = w.owner
        /\ w'.edited = w.edited /\ w'.editUid = w.editUid /\ w'.editId = w.editId
        /\ w'.editing = w.editing /\ w'.intended = w.intended
    BY <1>1, <2>5, <2>6 DEF WriterType
  <2>8. CardTypeOK'
    BY <1>1, <2>1, <2>2, <2>7 DEF CardInv, CardTypeOK
  <2>9. SessionIsItsOperations'
    BY <1>1, <1>7, <2>1, <2>4, <2>7
    DEF CardInv, SessionIsItsOperations, OwnersOK, Armed
  <2>10. AskedIsIntended'
    BY <2>2, <2>4, <2>7 DEF CardInv, AskedIsIntended, OwnersOK, Armed
  <2>11. EditorWasRead'
    BY <2>2, <2>7 DEF CardInv, EditorWasRead
  <2>12. OwnersOK' /\ CheckedOrBlank'
    BY <2>7 DEF OwnersOK, CheckedOrBlank
  <2> QED
    BY <2>3, <2>8, <2>9, <2>10, <2>11, <2>12 DEF CardInv
<1> QED
  BY <1>3, <1>4, <1>5, <1>6, <1>7 DEF PollNfc

\* What is under way after the deadline was looked at is what was under way before.
LEMMA UnderWay ==
    ASSUME w \in WriterType, tick(w).current \in Operating
    PROVE  /\ tick(w) = w /\ w.current \in Operating
           /\ fail(tick(w)) = Ended_(w, "failed")
<1>1. tick(w) = w
  BY Ticking DEF Operating
<1> QED
  BY <1>1 DEF fail, active

LEMMA Ending ==
    ASSUME w \in WriterType, NEW how \in Ended
    PROVE  LET y == Ended_(w, how)
           IN  /\ y \in WriterType /\ y.current = how /\ y.owner = "Playback"
               /\ y.edited = w.edited /\ y.editUid = w.editUid /\ y.editId = w.editId
               /\ y.editing = w.editing /\ y.intended = w.intended
<1>1. how \in States
  BY DEF States
<1> QED
  BY <1>1 DEF Ended_, WriterType

LEMMA Finishing ==
    ASSUME CardInv, Finish
    PROVE  /\ board' \in BoardType /\ board'.picc = board.picc /\ board'.latched = board.latched
           /\ OneCard(board'.picc)
<1> QED
  BY DEF Finish, BoardType, CardInv, CardTypeOK

\* An operation that ends gives its session back and leaves the cards as they are now.
LEMMA EndsWithSession ==
    ASSUME CardInv, tick(w).current \in Operating, NEW how \in Ended,
           w' = Ended_(w, how), Finish,
           UNCHANGED <<field, hist, page>>, DOMAIN cards' = Uids
    PROVE  CardInv'
<1>1. /\ w \in WriterType /\ OneCard(field') /\ hist' \in HistType /\ hist'.read = hist.read
      /\ UsedIsLatched /\ page' \in PageType
  BY DEF CardInv, CardTypeOK
<1>2. UsedIsLatched'
  BY <1>1, Finishing DEF UsedIsLatched
<1> QED
  BY <1>1, <1>2, Ending, Finishing, EndingKeeps

LEMMA ReleaseStep ==
    ASSUME CardInv, Release_, UNCHANGED <<field, page>>
    PROVE  CardInv'
<1>1. w \in WriterType /\ UNCHANGED <<cards, hist>> /\ Finish /\ Released(tick(w)) /\ w' = tick(w)
  BY DEF Release_, CardInv, CardTypeOK
<1>2. /\ OneCard(field') /\ hist' \in HistType /\ hist'.read = hist.read /\ DOMAIN cards' = Uids
      /\ UsedIsLatched' /\ page' \in PageType
  BY <1>1, Finishing DEF CardInv, CardTypeOK, UsedIsLatched
<1>3. CASE tick(w).current = "timed-out"
  <2>1. "timed-out" \in Ended
    BY DEF Ended
  <2> QED
    BY <1>1, <1>2, <1>3, <2>1, Ticking, Finishing, EndingKeeps
<1>4. CASE tick(w) = w
  <2>1. w' = w /\ w.current \notin Operating
    BY <1>1, <1>4 DEF Released, active, Armed, Operating
  <2>2. CardTypeOK'
    BY <1>1, <1>2, <2>1, Finishing DEF CardTypeOK
  <2> QED
    BY <1>1, <1>2, <2>1, <2>2
    DEF CardInv, SessionIsItsOperations, OwnersOK, EditorWasRead, AskedIsIntended, CheckedOrBlank,
        Operating
<1> QED
  BY <1>1, <1>3, <1>4, Ticking

\* detect: a write goes on only after what is on the card was compared.
LEMMA DetectStep ==
    ASSUME CardInv, Detect, board.pending, UNCHANGED <<field, page>>
    PROVE  CardInv'
<1>1. /\ w \in WriterType /\ board \in BoardType /\ UNCHANGED <<cards, hist>>
      /\ tick(w).current = "card-detected"
  BY DEF Detect, CardInv, CardTypeOK
<1>2. tick(w) = w /\ w.current = "card-detected" /\ fail(tick(w)) = Ended_(w, "failed")
  BY <1>1, UnderWay DEF Operating
<1>3. CASE w' = fail(tick(w)) /\ Finish
  <2>1. "failed" \in Ended /\ "card-detected" \in Operating
    BY DEF Ended, Operating
  <2> QED
    BY <1>1, <1>2, <1>3, <2>1, EndsWithSession DEF CardInv, CardTypeOK
<1> DEFINE Goes(current, owner) ==
             /\ w.owner = owner /\ w' = [w EXCEPT !.current = current]
             /\ board' \in BoardType /\ board'.pending = board.pending
             /\ board'.picc = board.picc /\ board'.latched = board.latched
<1>4. ASSUME NEW current \in Operating, NEW owner, Goes(current, owner)
      PROVE  /\ CardTypeOK' /\ EditorWasRead' /\ UsedIsLatched' /\ AskedIsIntended'
             /\ w'.current = current /\ w'.owner = owner
             /\ w'.current \in Operating => board'.pending /\ board'.picc # {} /\ w'.owner # "Playback"
             /\ w'.editId # 0 => w'.edited # {}
             /\ w'.edited = w.edited /\ w'.editUid = w.editUid /\ w'.editing = w.editing
  <2>1. /\ w' \in WriterType /\ w'.current = current /\ w'.owner = owner
        /\ w'.edited = w.edited /\ w'.editUid = w.editUid /\ w'.editId = w.editId
        /\ w'.editing = w.editing /\ w'.intended = w.intended
    BY <1>1, <1>4 DEF WriterType, States
  <2>2. w.current \in Operating
    BY <1>2 DEF Operating
  <2>3. CardTypeOK' /\ UsedIsLatched'
    BY <1>1, <1>4, <2>1 DEF CardInv, CardTypeOK, UsedIsLatched
  <2>4. EditorWasRead'
    BY <1>1, <2>1 DEF CardInv, EditorWasRead
  <2>5. AskedIsIntended'
    <3>1. "armed-write" \notin Operating /\ w.owner = owner /\ hist' = hist
      BY <1>1, <1>4 DEF Operating
    <3> QED
      BY <2>1, <2>2, <3>1 DEF CardInv, AskedIsIntended
  <2>6. board.pending /\ board.picc # {} /\ w.owner # "Playback" /\ (w.editId # 0 => w.edited # {})
    BY <2>2 DEF CardInv, SessionIsItsOperations
  <2> QED
    BY <1>4, <2>1, <2>3, <2>4, <2>5, <2>6
<1>5. CASE /\ w.owner = "Read" /\ w' = [tick(w) EXCEPT !.current = "reading"]
           /\ board' = [board EXCEPT !.selected = TRUE]
  <2>1. Goes("reading", "Read") /\ "reading" \in Operating
    BY <1>1, <1>2, <1>5 DEF BoardType, Operating
  <2>2. OwnersOK' /\ CheckedOrBlank' /\ SessionIsItsOperations'
    BY <1>4, <2>1 DEF OwnersOK, CheckedOrBlank, SessionIsItsOperations
  <2> QED
    BY <1>4, <2>1, <2>2 DEF CardInv
<1>6. CASE /\ w.owner = "Write" /\ checkEdit(board.picc, cards[TheCard])
           /\ w' = [tick(w) EXCEPT !.current = "writing"]
           /\ board' = [board EXCEPT !.selected = TRUE, !.page = 0]
  <2>1. Goes("writing", "Write") /\ "writing" \in Operating /\ board'.page = 0
    BY <1>1, <1>2, <1>6 DEF BoardType, Operating
  <2>2. OwnersOK' /\ SessionIsItsOperations'
    BY <1>4, <2>1, CardWriterAssumption DEF OwnersOK, SessionIsItsOperations
  <2>3. CheckedOrBlank'
    <3>1. /\ board'.picc = board.picc /\ cards' = cards
          /\ w'.edited = w.edited /\ w'.editUid = w.editUid /\ w'.editing = w.editing
      BY <1>1, <1>4, <2>1
    <3>2. TheCard' = TheCard
      BY <3>1 DEF TheCard
    <3>3. checkEdit(board.picc, cards[TheCard])'
      BY <1>6, <3>1, <3>2 DEF checkEdit
    <3> QED
      BY <2>1, <3>3 DEF CheckedOrBlank
  <2> QED
    BY <1>4, <2>1, <2>2, <2>3 DEF CardInv
<1> QED
  BY <1>3, <1>5, <1>6 DEF Detect

\* read: the text becomes the one to edit, with its card.
LEMMA ReadStep ==
    ASSUME CardInv, Read, UNCHANGED <<field, page>>
    PROVE  CardInv'
<1>1. /\ w \in WriterType /\ hist \in HistType /\ UNCHANGED cards /\ Finish
      /\ tick(w).current = "reading" /\ DOMAIN cards = Uids
  BY DEF Read, CardInv, CardTypeOK
<1>2. /\ tick(w) = w /\ w.current = "reading" /\ fail(tick(w)) = Ended_(w, "failed")
      /\ tick(w).current \in Operating
  BY <1>1, UnderWay DEF Operating
<1>3. CASE w' = fail(tick(w)) /\ UNCHANGED hist
  <2>1. "failed" \in Ended
    BY DEF Ended
  <2> QED
    BY <1>1, <1>2, <1>3, <2>1, EndsWithSession
<1>4. CASE /\ cards[TheCard] \in Docs
           /\ w' = [Ended_(w, "success") EXCEPT !.edited = {cards[TheCard]}, !.editUid = board.picc,
                                                !.editId = w.sequence]
           /\ hist' = [hist EXCEPT !.read = {[uid |-> TheCard, doc |-> cards[TheCard]]}]
  <2> DEFINE d == cards[TheCard]
             x == Ended_(w, "success")
  <2>1. PICK u \in Uids : board.picc = {u}
    BY <1>2 DEF CardInv, CardTypeOK, OneCard, SessionIsItsOperations, Operating
  <2>2. TheCard = u
    BY <2>1 DEF TheCard
  <2>3. x \in WriterType /\ x.current = "success"
    BY <1>1, Ending DEF Ended
  <2>4. d \in Docs /\ w.sequence \in Nat /\ board.picc \subseteq Uids
    BY <1>1, <1>4, <2>1 DEF WriterType
  <2> HIDE DEF d, x
  <2>5. w' = [x EXCEPT !.edited = {d}, !.editUid = board.picc, !.editId = w.sequence]
    BY <1>4 DEF x, d
  <2>6. /\ w' \in WriterType /\ w'.current = "success" /\ w'.edited = {d}
        /\ w'.editUid = board.picc
    BY <2>3, <2>4, <2>5 DEF WriterType
  <2>7. hist' = [hist EXCEPT !.read = {[uid |-> u, doc |-> d]}] /\ [uid |-> u, doc |-> d] \in [uid : Uids, doc : Docs]
    BY <1>4, <2>2, <2>4 DEF d
  <2>8. /\ hist' \in HistType /\ hist'.read = {[uid |-> u, doc |-> d]} /\ hist'.used = hist.used
    BY <1>1, <2>7 DEF HistType
  <2>9. EditorWasRead'
    BY <2>1, <2>4, <2>6, <2>8 DEF EditorWasRead
  <2>10. CardTypeOK' /\ UsedIsLatched'
    <3>1. hist'.waiting = hist.waiting /\ field' = field /\ page' = page
      BY <1>1, <2>7 DEF HistType
    <3> QED
      BY <1>1, <2>6, <2>8, <3>1, Finishing DEF CardInv, CardTypeOK, UsedIsLatched
  <2>11. OwnersOK' /\ AskedIsIntended' /\ CheckedOrBlank' /\ SessionIsItsOperations'
    BY <2>6 DEF OwnersOK, AskedIsIntended, CheckedOrBlank, SessionIsItsOperations, Operating
  <2> QED
    BY <2>9, <2>10, <2>11 DEF CardInv
<1> QED
  BY <1>1, <1>3, <1>4 DEF Read

\* A page that is not the last one leaves the card blank.
LEMMA StorePageStep ==
    ASSUME CardInv, StorePage, UNCHANGED <<field, page>>
    PROVE  CardInv'
<1>1. /\ w \in WriterType /\ board \in BoardType /\ UNCHANGED hist
      /\ tick(w).current = "writing" /\ DOMAIN cards = Uids
  BY DEF StorePage, CardInv, CardTypeOK
<1>2. /\ tick(w) = w /\ w.current = "writing" /\ fail(tick(w)) = Ended_(w, "failed")
      /\ tick(w).current \in Operating
  BY <1>1, UnderWay DEF Operating
<1>3. cards' = cards \/ cards' = [cards EXCEPT ![TheCard] = Stored(board.page)]
  BY DEF StorePage
<1>4. DOMAIN cards' = Uids
  BY <1>1, <1>3
<1>5. CASE w' = fail(tick(w)) /\ Finish
  <2>1. "failed" \in Ended
    BY DEF Ended
  <2> QED
    BY <1>1, <1>2, <1>4, <1>5, <2>1, EndsWithSession
<1>6. CASE /\ cards' = [cards EXCEPT ![TheCard] = Stored(board.page)]
           /\ board' = [board EXCEPT !.page = @ + 1]
           /\ w' = [tick(w) EXCEPT !.current = IF board.page = Pages - 1 THEN "verifying" ELSE @]
  <2> DEFINE current == IF board.page = Pages - 1 THEN "verifying" ELSE "writing"
  <2>1. /\ board.page \in Nat /\ board.page < Pages /\ board.pending /\ board.picc # {}
        /\ w.owner = "Write" /\ w.owner # "Playback" /\ (w.editId # 0 => w.edited # {})
    BY <1>1, <1>2 DEF CardInv, SessionIsItsOperations, Operating, BoardType
  <2>2. /\ board' \in BoardType /\ board'.page = board.page + 1 /\ board'.pending = board.pending
        /\ board'.picc = board.picc /\ board'.latched = board.latched
    <3> DEFINE n == board.page + 1
    <3>1. n \in Nat /\ board' = [board EXCEPT !.page = n]
      BY <1>6, <2>1
    <3> HIDE DEF n
    <3>2. /\ board' \in BoardType /\ board'.page = n /\ board'.pending = board.pending
          /\ board'.picc = board.picc /\ board'.latched = board.latched
      BY <1>1, <3>1 DEF BoardType
    <3> QED
      BY <3>2 DEF n
  <2>3. current \in States /\ w' = [w EXCEPT !.current = current]
    BY <1>2, <1>6 DEF States, Operating
  <2>4. /\ w' \in WriterType /\ w'.current = current /\ w'.owner = w.owner
        /\ w'.edited = w.edited /\ w'.editUid = w.editUid /\ w'.editId = w.editId
        /\ w'.intended = w.intended
    BY <1>1, <2>3 DEF WriterType
  <2>5. CardTypeOK' /\ UsedIsLatched'
    BY <1>1, <1>4, <2>2, <2>4 DEF CardInv, CardTypeOK, UsedIsLatched
  <2>6. SessionIsItsOperations' /\ OwnersOK'
    BY <2>1, <2>2, <2>4, CardWriterAssumption DEF SessionIsItsOperations, OwnersOK, Operating
  <2>7. EditorWasRead'
    BY <1>1, <2>4 DEF CardInv, EditorWasRead
  <2>8. AskedIsIntended'
    <3>1. hist' = hist /\ w.intended = hist.asked
      BY <1>1, <1>2, <2>1 DEF CardInv, AskedIsIntended
    <3> QED
      BY <2>4, <3>1 DEF AskedIsIntended
  <2>9. CheckedOrBlank'
    <3>1. TheCard' = TheCard /\ TheCard \in Uids
      <4>1. PICK u \in Uids : board.picc = {u}
        BY <2>1 DEF CardInv, CardTypeOK, OneCard
      <4> QED
        BY <2>2, <4>1 DEF TheCard
    <3>2. cards'[TheCard] = Stored(board.page)
      BY <1>1, <1>6, <3>1
    <3>3. CASE board.page # Pages - 1
      <4>1. cards'[TheCard'] = Blank /\ board'.page # 0
        BY <2>1, <2>2, <3>1, <3>2, <3>3 DEF Stored
      <4> QED
        BY <4>1 DEF CheckedOrBlank
    <3>4. CASE board.page = Pages - 1
      BY <2>4, <3>4 DEF CheckedOrBlank
    <3> QED
      BY <3>3, <3>4
  <2> QED
    BY <2>5, <2>6, <2>7, <2>8, <2>9 DEF CardInv
<1> QED
  BY <1>1, <1>5, <1>6 DEF StorePage

LEMMA VerifyStep ==
    ASSUME CardInv, Verify, UNCHANGED <<field, page>>
    PROVE  CardInv'
<1>1. /\ w \in WriterType /\ UNCHANGED <<cards, hist>> /\ Finish
      /\ tick(w).current = "verifying" /\ DOMAIN cards = Uids /\ hist \in HistType
  BY DEF Verify, CardInv, CardTypeOK
<1>2. /\ tick(w) = w /\ w.current = "verifying" /\ fail(tick(w)) = Ended_(w, "failed")
      /\ tick(w).current \in Operating
  BY <1>1, UnderWay DEF Operating
<1>3. CASE w' = fail(tick(w))
  <2>1. "failed" \in Ended
    BY DEF Ended
  <2> QED
    BY <1>1, <1>2, <1>3, <2>1, EndsWithSession
<1>4. CASE w' = DropsEdit(Ended_(w, "success"))
  <2> DEFINE x == Ended_(w, "success")
  <2>1. x \in WriterType /\ x.current = "success"
    BY <1>1, Ending DEF Ended
  <2>2. w' = [x EXCEPT !.edited = {}, !.editId = 0]
    BY <1>4 DEF DropsEdit
  <2> HIDE DEF x
  <2>3. w' \in WriterType /\ w'.current = "success" /\ w'.edited = {} /\ w'.editId = 0
    BY <2>1, <2>2 DEF WriterType
  <2>4. CardTypeOK' /\ UsedIsLatched'
    BY <1>1, <2>3, Finishing DEF CardInv, CardTypeOK, UsedIsLatched
  <2> QED
    BY <2>3, <2>4
    DEF CardInv, SessionIsItsOperations, OwnersOK, EditorWasRead, AskedIsIntended, CheckedOrBlank,
        Operating
<1> QED
  BY <1>3, <1>4 DEF Verify

\* What people do: a card that is put down has not been used there, and a restart forgets all
\* but the cards.
LEMMA PeopleStep ==
    ASSUME CardInv, Put \/ TakeAway
    PROVE  CardInv'
<1>1. /\ w \in WriterType /\ board \in BoardType /\ hist \in HistType /\ UNCHANGED <<w, cards, page>>
      /\ page \in PageType
  BY DEF CardInv, CardTypeOK, Put, TakeAway
<1>2. CASE Put
  <2>1. /\ hist' = [hist EXCEPT !.used = @ \ field', !.waiting = {}]
        /\ UNCHANGED board /\ OneCard(field')
    BY <1>2 DEF Put, OneCard
  <2>2. /\ hist' \in HistType /\ hist'.read = hist.read /\ hist'.asked = hist.asked
        /\ hist'.used = hist.used \ field'
    BY <1>1, <2>1 DEF HistType
  <2>3. UsedIsLatched'
    BY <2>2 DEF UsedIsLatched
  <2> QED
    BY <1>1, <2>1, <2>2, <2>3, GoingOn
<1>3. CASE TakeAway
  <2>1. board' = [board EXCEPT !.selected = FALSE] /\ field' = {} /\ UNCHANGED hist
    BY <1>3 DEF TakeAway
  <2>2. /\ board' \in BoardType /\ board'.pending = board.pending /\ board'.picc = board.picc
        /\ board'.page = board.page
    BY <1>1, <2>1 DEF BoardType
  <2>3. OneCard(field') /\ UsedIsLatched'
    BY <2>1 DEF OneCard, UsedIsLatched
  <2> QED
    BY <1>1, <2>1, <2>2, <2>3, GoingOn
<1> QED
  BY <1>2, <1>3

LEMMA RestartsAfresh ==
    ASSUME CardInv, Restart
    PROVE  CardInv'
<1>1. w' \in WriterType /\ w'.current = "idle" /\ w'.edited = {} /\ w'.editId = 0
  BY DEF Restart, CardWriterInit, WriterType, States, Ended
<1>2. board' \in BoardType /\ board'.picc = {}
  BY DEF Restart, BoardInit, BoardType
<1>3. hist' \in HistType /\ hist'.waiting = field /\ page' \in PageType
  BY DEF Restart, HistType, PageType, CardInv, CardTypeOK, OneCard
<1>4. field' = field /\ cards' = cards
  BY DEF Restart
<1>5. CardTypeOK'
  BY <1>1, <1>2, <1>3, <1>4 DEF CardInv, CardTypeOK, OneCard
<1> QED
  BY <1>1, <1>3, <1>4, <1>5
  DEF CardInv, SessionIsItsOperations, OwnersOK, UsedIsLatched, EditorWasRead, AskedIsIntended,
      CheckedOrBlank, Operating

LEMMA CardsKept ==
    ASSUME CardInv, [WriterNext]_writerVars
    PROVE  CardInv'
<1>1. CASE UNCHANGED <<w, board, cards, field, hist>> /\ page' \in PageType
  BY <1>1
  DEF CardInv, CardTypeOK, SessionIsItsOperations, OwnersOK, UsedIsLatched, EditorWasRead,
      AskedIsIntended, CheckedOrBlank, checkEdit, TheCard
<1>2. CASE PagePoll \/ NewCard \/ Press \/ LetGo \/ UNCHANGED writerVars
  <2>1. w \in WriterType /\ page \in PageType
    BY DEF CardInv, CardTypeOK
  <2>2. page' \in PageType
    <3>1. CASE NewCard
      BY <2>1, <3>1 DEF NewCard, PageType
    <3>2. CASE PagePoll
      BY <2>1, <3>2, Showing DEF PagePoll
    <3> QED
      BY <1>2, <2>1, <3>1, <3>2 DEF Press, LetGo, writerVars
  <2> QED
    BY <1>1, <1>2, <2>2 DEF PagePoll, NewCard, Press, LetGo, writerVars
<1>3. CASE Tick
  <2>1. w' = tick(w) /\ UNCHANGED <<board, cards, field, hist, page>>
    BY <1>3 DEF Tick
  <2> QED
    BY <2>1, TickingOn DEF CardInv, CardTypeOK, UsedIsLatched
<1>4. CASE Elapse
  <2>1. w' = [w EXCEPT !.left = @ - 1] /\ UNCHANGED <<board, cards, field, hist, page>> /\ w.left > 0
    BY <1>4 DEF Elapse
  <2>2. w \in WriterType /\ w.left - 1 \in Nat
    BY <2>1 DEF CardInv, CardTypeOK, WriterType
  <2>3. /\ w' \in WriterType /\ w'.current = w.current /\ w'.owner = w.owner
        /\ w'.editing = w.editing /\ w'.edited = w.edited /\ w'.editUid = w.editUid
        /\ w'.editId = w.editId /\ w'.intended = w.intended
    BY <2>1, <2>2 DEF WriterType
  <2> QED
    BY <2>1, <2>3, GoingOn DEF CardInv, CardTypeOK, UsedIsLatched
<1>5. CASE WriterStep
  <2>1. board.pending /\ UNCHANGED <<field, page>> /\ (Release_ \/ Detect \/ Read \/ StorePage \/ Verify)
    BY <1>5 DEF WriterStep
  <2> QED
    BY <2>1, ReleaseStep, DetectStep, ReadStep, StorePageStep, VerifyStep
<1> QED
  BY <1>2, <1>3, <1>4, <1>5, ArmReadStep, ArmWriteStep, CancelStep, PollNfcStep, PeopleStep,
     RestartsAfresh DEF WriterNext

\* The writer and the board never lose each other: an operation that has met its card has the
\* board's session, and no card is played that something was done with since it was put down,
\* but once after a start that found it on the reader (CardWriter.cpp, pollInput in Stick.cpp).
THEOREM SessionsAreMatched == WriterSpec => []SessionsMatch
<1>1. CardInv => SessionsMatch
  BY DEF CardInv, SessionsMatch, PlaysOnlyFreshCards, Plays, UsedIsLatched
<1> QED
  BY <1>1, WriterBegins, CardsKept, PTL DEF WriterSpec

(* The page and the editor.  Operations are numbered, and the editor has   *)
(* the number of the read that filled it: a page that was loaded since the *)
(* device started has no number that is yet to be given, so what it has    *)
(* under the editor's number is the editor.                                *)
EditorOK(x, p) ==
    /\ x.editId <= x.sequence /\ (x.owner = "Read" => x.editId < x.sequence)
    /\ p.fresh => p.editId <= x.sequence /\ (x.owner = "Read" => p.editId < x.sequence)
    /\ p.fresh /\ p.editId # 0 /\ p.editId = x.editId => p.doc = x.edited

\* A write in progress edits what the page showed when it was asked for.
Writing(x) == x.current = "armed-write" \/ (x.current \in Operating /\ x.owner = "Write")
EditIsShown == Writing(w) /\ w.editing => hist.outdated \/ w.edited = hist.shown

PageInv == CardInv /\ EditorOK(w, page) /\ EditIsShown

LEMMA ShowingIsOK ==
    ASSUME NEW x \in WriterType, NEW p \in PageType, EditorOK(x, p)
    PROVE  EditorOK(x, Shown(p, x))
<1> DEFINE s == Shown(p, x)
<1>1. /\ x.editId \in Nat /\ x.sequence \in Nat /\ p.editId \in Nat /\ s \in PageType
      /\ s.editId \in {p.editId, x.editId, 0}
      /\ \/ s.editId = p.editId /\ s.doc = p.doc /\ s.fresh = p.fresh
         \/ s.editId = x.editId /\ s.doc = x.edited
         \/ s.editId = 0
  BY Showing DEF WriterType, PageType
<1> HIDE DEF s
<1>2. EditorOK(x, s)
  BY <1>1 DEF EditorOK, PageType
<1> QED
  BY <1>2 DEF s

\* Neither the editor nor the number of the operation changes while it goes on or ends.
LEMMA EditorStays ==
    ASSUME PageInv,
           w' \in WriterType, w'.sequence = w.sequence, w'.editId = w.editId, w'.edited = w.edited,
           w'.owner \in {w.owner, "Playback"},
           Writing(w') => Writing(w) /\ w'.editing = w.editing,
           hist'.shown = hist.shown, hist'.outdated = hist.outdated, page' = page
    PROVE  EditorOK(w', page') /\ EditIsShown'
<1>1. EditorOK(w', page')
  BY DEF PageInv, EditorOK
<1> QED
  BY <1>1 DEF PageInv, EditIsShown

LEMMA ArmingKeepsEditor ==
    ASSUME NEW x \in WriterType, NEW p \in PageType, EditorOK(x, p),
           NEW y, y.sequence = x.sequence + 1, y.editId = x.editId, y.edited = x.edited
    PROVE  EditorOK(y, p)
<1>1. x.sequence \in Nat /\ x.editId \in Nat /\ p.editId \in Nat
  BY DEF WriterType, PageType
<1> QED
  BY <1>1 DEF EditorOK

\* Arming a write records what the page shows of the editor it edits.
LEMMA PageArms ==
    ASSUME PageInv, ArmRead \/ ArmWrite
    PROVE  EditorOK(w', page') /\ EditIsShown'
<1>1. /\ w \in WriterType /\ page \in PageType /\ hist \in HistType /\ ArmTime \in Nat
      /\ EditorOK(w, page)
  BY CardWriterAssumption DEF PageInv, CardInv, CardTypeOK
<1>2. /\ tick(w) \in WriterType /\ tick(w).edited = w.edited /\ tick(w).editId = w.editId
      /\ tick(w).sequence = w.sequence
  BY <1>1, Ticking
<1>3. ASSUME NEW current \in States, NEW owner \in {"Read", "Write"}
      PROVE  LET y == Arm(tick(w), current, owner)
             IN  /\ y \in WriterType /\ y.current = current /\ y.owner = owner
                 /\ y.edited = w.edited /\ y.editId = w.editId /\ y.sequence = w.sequence + 1
  <2> DEFINE y == Arm(tick(w), current, owner)
             n == tick(w).sequence + 1
  <2>1. n \in Nat /\ n = w.sequence + 1
    BY <1>2 DEF WriterType
  <2>2. y = [tick(w) EXCEPT !.current = current, !.owner = owner, !.left = ArmTime,
                            !.sequence = n]
    BY DEF Arm
  <2> HIDE DEF y, n
  <2>3. /\ y.current = current /\ y.owner = owner /\ y.sequence = n
        /\ y.edited = w.edited /\ y.editId = w.editId /\ y \in WriterType
    BY <1>1, <1>2, <1>3, <2>1, <2>2 DEF WriterType
  <2> QED
    BY <2>1, <2>3 DEF y
<1>4. CASE ArmRead
  <2>1. "armed-read" \in States /\ "armed-read" \notin Operating
    BY DEF States, Armed, Operating
  <2>2. /\ w' \in WriterType /\ w'.current = "armed-read" /\ w'.edited = w.edited
        /\ w'.editId = w.editId /\ w'.sequence = w.sequence + 1
    BY <1>3, <1>4, <2>1 DEF ArmRead
  <2>3. EditorOK(w', page) /\ EditorOK(w', Shown(page, w'))
    BY <1>1, <2>2, ArmingKeepsEditor, ShowingIsOK
  <2>4. EditorOK(w', [Shown(page, w') EXCEPT !.acceptRead = TRUE])
    BY <1>1, <2>2, <2>3, Showing DEF EditorOK, PageType
  <2>5. page' = page \/ page' = [Shown(page, w') EXCEPT !.acceptRead = TRUE]
    BY <1>4 DEF ArmRead
  <2>6. EditIsShown'
    BY <2>1, <2>2 DEF EditIsShown, Writing
  <2> QED
    BY <2>3, <2>4, <2>5, <2>6
<1>5. CASE ArmWrite
  <2> DEFINE x == Arm(tick(w), "armed-write", "Write")
             editing == page.editId # 0
  <2>1. "armed-write" \in States
    BY DEF States, Armed
  <2>2. /\ x \in WriterType /\ x.current = "armed-write" /\ x.edited = w.edited
        /\ x.editId = w.editId /\ x.sequence = w.sequence + 1
    BY <1>3, <2>1
  <2>3. /\ \E d : w' = [x EXCEPT !.editing = editing, !.intended = d]
        /\ \E d : hist' = [hist EXCEPT !.shown = IF editing THEN page.doc ELSE {},
                                       !.outdated = editing /\ ~page.fresh, !.asked = d]
    BY <1>5, ZenonT(30) DEF ArmWrite
  <2>4. PICK d : w' = [x EXCEPT !.editing = editing, !.intended = d]
    BY <2>3
  <2>5. PICK e : hist' = [hist EXCEPT !.shown = IF editing THEN page.doc ELSE {},
                                      !.outdated = editing /\ ~page.fresh, !.asked = e]
    BY <2>3
  <2>6. editing => w.edited # {} /\ page.editId = w.editId
    BY <1>5 DEF ArmWrite
  <2> HIDE DEF x
  <2>7. /\ w'.current = "armed-write" /\ w'.edited = w.edited /\ w'.editId = w.editId
        /\ w'.sequence = w.sequence + 1 /\ w'.editing = editing
    BY <2>2, <2>4 DEF WriterType
  <2>8. /\ hist'.shown = IF editing THEN page.doc ELSE {}
        /\ hist'.outdated = (editing /\ ~page.fresh)
    BY <1>1, <2>5 DEF HistType
  <2>9. w' \in WriterType
    BY <1>5, ArmWriteStep DEF PageInv, CardInv, CardTypeOK
  <2>10. EditorOK(w', page) /\ EditorOK(w', Shown(page, w'))
    BY <1>1, <2>7, <2>9, ArmingKeepsEditor, ShowingIsOK
  <2>11. EditIsShown'
    <3>1. CASE editing /\ page.fresh
      BY <1>1, <2>6, <2>7, <2>8, <3>1 DEF EditorOK, EditIsShown
    <3>2. CASE ~(editing /\ page.fresh)
      BY <2>7, <2>8, <3>2 DEF EditIsShown
    <3> QED
      BY <3>1, <3>2
  <2>12. page' = page \/ page' = Shown(page, w')
    BY <1>5 DEF ArmWrite
  <2> QED
    BY <2>10, <2>11, <2>12
<1> QED
  BY <1>4, <1>5

\* What the loop does with the operation under way.
LEMMA PageIsLeft ==
    ASSUME PageInv, CardInv', PollNfc \/ WriterStep \/ Tick \/ Elapse
    PROVE  EditorOK(w', page') /\ EditIsShown'
<1>1. /\ w \in WriterType /\ page' = page /\ hist \in HistType /\ w' \in WriterType
      /\ tick(w) \in WriterType /\ board \in BoardType /\ page \in PageType
  BY Ticking DEF PageInv, CardInv, CardTypeOK, PollNfc, WriterStep, Tick, Elapse
<1>2. hist'.shown = hist.shown /\ hist'.outdated = hist.outdated
  BY <1>1 DEF PollNfc, WriterStep, Release_, Detect, Read, StorePage, Verify, Tick, Elapse, HistType
<1> DEFINE Stays == /\ w'.sequence = w.sequence /\ w'.editId = w.editId /\ w'.edited = w.edited
                    /\ w'.owner \in {w.owner, "Playback"}
                    /\ Writing(w') => Writing(w) /\ w'.editing = w.editing
<1>3. ASSUME Stays
      PROVE  EditorOK(w', page') /\ EditIsShown'
  BY <1>1, <1>2, <1>3, EditorStays
<1>4. ASSUME NEW how \in Ended, w' = Ended_(w, how)
      PROVE  Stays
  <2>1. w' = [w EXCEPT !.current = how, !.owner = "Playback"] /\ how \in States
    BY <1>4 DEF Ended_, States
  <2>2. /\ w'.sequence = w.sequence /\ w'.editId = w.editId /\ w'.edited = w.edited
        /\ w'.owner = "Playback" /\ w'.current = how
    BY <1>1, <2>1 DEF WriterType
  <2>3. how # "armed-write"
    BY DEF Ended
  <2> QED
    BY <2>2, <2>3 DEF Writing
<1>5. ASSUME w' = tick(w)
      PROVE  Stays
  BY <1>4, <1>5 DEF tick, Ended
<1>6. ASSUME tick(w).current \in Operating, w' = fail(tick(w))
      PROVE  Stays
  BY <1>1, <1>4, <1>6, UnderWay DEF Ended
<1>7. ASSUME w.current \in Operating, NEW current \in Operating,
             w' = [w EXCEPT !.current = current]
      PROVE  Stays
  <2>1. /\ w'.sequence = w.sequence /\ w'.editId = w.editId /\ w'.edited = w.edited
        /\ w'.owner = w.owner /\ w'.current = current /\ w'.editing = w.editing
    BY <1>1, <1>7 DEF WriterType
  <2>2. current # "armed-write"
    BY DEF Operating
  <2> QED
    BY <1>7, <2>1, <2>2 DEF Writing
<1>8. CASE Tick
  BY <1>3, <1>5, <1>8 DEF Tick
<1>9. CASE Elapse
  BY <1>1, <1>3, <1>9 DEF Elapse, WriterType, Writing
<1>10. CASE PollNfc
  <2>1. CASE w' = tick(w)
    BY <1>3, <1>5, <2>1
  <2>2. CASE w' # tick(w)
    <3>1. Owned(w) /\ w' = Detected(w)
      BY <1>10, <2>2 DEF PollNfc
    <3>2. w.current \in Armed /\ tick(w) = w
      BY <1>1, <3>1, Ticking DEF Owned, Armed
    <3>3. w' = [w EXCEPT !.current = "card-detected", !.left = OpTime]
      BY <3>1, <3>2 DEF Detected
    <3>4. /\ w'.sequence = w.sequence /\ w'.editId = w.editId /\ w'.edited = w.edited
          /\ w'.owner = w.owner /\ w'.editing = w.editing /\ w'.current = "card-detected"
      BY <1>1, <3>3 DEF WriterType
    <3>5. Writing(w') => Writing(w)
      BY <3>2, <3>4 DEF Writing, Armed, PageInv, CardInv, OwnersOK
    <3> QED
      BY <1>3, <3>4, <3>5
  <2> QED
    BY <2>1, <2>2
<1>11. CASE WriterStep
  <2>1. Release_ \/ Detect \/ Read \/ StorePage \/ Verify
    BY <1>11 DEF WriterStep
  <2>2. CASE Release_
    BY <1>3, <1>5, <2>2 DEF Release_
  <2>3. CASE Detect
    <3>1. tick(w).current \in Operating /\ tick(w) = w /\ w.current \in Operating
      BY <1>1, <2>3, UnderWay DEF Detect, Operating
    <3>2. \/ w' = fail(tick(w)) \/ w' = [w EXCEPT !.current = "reading"]
          \/ w' = [w EXCEPT !.current = "writing"]
      BY <2>3, <3>1 DEF Detect
    <3>3. "reading" \in Operating /\ "writing" \in Operating
      BY DEF Operating
    <3> QED
      BY <1>3, <1>6, <1>7, <3>1, <3>2, <3>3
  <2>4. CASE StorePage
    <3>1. tick(w).current \in Operating /\ tick(w) = w /\ w.current = "writing"
      BY <1>1, <2>4, UnderWay DEF StorePage, Operating
    <3>2. \/ w' = fail(tick(w)) \/ w' = [w EXCEPT !.current = "verifying"]
          \/ w' = [w EXCEPT !.current = "writing"]
      BY <2>4, <3>1 DEF StorePage
    <3>3. "verifying" \in Operating /\ "writing" \in Operating /\ w.current \in Operating
      BY <3>1 DEF Operating
    <3> QED
      BY <1>3, <1>6, <1>7, <3>1, <3>2, <3>3
  <2>5. CASE Verify
    <3>1. tick(w).current \in Operating /\ tick(w) = w
      BY <1>1, <2>5, UnderWay DEF Verify, Operating
    <3>2. CASE w' = fail(tick(w))
      BY <1>3, <1>6, <3>1, <3>2
    <3>3. CASE w' = DropsEdit(Ended_(w, "success"))
      <4>1. /\ w'.current = "success" /\ w'.owner = "Playback" /\ w'.editId = 0
            /\ w'.sequence = w.sequence /\ w'.sequence \in Nat
        BY <1>1, <3>3 DEF DropsEdit, Ended_, WriterType, States, Ended
      <4>2. EditorOK(w', page')
        BY <1>1, <4>1 DEF EditorOK, PageInv
      <4> QED
        BY <4>1, <4>2 DEF EditIsShown, Writing, Operating
    <3> QED
      BY <2>5, <3>2, <3>3 DEF Verify
  <2>6. CASE Read
    <3>1. tick(w).current \in Operating /\ tick(w) = w /\ w.owner = "Read"
      BY <1>1, <2>6, UnderWay DEF Read, Operating, PageInv, CardInv, OwnersOK
    <3>2. CASE w' = fail(tick(w))
      BY <1>3, <1>6, <3>1, <3>2
    <3>3. CASE w' = [Ended_(w, "success") EXCEPT !.edited = {cards[TheCard]},
                                                 !.editUid = board.picc, !.editId = w.sequence]
      <4>1. /\ w'.current = "success" /\ w'.owner = "Playback" /\ w'.editId = w.sequence
            /\ w'.sequence = w.sequence /\ w'.sequence \in Nat
        BY <1>1, <3>3 DEF Ended_, WriterType, States, Ended
      <4>2. page.fresh => page.editId # w'.editId
        BY <1>1, <3>1, <4>1 DEF PageInv, EditorOK, PageType, WriterType
      <4>3. EditorOK(w', page')
        BY <1>1, <3>1, <4>1, <4>2 DEF EditorOK, PageInv
      <4> QED
        BY <4>1, <4>3 DEF EditIsShown, Writing, Operating
    <3> QED
      BY <2>6, <3>2, <3>3 DEF Read
  <2> QED
    BY <2>1, <2>2, <2>3, <2>4, <2>5, <2>6
<1> QED
  BY <1>8, <1>9, <1>10, <1>11

\* What people and the page do.
LEMMA PageIsShown ==
    ASSUME PageInv,
           PagePoll \/ NewCard \/ Cancel \/ Put \/ TakeAway \/ Press \/ LetGo \/ Restart
    PROVE  EditorOK(w', page') /\ EditIsShown'
<1>1. w \in WriterType /\ page \in PageType /\ hist \in HistType /\ EditorOK(w, page)
  BY DEF PageInv, CardInv, CardTypeOK
<1>2. CASE PagePoll \/ NewCard
  <2>1. UNCHANGED <<w, hist>>
    BY <1>2 DEF PagePoll, NewCard
  <2>2. ASSUME PagePoll PROVE EditorOK(w', page')
    BY <1>1, <2>1, <2>2, ShowingIsOK DEF PagePoll
  <2>3. ASSUME NewCard PROVE EditorOK(w', page')
    <3>1. page'.editId = 0 /\ page'.fresh = page.fresh /\ w.sequence \in Nat /\ page.editId \in Nat
      BY <1>1, <2>3 DEF NewCard, PageType, WriterType
    <3> QED
      BY <1>1, <2>1, <3>1 DEF EditorOK
  <2>4. EditIsShown'
    BY <2>1 DEF PageInv, EditIsShown, Writing
  <2> QED
    BY <1>2, <2>1, <2>2, <2>3, <2>4
<1>3. CASE Cancel
  <2>1. w' = [w EXCEPT !.current = "idle", !.owner = "Playback"] /\ UNCHANGED hist
    BY <1>3 DEF Cancel, Ended_
  <2>2. /\ w' \in WriterType /\ w'.current = "idle" /\ w'.owner = "Playback"
        /\ w'.sequence = w.sequence /\ w'.editId = w.editId /\ w'.edited = w.edited
    BY <1>1, <2>1 DEF WriterType, States, Ended
  <2>3. EditorOK(w', page)
    BY <1>1, <2>2 DEF EditorOK
  <2>4. EditorOK(w', page')
    BY <1>1, <1>3, <2>2, <2>3, ShowingIsOK DEF Cancel
  <2> QED
    BY <2>2, <2>4 DEF EditIsShown, Writing, Operating
<1>4. CASE Put \/ TakeAway \/ Press \/ LetGo
  <2>1. UNCHANGED <<w, page>> /\ hist'.shown = hist.shown /\ hist'.outdated = hist.outdated
    BY <1>1, <1>4 DEF Put, TakeAway, Press, LetGo, HistType
  <2> QED
    BY <1>1, <2>1, EditorStays
<1>5. CASE Restart
  <2>1. ~page'.fresh /\ w' = CardWriterInit
    BY <1>1, <1>5 DEF Restart, PageType
  <2> QED
    BY <2>1 DEF EditorOK, EditIsShown, Writing, CardWriterInit, Operating
<1> QED
  BY <1>2, <1>3, <1>4, <1>5

LEMMA PageBegins == WriterInit => PageInv
<1> SUFFICES ASSUME WriterInit PROVE PageInv
  OBVIOUS
<1>1. PICK b \in BOOLEAN : page = PageInit(b)
  BY DEF WriterInit
<1>2. ~page.fresh /\ w = CardWriterInit
  BY <1>1 DEF PageInit, WriterInit, DeviceInit
<1> QED
  BY <1>2, WriterBegins DEF PageInv, EditorOK, EditIsShown, Writing, CardWriterInit, Operating

LEMMA PageInvKept ==
    ASSUME PageInv, [WriterNext]_writerVars
    PROVE  PageInv'
<1>1. CardInv'
  BY CardsKept DEF PageInv
<1>2. CASE UNCHANGED writerVars
  BY <1>1, <1>2 DEF PageInv, EditorOK, EditIsShown, Writing, writerVars
<1>3. CASE WriterNext
  <2>1. EditorOK(w', page') /\ EditIsShown'
    BY <1>1, <1>3, PageArms, PageIsLeft, PageIsShown DEF WriterNext
  <2> QED
    BY <1>1, <2>1 DEF PageInv, EditorOK
<1> QED
  BY <1>2, <1>3

\* Only a page of a write changes a card, and what it destroys was read from it, and shown by the
\* page, unless the page's editor was of before the device started.
LEMMA OnlyShownIsLost ==
    ASSUME PageInv, [WriterNext]_writerVars, NEW u \in Uids,
           cards'[u] # cards[u], cards[u] # Blank
    PROVE  /\ [uid |-> u, doc |-> cards[u]] \in hist.read
           /\ cards[u] \in hist.shown \/ hist.outdated
<1>1. StorePage /\ cards' # cards
  BY DEF WriterNext, ArmRead, ArmWrite, Arming, PagePoll, NewCard, Cancel, PollNfc, WriterStep,
         Release_, Detect, Read, Verify, Tick, Elapse, Put, TakeAway, Press, LetGo, Restart,
         writerVars
<1>2. /\ tick(w).current = "writing" /\ cards' = [cards EXCEPT ![TheCard] = Stored(board.page)]
      /\ w \in WriterType
  BY <1>1 DEF StorePage, PageInv, CardInv, CardTypeOK
<1>3. w.current = "writing"
  BY <1>2, UnderWay DEF Operating
<1>4. u = TheCard
  BY <1>2 DEF PageInv, CardInv, CardTypeOK
<1>5. checkEdit(board.picc, cards[u])
  BY <1>3, <1>4 DEF PageInv, CardInv, CheckedOrBlank
<1>6. board.picc = w.editUid /\ cards[u] \in w.edited /\ w.editing
  BY <1>5 DEF checkEdit
<1>7. PICK v \in Uids, d \in Docs :
        w.editUid = {v} /\ w.edited = {d} /\ hist.read = {[uid |-> v, doc |-> d]}
  BY <1>6 DEF PageInv, CardInv, EditorWasRead
<1>8. TheCard = v
  BY <1>6, <1>7 DEF TheCard
<1>9. Writing(w)
  BY <1>3 DEF Writing, PageInv, CardInv, OwnersOK, Operating
<1>10. hist.outdated \/ w.edited = hist.shown
  BY <1>6, <1>9 DEF PageInv, EditIsShown
<1> QED
  BY <1>4, <1>6, <1>7, <1>8, <1>10

\* No text is overwritten that the device had not read from that card, or that the page did not
\* show when the write was asked for, unless the page's editor was of before the last start; and
\* a write that is reported as done left what was asked for, however the card, the page and the
\* deadline come in between.
THEOREM WritesAreAsAsked == WriterSpec => WritesAsAsked
<1>1. ASSUME PageInv, [WriterNext]_writerVars
      PROVE  [\A u \in Uids : cards'[u] # cards[u] /\ cards[u] # Blank =>
                /\ [uid |-> u, doc |-> cards[u]] \in hist.read
                /\ cards[u] \in hist.shown \/ hist.outdated]_writerVars
  BY <1>1, OnlyShownIsLost
<1>2. ASSUME CardInv, [WriterNext]_writerVars
      PROVE  [w.current = "verifying" /\ w'.current = "success"
                => cards'[TheCard] \in hist.asked]_writerVars
  <2> SUFFICES ASSUME w.current = "verifying", w'.current = "success"
               PROVE  cards'[TheCard] \in hist.asked
    OBVIOUS
  <2>1. w \in WriterType /\ w.intended = hist.asked
    BY <1>2 DEF CardInv, CardTypeOK, AskedIsIntended, OwnersOK, Operating
  <2>2. /\ tick(w) = w \/ tick(w).current = "timed-out"
        /\ tick(w) \in WriterType
    BY <2>1, Ticking
  <2>3. Verify
    <3>1. w' # w /\ w' # tick(w)
      BY <2>2
    <3>2. ~ArmRead
      <4>1. "armed-read" \in States
        BY DEF States, Armed
      <4> QED
        BY <2>2, <4>1, ArmingIt DEF ArmRead
    <3>3. ~ArmWrite
      <4> SUFFICES ASSUME ArmWrite PROVE FALSE
        OBVIOUS
      <4> DEFINE x == Arm(tick(w), "armed-write", "Write")
      <4>1. "armed-write" \in States
        BY DEF States, Armed
      <4>2. x \in WriterType /\ x.current = "armed-write"
        BY <2>2, <4>1, ArmingIt
      <4>3. \E a, b : w' = [x EXCEPT !.editing = a, !.intended = b]
        <5> DEFINE editing == page.editId # 0
                   asked(url) == {authorCard(url, IF editing THEN w.edited ELSE {})}
        <5>1. \E url \in Urls : w' = [x EXCEPT !.editing = editing, !.intended = asked(url)]
          BY DEF ArmWrite
        <5> HIDE DEF x, editing, asked
        <5> QED
          BY <5>1
      <4> HIDE DEF x
      <4> QED
        BY <4>2, <4>3 DEF WriterType
    <3>4. ~Cancel /\ ~Elapse /\ ~Restart
      <4>1. ~Cancel
        BY <2>1, Ending DEF Cancel, Ended
      <4>2. ~Elapse
        BY <2>1 DEF Elapse, WriterType
      <4>3. ~Restart
        BY DEF Restart, CardWriterInit
      <4> QED
        BY <4>1, <4>2, <4>3
    <3>5. ~PollNfc
      BY <2>2, <3>1 DEF PollNfc, Owned, Armed
    <3>6. ~Release_ /\ ~Detect /\ ~Read /\ ~StorePage
      BY <2>2, <3>1 DEF Release_, Detect, Read, StorePage
    <3> QED
      BY <1>2, <3>1, <3>2, <3>3, <3>4, <3>5, <3>6
      DEF WriterNext, PagePoll, NewCard, WriterStep, Tick, Put, TakeAway, Press, LetGo, writerVars
  <2>4. fail(tick(w)).current = "failed"
    <3>1. tick(w).current \in Operating /\ "failed" \in Ended
      BY <2>3 DEF Verify, Operating, Ended
    <3>2. fail(tick(w)) = Ended_(w, "failed")
      BY <2>1, <3>1, UnderWay
    <3> QED
      BY <2>1, <3>1, <3>2, Ending
  <2>5. cards[TheCard] \in w.intended /\ cards' = cards
    BY <2>3, <2>4 DEF Verify
  <2> QED
    BY <2>1, <2>5
<1>3. PageInv => CardInv
  BY DEF PageInv
<1> QED
  BY <1>1, <1>2, <1>3, PageBegins, PageInvKept, PTL
  DEF WriterSpec, WritesAsAsked, OverwritesOnlyWhatWasShown, DoneIsAsAsked

------------------------------------------------------------------------------
(* WriterServer: types and the invariant *)

Answer == [to : Clients, id : SUBSET Ids]
ConnType == [who : SUBSET Clients, fed : Nat, out : SUBSET Answer, sent : Nat, age : Nat]
PeerStates == {"new", "queued", "open", "left", "answered", "closed"}
PeerType == [state : PeerStates, sent : Nat, got : SUBSET Answer]
Draft == [id : Ids, of : Clients, expires : Nat]

ServerTypeOK ==
    /\ conn \in ConnType /\ (conn.who = {} \/ \E c \in Clients : conn.who = {c})
    /\ peers \in [Clients -> PeerType]
    /\ drafts \in Seq(Draft) /\ now \in Nat
    /\ served \in [done : Seq(Clients), made : Seq(Draft)]

\* The client that is connected waits for its answer or has left, and what is to be sent is for it.
OpenIsServed ==
    \A c \in conn.who : peers[c].state \in {"open", "left"} /\ \A a \in conn.out : a.to = c

\* A client whose request was carried out neither comes again nor has it carried out twice.
DoneOnce ==
    /\ \A n \in DOMAIN served.done :
          /\ peers[served.done[n]].state \notin {"new", "queued"}
          /\ served.done[n] \in conn.who => conn.out # {}
    /\ \A n, m \in DOMAIN served.done : served.done[n] = served.done[m] => n = m

GotOwn == \A c \in Clients : \A a \in peers[c].got : a.to = c

\* The drafts of a list are the last that were made; those before them have expired by a time or
\* had to give way.
Recent(ds, made, time) ==
    LET gone == Len(made) - Len(ds)
    IN  /\ Len(ds) <= Len(made) /\ Len(ds) <= maxDrafts
        /\ \A i \in 1 .. Len(ds) : ds[i] = made[gone + i]
        /\ \A n \in 1 .. gone : time >= made[n].expires \/ Len(made) - n >= maxDrafts
        /\ \A i, j \in 1 .. Len(ds) : ds[i].id = ds[j].id => i = j
\* They expire in the order in which they were made.
Ordered(made, time) ==
    /\ \A i \in 1 .. Len(made) : made[i].expires <= time + DraftTime
    /\ \A i, j \in 1 .. Len(made) : i < j => made[i].expires <= made[j].expires
TheLastMade == Recent(drafts, served.made, now)
InTheirOrder == Ordered(served.made, now)

ServerInv ==
    ServerTypeOK /\ OpenIsServed /\ DoneOnce /\ GotOwn /\ TheLastMade /\ InTheirOrder

\* A set of numbers from 1 on without a gap reaches as far as it has members.
LEMMA WithoutAGap ==
    ASSUME NEW n \in Nat, NEW K \in SUBSET (1 .. n),
           \A k \in K : \A i \in 1 .. k : i \in K
    PROVE  Cardinality(K) \in 0 .. n /\ K = 1 .. Cardinality(K)
<1> DEFINE m == Cardinality(K)
<1>1. IsFiniteSet(1 .. n) /\ Cardinality(1 .. n) = n
  BY FS_Interval
<1>2. IsFiniteSet(K) /\ m <= n /\ m \in Nat
  <2>1. IsFiniteSet(K) /\ m <= Cardinality(1 .. n)
    BY <1>1, FS_Subset
  <2>2. m \in Nat
    BY <2>1, FS_CardinalityType
  <2> QED
    BY <1>1, <2>1, <2>2
<1>3. ASSUME NEW k \in K PROVE k <= m
  <2>1. k \in Nat /\ k >= 1
    BY <1>3
  <2>2. 1 .. k \in SUBSET K
    BY <1>3
  <2>3. Cardinality(1 .. k) = k
    BY <2>1, FS_Interval
  <2> QED
    BY <1>2, <2>2, <2>3, FS_Subset
<1>4. K \in SUBSET (1 .. m)
  BY <1>2, <1>3
<1>5. IsFiniteSet(1 .. m) /\ Cardinality(1 .. m) = m
  BY <1>2, FS_Interval
<1>6. 1 .. m = K
  BY <1>4, <1>5, FS_Subset
<1> QED
  BY <1>2, <1>6

\* Lazy expiry takes the expired drafts and no others.
LEMMA Expiring ==
    ASSUME ServerInv
    PROVE  LET n == Cardinality(Expired(drafts))
               ds == Unexpired(drafts)
           IN  /\ n \in 0 .. Len(drafts) /\ Len(drafts) \in Nat
               /\ \A i \in 1 .. n : now >= drafts[i].expires
               /\ ds \in Seq(Draft) /\ Len(ds) = Len(drafts) - n
               /\ \A i \in 1 .. Len(ds) : ds[i] = drafts[n + i]
<1> DEFINE K == Expired(drafts)
           n == Cardinality(K)
<1>1. /\ drafts \in Seq(Draft) /\ Len(drafts) \in Nat /\ DOMAIN drafts = 1 .. Len(drafts)
      /\ served.made \in Seq(Draft) /\ Len(served.made) \in Nat /\ now \in Nat
      /\ Len(drafts) <= Len(served.made)
  BY LenProperties DEF ServerInv, ServerTypeOK, TheLastMade, Recent
<1>2. ASSUME NEW j \in 1 .. Len(drafts), NEW i \in 1 .. j
      PROVE  drafts[i].expires <= drafts[j].expires
  <2> DEFINE gone == Len(served.made) - Len(drafts)
  <2>1. /\ gone \in Nat /\ gone + i \in 1 .. Len(served.made) /\ gone + j \in 1 .. Len(served.made)
    BY <1>1, <1>2
  <2>2. drafts[i] = served.made[gone + i] /\ drafts[j] = served.made[gone + j]
    BY <1>1, <1>2 DEF ServerInv, TheLastMade, Recent
  <2> HIDE DEF gone
  <2>3. served.made[gone + i] \in Draft
    BY <1>1, <2>1, ElementOfSeq
  <2>4. served.made[gone + i].expires \in Nat
    BY <2>3 DEF Draft
  <2>5. CASE i = j
    BY <2>2, <2>4, <2>5
  <2>6. CASE i # j
    BY <1>2, <2>1, <2>2, <2>6 DEF ServerInv, InTheirOrder, Ordered
  <2> QED
    BY <2>5, <2>6
<1>3. ASSUME NEW i \in 1 .. Len(drafts)
      PROVE  drafts[i].expires \in Nat
  <2>1. drafts[i] \in Draft
    BY <1>1, <1>3, ElementOfSeq
  <2> QED
    BY <2>1 DEF Draft
<1>4. K \in SUBSET (1 .. Len(drafts)) /\ \A k \in K : \A i \in 1 .. k : i \in K
  <2>1. K \in SUBSET (1 .. Len(drafts))
    BY <1>1 DEF Expired
  <2>2. ASSUME NEW k \in K, NEW i \in 1 .. k
        PROVE  i \in K
    <3>1. k \in 1 .. Len(drafts) /\ now >= drafts[k].expires
      BY <1>1, <2>2 DEF Expired
    <3>2. i \in 1 .. Len(drafts) /\ drafts[i].expires <= drafts[k].expires
      BY <1>1, <1>2, <2>2, <3>1
    <3>3. now >= drafts[i].expires
      BY <1>1, <1>3, <3>1, <3>2
    <3> QED
      BY <1>1, <3>2, <3>3 DEF Expired
  <2> QED
    BY <2>1, <2>2
<1>5. n \in 0 .. Len(drafts) /\ K = 1 .. n
  BY <1>1, <1>4, WithoutAGap
<1>6. \A i \in 1 .. n : now >= drafts[i].expires
  BY <1>5 DEF Expired
<1>7. Unexpired(drafts) = SubSeq(drafts, n + 1, Len(drafts))
  BY DEF Unexpired
<1> HIDE DEF n, K
<1>8. /\ Unexpired(drafts) \in Seq(Draft) /\ Len(Unexpired(drafts)) = Len(drafts) - n
      /\ \A i \in 1 .. Len(Unexpired(drafts)) : Unexpired(drafts)[i] = drafts[n + i]
  <2>1. n + 1 \in Int /\ Len(drafts) \in Int /\ n \in 0 .. Len(drafts)
    BY <1>1, <1>5
  <2>2. \A i \in n + 1 .. Len(drafts) : drafts[i] \in Draft
    BY <1>1, <2>1, ElementOfSeq
  <2>3. /\ Unexpired(drafts) \in Seq(Draft)
        /\ Len(Unexpired(drafts)) = IF n + 1 <= Len(drafts) THEN Len(drafts) - (n + 1) + 1 ELSE 0
        /\ \A i \in 1 .. Len(drafts) - (n + 1) + 1 : Unexpired(drafts)[i] = drafts[n + 1 + i - 1]
    BY <1>7, <2>1, <2>2, SubSeqProperties
  <2>4. Len(Unexpired(drafts)) = Len(drafts) - n
    BY <2>1, <2>3
  <2>5. ASSUME NEW i \in 1 .. Len(Unexpired(drafts))
        PROVE  Unexpired(drafts)[i] = drafts[n + i]
    <3>1. i \in 1 .. Len(drafts) - (n + 1) + 1 /\ n + 1 + i - 1 = n + i
      BY <2>1, <2>4
    <3> QED
      BY <2>3, <3>1
  <2> QED
    BY <2>3, <2>4, <2>5
<1> QED
  BY <1>1, <1>5, <1>6, <1>8 DEF n, K

LEMMA DraftFields ==
    ASSUME NEW ds \in Seq(Draft), NEW i \in 1 .. Len(ds)
    PROVE  ds[i] \in Draft /\ ds[i].id \in Ids /\ ds[i].expires \in Nat
<1>1. ds[i] \in Draft
  BY ElementOfSeq
<1> QED
  BY <1>1 DEF Draft

\* What is left after the expired drafts are dropped is still the last that were made.
LEMMA StillRecent ==
    ASSUME ServerInv
    PROVE  Unexpired(drafts) \in Seq(Draft) /\ Recent(Unexpired(drafts), served.made, now)
<1> DEFINE n == Cardinality(Expired(drafts))
           ds == Unexpired(drafts)
           made == served.made
           gone == Len(made) - Len(drafts)
<1>1. /\ n \in 0 .. Len(drafts) /\ Len(drafts) \in Nat
      /\ \A i \in 1 .. n : now >= drafts[i].expires
      /\ ds \in Seq(Draft) /\ Len(ds) = Len(drafts) - n
      /\ \A i \in 1 .. Len(ds) : ds[i] = drafts[n + i]
  BY Expiring
<1>2. Len(made) \in Nat /\ maxDrafts \in Nat /\ Recent(drafts, made, now)
  BY ServerAssumption, LenProperties DEF ServerInv, ServerTypeOK, TheLastMade
<1> HIDE DEF n, ds, made
<1>3. gone \in Nat /\ Len(made) - Len(ds) = gone + n
  BY <1>1, <1>2 DEF Recent
<1>4. Len(ds) <= Len(made) /\ Len(ds) <= maxDrafts
  BY <1>1, <1>2 DEF Recent
<1>5. ASSUME NEW i \in 1 .. Len(ds)
      PROVE  ds[i] = made[gone + n + i]
  <2>1. n + i \in 1 .. Len(drafts) /\ gone + n + i = gone + (n + i)
    BY <1>1, <1>3
  <2> QED
    BY <1>1, <1>2, <2>1 DEF Recent
<1>6. ASSUME NEW k \in 1 .. gone + n
      PROVE  now >= made[k].expires \/ Len(made) - k >= maxDrafts
  <2>1. CASE k <= gone
    BY <1>2, <1>3, <2>1 DEF Recent
  <2>2. CASE k > gone
    <3>1. k - gone \in 1 .. n /\ gone + (k - gone) = k /\ k - gone \in 1 .. Len(drafts)
      BY <1>1, <1>3, <2>2
    <3>2. drafts[k - gone] = made[k]
      BY <1>2, <3>1 DEF Recent
    <3> QED
      BY <1>1, <3>1, <3>2
  <2> QED
    BY <1>1, <1>3, <2>1, <2>2
<1>7. ASSUME NEW i \in 1 .. Len(ds), NEW j \in 1 .. Len(ds), ds[i].id = ds[j].id
      PROVE  i = j
  <2>1. n + i \in 1 .. Len(drafts) /\ n + j \in 1 .. Len(drafts)
    BY <1>1
  <2>2. n + i = n + j
    BY <1>1, <1>2, <1>7, <2>1 DEF Recent
  <2> QED
    BY <1>1, <2>2
<1> HIDE DEF gone
<1>8. Recent(ds, made, now)
  BY <1>3, <1>4, <1>5, <1>6, <1>7 DEF Recent
<1> QED
  BY <1>1, <1>8 DEF ds, made

\* Distinct numbers fill as much as the list has drafts.
LEMMA NumbersOf ==
    ASSUME NEW ds \in Seq(Draft), \A i, j \in 1 .. Len(ds) : ds[i].id = ds[j].id => i = j
    PROVE  LET T == {d.id : d \in ToSet(ds)}
           IN  IsFiniteSet(T) /\ Cardinality(T) = Len(ds)
               /\ \A x : x \in T <=> \E i \in 1 .. Len(ds) : ds[i].id = x
<1> DEFINE T == {d.id : d \in ToSet(ds)}
           f == [i \in 1 .. Len(ds) |-> ds[i].id]
<1>1. Len(ds) \in Nat /\ DOMAIN ds = 1 .. Len(ds)
  BY LenProperties
<1>2. \A x : x \in T <=> \E i \in 1 .. Len(ds) : ds[i].id = x
  BY <1>1 DEF ToSet
<1> HIDE DEF T
<1>3. f \in Surjection(1 .. Len(ds), T)
  BY <1>2 DEF Surjection
<1>4. f \in Injection(1 .. Len(ds), T)
  <2>1. f \in [1 .. Len(ds) -> T]
    BY <1>3 DEF Surjection
  <2>2. \A i, j \in 1 .. Len(ds) : f[i] = f[j] => i = j
    OBVIOUS
  <2>3. DOMAIN f = 1 .. Len(ds)
    OBVIOUS
  <2> HIDE DEF f
  <2> QED
    BY <2>1, <2>2, <2>3 DEF Injection, IsInjective
<1>5. IsFiniteSet(1 .. Len(ds)) /\ Cardinality(1 .. Len(ds)) = Len(ds)
  <2>1. 1 \in Int /\ Len(ds) \in Int /\ (1 > Len(ds) => Len(ds) = 0)
    BY <1>1
  <2> QED
    BY <1>1, <2>1, FS_Interval
<1>6. IsFiniteSet(T) /\ Cardinality(T) = Len(ds)
  BY <1>3, <1>4, <1>5, FS_Surjection
<1> QED
  BY <1>2, <1>6 DEF T

\* There is a number that no draft of a list has.
LEMMA AFreshNumber ==
    ASSUME NEW ds \in Seq(Draft), Len(ds) <= maxDrafts,
           \A i, j \in 1 .. Len(ds) : ds[i].id = ds[j].id => i = j
    PROVE  Fresh(ds) \in Ids /\ \A i \in 1 .. Len(ds) : ds[i].id # Fresh(ds)
<1> DEFINE T == {d.id : d \in ToSet(ds)}
<1>1. /\ IsFiniteSet(T) /\ Cardinality(T) = Len(ds)
      /\ \A x : x \in T <=> \E i \in 1 .. Len(ds) : ds[i].id = x
  BY NumbersOf
<1>2. \E id \in Ids : id \notin T
  <2> SUFFICES ASSUME Ids \subseteq T PROVE FALSE
    OBVIOUS
  <2>1. Cardinality(Ids) <= Cardinality(T)
    BY <1>1, FS_Subset
  <2>2. Cardinality(Ids) \in Nat /\ Len(ds) \in Nat /\ maxDrafts \in Nat /\ Cardinality(Ids) > maxDrafts
    BY ServerAssumption, FS_CardinalityType, LenProperties
  <2> QED
    BY <1>1, <2>1, <2>2
<1> HIDE DEF T
<1>3. Fresh(ds) \in Ids /\ Fresh(ds) \notin T
  BY <1>2 DEF Fresh, T
<1> QED
  BY <1>1, <1>3

\* A new draft comes after the others, the oldest of which gives way if the list is full.
LEMMA Drafting ==
    ASSUME NEW ds \in Seq(Draft), NEW made \in Seq(Draft), NEW time \in Nat, NEW d \in Draft,
           Recent(ds, made, time), Ordered(made, time),
           d.expires = time + DraftTime, \A i \in 1 .. Len(ds) : ds[i].id # d.id
    PROVE  /\ Append(Room(ds), d) \in Seq(Draft) /\ Append(made, d) \in Seq(Draft)
           /\ Recent(Append(Room(ds), d), Append(made, d), time)
           /\ Ordered(Append(made, d), time)
<1> DEFINE r == Room(ds)
           k == IF Len(ds) = maxDrafts THEN 1 ELSE 0
           s == Append(r, d)
           m == Append(made, d)
<1>1. Len(ds) \in Nat /\ Len(made) \in Nat /\ maxDrafts \in Nat \ {0} /\ DraftTime \in Nat
  BY LenProperties, ServerAssumption
<1>2. /\ r \in Seq(Draft) /\ Len(r) = Len(ds) - k /\ \A i \in 1 .. Len(r) : r[i] = ds[k + i]
      /\ k \in 0 .. 1 /\ Len(r) < maxDrafts /\ Len(r) \in Nat
  <2>1. CASE Len(ds) = maxDrafts
    <3>1. ds # <<>>
      BY <1>1, <2>1
    <3>2. r = Tail(ds) /\ k = 1
      BY <2>1 DEF Room
    <3>3. Tail(ds) \in Seq(Draft) /\ Len(Tail(ds)) = Len(ds) - 1 /\ \A i \in 1 .. Len(Tail(ds)) : Tail(ds)[i] = ds[i + 1]
      BY <3>1, HeadTailProperties
    <3> HIDE DEF r, k
    <3>4. \A i \in 1 .. Len(r) : r[i] = ds[k + i]
      BY <1>1, <3>2, <3>3
    <3> QED
      BY <1>1, <2>1, <3>2, <3>3, <3>4
  <2>2. CASE Len(ds) # maxDrafts
    <3>1. r = ds /\ k = 0
      BY <2>2 DEF Room
    <3>2. Len(ds) < maxDrafts
      BY <1>1, <2>2 DEF Recent
    <3> HIDE DEF r, k
    <3> QED
      BY <1>1, <3>1, <3>2
  <2> QED
    BY <2>1, <2>2
<1> HIDE DEF r
<1>3. /\ s \in Seq(Draft) /\ Len(s) = Len(r) + 1 /\ \A i \in 1 .. Len(r) : s[i] = r[i]
      /\ s[Len(r) + 1] = d
  BY <1>2, AppendProperties
<1>4. /\ m \in Seq(Draft) /\ Len(m) = Len(made) + 1 /\ \A i \in 1 .. Len(made) : m[i] = made[i]
      /\ m[Len(made) + 1] = d
  BY <1>1, AppendProperties
<1> DEFINE gone == Len(made) - Len(ds)
<1> HIDE DEF s, m
<1>5. /\ gone \in Nat /\ Len(m) - Len(s) = gone + k /\ Len(s) <= Len(m) /\ Len(s) <= maxDrafts
      /\ gone + k + Len(s) = Len(m)
  <2>1. Len(ds) <= Len(made)
    BY DEF Recent
  <2> HIDE DEF k
  <2>2. k \in 0 .. 1 /\ Len(r) = Len(ds) - k /\ Len(r) < maxDrafts /\ Len(r) \in Nat
    BY <1>2
  <2>3. Len(s) = Len(r) + 1 /\ Len(m) = Len(made) + 1
    BY <1>3, <1>4
  <2> QED
    BY <1>1, <2>1, <2>2, <2>3
<1>6. ASSUME NEW i \in 1 .. Len(s)
      PROVE  s[i] = m[gone + k + i]
  <2>1. CASE i = Len(s)
    <3>1. i = Len(r) + 1 /\ gone + k + i = Len(made) + 1
      BY <1>1, <1>2, <1>3, <1>4, <1>5, <2>1
    <3> QED
      BY <1>3, <1>4, <3>1
  <2>2. CASE i # Len(s)
    <3>1. /\ i \in 1 .. Len(r) /\ k + i \in 1 .. Len(ds) /\ gone + (k + i) = gone + k + i
          /\ gone + k + i \in 1 .. Len(made)
      <4>1. gone + Len(ds) = Len(made) /\ Len(ds) \in Nat /\ Len(made) \in Nat
        BY <1>1
      <4> HIDE DEF k, gone
      <4>2. /\ k \in 0 .. 1 /\ gone \in Nat /\ Len(r) \in Nat
            /\ Len(r) = Len(ds) - k /\ Len(s) = Len(r) + 1
        BY <1>2, <1>3, <1>5
      <4>3. i \in 1 .. Len(r)
        BY <1>6, <2>2, <4>2
      <4>4. k + i \in 1 .. Len(ds)
        BY <4>1, <4>2, <4>3
      <4> QED
        BY <4>1, <4>2, <4>3, <4>4
    <3>2. s[i] = ds[k + i] /\ ds[k + i] = made[gone + (k + i)]
      BY <1>2, <1>3, <3>1 DEF Recent
    <3> QED
      BY <1>4, <3>1, <3>2
  <2> QED
    BY <2>1, <2>2
<1>7. ASSUME NEW n \in 1 .. gone + k
      PROVE  time >= m[n].expires \/ Len(m) - n >= maxDrafts
  <2>1. n \in 1 .. Len(made)
    BY <1>1, <1>2, <1>5, <1>3, <1>4
  <2>2. m[n] = made[n]
    BY <1>4, <2>1
  <2>3. CASE n <= gone
    <3>1. time >= made[n].expires \/ Len(made) - n >= maxDrafts
      BY <1>5, <2>3 DEF Recent
    <3>2. Len(made) - n >= maxDrafts => Len(m) - n >= maxDrafts
      BY <1>1, <1>4, <2>1
    <3> QED
      BY <2>2, <3>1, <3>2
  <2>4. CASE n > gone
    <3>1. k = 1 /\ n = gone + 1 /\ gone \in Nat
      <4> HIDE DEF k, gone
      <4> QED
        BY <1>2, <1>5, <2>4
    <3>2. Len(ds) = maxDrafts
      BY <3>1
    <3> QED
      BY <1>1, <1>4, <3>1, <3>2
  <2> QED
    BY <1>1, <1>5, <2>1, <2>3, <2>4
<1>8. ASSUME NEW i \in 1 .. Len(s), NEW j \in 1 .. Len(s), s[i].id = s[j].id
      PROVE  i = j
  <2>1. \A h \in 1 .. Len(r) : s[h].id # d.id /\ s[h] = ds[k + h] /\ k + h \in 1 .. Len(ds)
    <3> HIDE DEF k
    <3>1. \A h \in 1 .. Len(r) : k + h \in 1 .. Len(ds) /\ s[h] = ds[k + h]
      <4> TAKE h \in 1 .. Len(r)
      <4>1. k \in 0 .. 1 /\ Len(r) = Len(ds) - k /\ Len(r) \in Nat
        BY <1>2
      <4>2. k + h \in 1 .. Len(ds)
        BY <1>1, <4>1
      <4> QED
        BY <1>2, <1>3, <4>2
    <3> QED
      BY <3>1
  <2>2. \A h \in 1 .. Len(s) : h \in 1 .. Len(r) \/ h = Len(r) + 1
    BY <1>2, <1>3
  <2>3. CASE i \in 1 .. Len(r) /\ j \in 1 .. Len(r)
    <3> HIDE DEF k
    <3>1. /\ ds[k + i].id = ds[k + j].id
          /\ k + i \in 1 .. Len(ds) /\ k + j \in 1 .. Len(ds)
      BY <1>8, <2>1, <2>3
    <3>2. \A x, y \in 1 .. Len(ds) : ds[x].id = ds[y].id => x = y
      BY DEF Recent
    <3>3. k + i = k + j
      BY <3>1, <3>2
    <3>4. k \in 0 .. 1
      BY <1>2
    <3> QED
      BY <2>3, <3>3, <3>4
  <2> QED
    BY <1>3, <1>8, <2>1, <2>2, <2>3
<1> HIDE DEF gone, k
<1>9. Recent(s, m, time)
  BY <1>5, <1>6, <1>7, <1>8 DEF Recent
<1>10. Ordered(m, time)
  <2>1. \A i \in 1 .. Len(m) : i \in 1 .. Len(made) \/ i = Len(made) + 1
    BY <1>1, <1>4
  <2>2. d.expires <= time + DraftTime /\ d.expires \in Nat
    BY <1>1
  <2>3. \A i \in 1 .. Len(made) : m[i].expires <= time + DraftTime /\ m[i].expires <= d.expires
    BY <1>4 DEF Ordered
  <2>4. ASSUME NEW i \in 1 .. Len(m), NEW j \in 1 .. Len(m), i < j
        PROVE  m[i].expires <= m[j].expires
    <3>1. CASE j = Len(made) + 1
      <4>1. i \in 1 .. Len(made)
        BY <1>1, <2>1, <2>4, <3>1
      <4> QED
        BY <1>4, <2>3, <3>1, <4>1
    <3>2. CASE j \in 1 .. Len(made)
      <4>1. i \in 1 .. Len(made)
        BY <1>1, <2>1, <2>4, <3>2
      <4> QED
        BY <1>4, <2>4, <3>2, <4>1 DEF Ordered
    <3> QED
      BY <2>1, <3>1, <3>2
  <2> QED
    BY <1>4, <2>1, <2>2, <2>3, <2>4 DEF Ordered
<1> QED
  BY <1>3, <1>4, <1>9, <1>10 DEF s, m, r

------------------------------------------------------------------------------
(* WriterServer: every step keeps the invariant *)

LEMMA ServerBegins == ServerInit => ServerInv
<1> SUFFICES ASSUME ServerInit PROVE ServerInv
  OBVIOUS
<1>1. /\ drafts = <<>> /\ served.done = <<>> /\ served.made = <<>> /\ now = 0
      /\ Len(drafts) = 0 /\ Len(served.made) = 0 /\ Len(served.done) = 0
      /\ maxDrafts \in Nat
  BY EmptySeq, ServerAssumption DEF ServerInit
<1>2. conn \in ConnType /\ conn.who = {} /\ served \in [done : Seq(Clients), made : Seq(Draft)]
  <2>1. conn \in ConnType /\ conn.who = {}
    BY DEF ServerInit, Nobody, ConnType
  <2>2. <<>> \in Seq(Clients) /\ <<>> \in Seq(Draft)
    BY EmptySeq
  <2> QED
    BY <2>1, <2>2 DEF ServerInit
<1>3. peers \in [Clients -> PeerType] /\ \A c \in Clients : peers[c].got = {}
  BY DEF ServerInit, PeerType, PeerStates
<1>4. ServerTypeOK
  BY <1>1, <1>2, <1>3, EmptySeq DEF ServerTypeOK
<1>5. OpenIsServed /\ GotOwn
  BY <1>2, <1>3 DEF OpenIsServed, GotOwn
<1>6. DoneOnce
  <2>1. DOMAIN served.done = {}
    BY <1>1
  <2> QED
    BY <2>1 DEF DoneOnce
<1>7. TheLastMade /\ InTheirOrder
  <2>1. 1 .. 0 = {} /\ 0 - 0 = 0
    OBVIOUS
  <2>2. TheLastMade
    BY <1>1, <2>1 DEF TheLastMade, Recent
  <2>3. InTheirOrder
    BY <1>1, <2>1 DEF InTheirOrder, Ordered
  <2> QED
    BY <2>2, <2>3
<1> QED
  BY <1>4, <1>5, <1>6, <1>7 DEF ServerInv

LEMMA PeerFields ==
    ASSUME ServerInv, NEW c \in Clients
    PROVE  /\ peers \in [Clients -> PeerType] /\ peers[c] \in PeerType
           /\ peers[c].state \in PeerStates /\ peers[c].sent \in Nat
           /\ peers[c].got \in SUBSET Answer
<1>1. peers \in [Clients -> PeerType]
  BY DEF ServerInv, ServerTypeOK
<1>2. peers[c] \in PeerType
  BY <1>1
<1> QED
  BY <1>1, <1>2 DEF PeerType

\* The one who is connected.
LEMMA Connected ==
    ASSUME ServerInv, conn.who # {}
    PROVE  /\ Who \in Clients /\ conn.who = {Who} /\ peers[Who].state \in {"open", "left"}
           /\ \A a \in conn.out : a.to = Who
           /\ \A n \in DOMAIN served.done : served.done[n] = Who => conn.out # {}
<1>1. PICK c \in Clients : conn.who = {c}
  BY DEF ServerInv, ServerTypeOK
<1>2. Who = c
  BY <1>1 DEF Who
<1> QED
  BY <1>1, <1>2 DEF ServerInv, OpenIsServed, DoneOnce

LEMMA ConnFields ==
    ASSUME ServerInv
    PROVE  /\ conn \in ConnType /\ conn.who \in SUBSET Clients /\ conn.fed \in Nat
           /\ conn.out \in SUBSET Answer /\ conn.sent \in Nat /\ conn.age \in Nat
BY DEF ServerInv, ServerTypeOK, ConnType

\* Time ages the drafts and changes nothing else about them.
LEMMA DraftsGrowOld ==
    ASSUME ServerInv, UNCHANGED <<drafts, served>>, now' \in Nat, now' >= now
    PROVE  TheLastMade' /\ InTheirOrder'
<1> DEFINE made == served.made
<1>1. /\ drafts \in Seq(Draft) /\ Len(drafts) \in Nat /\ made \in Seq(Draft) /\ Len(made) \in Nat
      /\ now \in Nat /\ Recent(drafts, made, now) /\ Ordered(made, now) /\ DraftTime \in Nat
  BY LenProperties, ServerAssumption DEF ServerInv, ServerTypeOK, TheLastMade, InTheirOrder
<1> HIDE DEF made
<1>2. \A n \in 1 .. Len(made) : made[n].expires \in Nat
  BY <1>1, DraftFields
<1>3. Recent(drafts, made, now')
  <2>1. ASSUME NEW n \in 1 .. Len(made) - Len(drafts)
        PROVE  now' >= made[n].expires \/ Len(made) - n >= maxDrafts
    <3>1. n \in 1 .. Len(made) /\ made[n].expires \in Nat
      BY <1>1, <1>2
    <3>2. now >= made[n].expires \/ Len(made) - n >= maxDrafts
      BY <1>1 DEF Recent
    <3> QED
      BY <1>1, <3>1, <3>2
  <2> QED
    BY <1>1, <2>1 DEF Recent
<1>4. Ordered(made, now')
  <2>1. ASSUME NEW i \in 1 .. Len(made) PROVE made[i].expires <= now' + DraftTime
    <3>1. made[i].expires \in Nat /\ made[i].expires <= now + DraftTime
      BY <1>1, <1>2 DEF Ordered
    <3> QED
      BY <1>1, <3>1
  <2> QED
    BY <1>1, <2>1 DEF Ordered
<1> QED
  BY <1>3, <1>4 DEF TheLastMade, InTheirOrder, made

\* A step that touches the connection and the clients alone.
LEMMA WithoutDrafts ==
    ASSUME ServerInv, UNCHANGED <<drafts, served>>, now' \in Nat, now' >= now,
           conn' \in ConnType, conn'.who = {} \/ \E c \in Clients : conn'.who = {c},
           peers' \in [Clients -> PeerType], OpenIsServed', DoneOnce', GotOwn'
    PROVE  ServerInv'
BY DraftsGrowOld DEF ServerInv, ServerTypeOK

\* A connection that ends: its client's state changes, and no other client comes nearer.
LEMMA ConnectionEnds ==
    ASSUME ServerInv, UNCHANGED <<drafts, served, now>>,
           conn' \in ConnType, conn'.who = {}, peers' \in [Clients -> PeerType],
           \A c \in Clients : /\ peers'[c].state \in {"new", "queued"} => peers[c].state \in {"new", "queued"}
                              /\ \A a \in peers'[c].got : a.to = c
    PROVE  ServerInv'
<1>1. now \in Nat /\ served.done \in Seq(Clients) /\ DOMAIN served.done = 1 .. Len(served.done)
  BY LenProperties DEF ServerInv, ServerTypeOK
<1>2. OpenIsServed' /\ GotOwn'
  BY DEF OpenIsServed, GotOwn
<1>3. DoneOnce'
  <2>1. \A n \in DOMAIN served.done : served.done[n] \in Clients
    BY <1>1, ElementOfSeq
  <2> QED
    BY <2>1 DEF DoneOnce, ServerInv
<1> QED
  BY <1>1, <1>2, <1>3, WithoutDrafts

LEMMA StopKeeps == ServerInv /\ Stop => ServerInv'
<1> SUFFICES ASSUME ServerInv, Stop PROVE ServerInv'
  OBVIOUS
<1>1. UNCHANGED <<drafts, served, now>> /\ conn' \in ConnType /\ conn'.who = {}
  BY ConnFields DEF Stop, ConnType
<1>2. ASSUME NEW c \in Clients
      PROVE  /\ peers'[c] \in PeerType
             /\ peers'[c].state \in {"new", "queued"} => peers[c].state \in {"new", "queued"}
             /\ \A a \in peers'[c].got : a.to = c
  <2> DEFINE v == IF peers[c].state \in {"open", "queued"} THEN "closed" ELSE peers[c].state
  <2>1. v \in PeerStates /\ (v \in {"new", "queued"} => peers[c].state \in {"new", "queued"})
    BY PeerFields DEF PeerStates
  <2>2. peers'[c] = [peers[c] EXCEPT !.state = v]
    BY DEF Stop
  <2> HIDE DEF v
  <2>3. peers'[c] \in PeerType /\ peers'[c].state = v /\ peers'[c].got = peers[c].got
    BY <2>1, <2>2, PeerFields DEF PeerType
  <2> QED
    BY <2>1, <2>3 DEF ServerInv, GotOwn
<1>3. peers' \in [Clients -> PeerType]
  <2>1. peers' = [c \in Clients |-> peers'[c]]
    BY DEF Stop
  <2> QED
    BY <1>2, <2>1
<1> QED
  BY <1>1, <1>2, <1>3, ConnectionEnds

LEMMA GiveUpKeeps == ServerInv /\ GiveUp => ServerInv'
<1> SUFFICES ASSUME ServerInv, GiveUp PROVE ServerInv'
  OBVIOUS
<1>1. UNCHANGED <<drafts, served, now>> /\ conn' \in ConnType /\ conn'.who = {}
  BY ConnFields DEF GiveUp, Hangup, Closed, ConnType
<1>2. ASSUME NEW c \in Clients
      PROVE  /\ peers'[c] \in PeerType
             /\ peers'[c].state \in {"new", "queued"} => peers[c].state \in {"new", "queued"}
             /\ \A a \in peers'[c].got : a.to = c
  <2> DEFINE v == IF c \in conn.who /\ peers[c].state = "open" THEN "closed" ELSE peers[c].state
  <2>1. v \in PeerStates /\ (v \in {"new", "queued"} => peers[c].state \in {"new", "queued"})
    BY PeerFields DEF PeerStates
  <2>2. peers'[c] = [peers[c] EXCEPT !.state = v]
    BY DEF GiveUp, Hangup
  <2> HIDE DEF v
  <2>3. peers'[c] \in PeerType /\ peers'[c].state = v /\ peers'[c].got = peers[c].got
    BY <2>1, <2>2, PeerFields DEF PeerType
  <2> QED
    BY <2>1, <2>3 DEF ServerInv, GotOwn
<1>3. peers' \in [Clients -> PeerType]
  <2>1. peers' = [c \in Clients |-> peers'[c]]
    BY DEF GiveUp, Hangup
  <2> QED
    BY <1>2, <2>1
<1> QED
  BY <1>1, <1>2, <1>3, ConnectionEnds

\* An answer that is complete has reached the client it is for.
LEMMA SendKeeps == ServerInv /\ Send => ServerInv'
<1> SUFFICES ASSUME ServerInv, Send PROVE ServerInv'
  OBVIOUS
<1>1. UNCHANGED <<drafts, served, now>> /\ conn.who # {}
  BY DEF Send, Serving
<1>2. /\ Who \in Clients /\ conn.who = {Who} /\ peers[Who].state \in {"open", "left"}
      /\ \A a \in conn.out : a.to = Who
  BY <1>1, Connected
<1>3. /\ conn \in ConnType /\ conn.out \in SUBSET Answer /\ conn.sent \in Nat
      /\ peers \in [Clients -> PeerType] /\ peers[Who] \in PeerType
  BY <1>2, ConnFields, PeerFields
<1>4. CASE conn' = [conn EXCEPT !.sent = @ + 1] /\ UNCHANGED peers
  <2>1. conn' \in ConnType /\ conn'.who = conn.who /\ conn'.out = conn.out
    BY <1>3, <1>4 DEF ConnType
  <2>2. OpenIsServed' /\ DoneOnce' /\ GotOwn'
    BY <1>1, <1>4, <2>1 DEF ServerInv, OpenIsServed, DoneOnce, GotOwn
  <2>3. now \in Nat /\ now' >= now
    BY <1>1 DEF ServerInv, ServerTypeOK
  <2> QED
    BY <1>1, <1>2, <1>3, <1>4, <2>1, <2>2, <2>3, WithoutDrafts
<1>5. CASE /\ conn' = [conn EXCEPT !.who = {}, !.out = {}]
           /\ \E p \in PeerType : /\ peers' = [peers EXCEPT ![Who] = p]
                                  /\ p.state \in {"answered", "closed", "left"}
                                  /\ p.got \in {conn.out, peers[Who].got}
  <2>1. conn' \in ConnType /\ conn'.who = {}
    BY <1>3, <1>5 DEF ConnType
  <2>2. PICK p \in PeerType : /\ peers' = [peers EXCEPT ![Who] = p]
                              /\ p.state \in {"answered", "closed", "left"}
                              /\ p.got \in {conn.out, peers[Who].got}
    BY <1>5
  <2>3. peers' \in [Clients -> PeerType]
    BY <1>2, <1>3, <2>2
  <2>4. ASSUME NEW c \in Clients
        PROVE  /\ peers'[c].state \in {"new", "queued"} => peers[c].state \in {"new", "queued"}
               /\ \A a \in peers'[c].got : a.to = c
    <3>1. CASE c = Who
      <4>1. peers'[c] = p
        BY <1>2, <1>3, <2>2, <3>1
      <4> QED
        BY <1>2, <2>2, <3>1, <4>1 DEF ServerInv, GotOwn
    <3>2. CASE c # Who
      <4>1. peers'[c] = peers[c]
        BY <1>2, <1>3, <2>2, <3>2
      <4> QED
        BY <4>1 DEF ServerInv, GotOwn
    <3> QED
      BY <3>1, <3>2
  <2> QED
    BY <1>1, <2>1, <2>3, <2>4, ConnectionEnds
<1>6. ASSUME conn' = [conn EXCEPT !.who = {}, !.out = {}],
             peers' = [peers EXCEPT ![Who].got = conn.out, ![Who].state = "answered"]
      PROVE  ServerInv'
  <2> DEFINE p == [peers[Who] EXCEPT !.got = conn.out, !.state = "answered"]
  <2>1. peers' = [peers EXCEPT ![Who] = p]
    BY <1>2, <1>3, <1>6 DEF PeerType
  <2>2. p \in PeerType /\ p.state = "answered" /\ p.got = conn.out
    BY <1>3 DEF PeerType, PeerStates
  <2> QED
    BY <1>5, <1>6, <2>1, <2>2
<1>7. ASSUME conn' = [conn EXCEPT !.who = {}, !.out = {}],
             peers' = [peers EXCEPT ![Who].state = IF @ = "open" THEN "closed" ELSE @]
      PROVE  ServerInv'
  <2> DEFINE v == IF peers[Who].state = "open" THEN "closed" ELSE peers[Who].state
             p == [peers[Who] EXCEPT !.state = v]
  <2>1. peers' = [peers EXCEPT ![Who] = p]
    BY <1>2, <1>3, <1>7 DEF PeerType
  <2>2. v \in {"closed", "left"}
    BY <1>2
  <2> HIDE DEF v
  <2>3. p \in PeerType /\ p.state = v /\ p.got = peers[Who].got
    BY <1>3, <2>2 DEF PeerType, PeerStates
  <2> QED
    BY <1>5, <1>7, <2>1, <2>2, <2>3
<1>8. ASSUME conn' = [conn EXCEPT !.who = {}, !.out = {}], peers' = peers, peers[Who].state # "open"
      PROVE  ServerInv'
  <2>1. peers' = [peers EXCEPT ![Who] = peers[Who]]
    BY <1>3, <1>8
  <2> QED
    BY <1>2, <1>3, <1>5, <1>8, <2>1
<1> QED
  BY <1>4, <1>6, <1>7, <1>8 DEF Send

LEMMA AcceptKeeps == ServerInv /\ Accept => ServerInv'
<1> SUFFICES ASSUME ServerInv, Accept PROVE ServerInv'
  OBVIOUS
<1>1. PICK c \in Clients : peers[c].state = "queued" /\ conn' = Accepted(c) /\ Peer(c, "open")
  BY DEF Accept, Queued
<1>2. UNCHANGED <<drafts, served, now>> /\ now \in Nat /\ now' >= now
  BY DEF Accept, ServerInv, ServerTypeOK
<1>3. conn' \in ConnType /\ conn'.who = {c} /\ conn'.out = {}
  BY <1>1 DEF Accepted, Nobody, ConnType
<1>4. peers \in [Clients -> PeerType] /\ peers[c] \in PeerType
  BY PeerFields
<1> DEFINE p == [peers[c] EXCEPT !.state = "open"]
<1>5. peers' = [peers EXCEPT ![c] = p] /\ p \in PeerType /\ p.state = "open" /\ p.got = peers[c].got
  <2>1. peers' = [peers EXCEPT ![c] = p]
    BY <1>1, <1>4 DEF Peer
  <2>2. p \in PeerType /\ p.state = "open" /\ p.got = peers[c].got
    BY <1>4 DEF PeerType, PeerStates
  <2> QED
    BY <2>1, <2>2
<1> HIDE DEF p
<1>6. /\ peers' \in [Clients -> PeerType] /\ peers'[c] = p
      /\ \A e \in Clients : e # c => peers'[e] = peers[e]
  BY <1>4, <1>5
<1>7. \A e \in Clients : peers'[e].got = peers[e].got
  BY <1>5, <1>6
<1>8. OpenIsServed' /\ GotOwn'
  BY <1>3, <1>5, <1>6, <1>7 DEF ServerInv, OpenIsServed, GotOwn
<1>9. DoneOnce'
  <2>1. ASSUME NEW n \in DOMAIN served.done
        PROVE  served.done[n] \in Clients /\ served.done[n] # c
    <3>1. served.done \in Seq(Clients) /\ DOMAIN served.done = 1 .. Len(served.done)
      BY LenProperties DEF ServerInv, ServerTypeOK
    <3> QED
      BY <1>1, <3>1, <2>1, ElementOfSeq DEF ServerInv, DoneOnce
  <2> QED
    BY <1>2, <1>3, <1>6, <2>1 DEF ServerInv, DoneOnce
<1> QED
  BY <1>2, <1>3, <1>6, <1>8, <1>9, WithoutDrafts

LEMMA ForgetKeeps == ServerInv /\ Forget => ServerInv'
<1> SUFFICES ASSUME ServerInv, Forget PROVE ServerInv'
  OBVIOUS
<1>1. UNCHANGED <<drafts, served, now, peers>> /\ conn' \in ConnType /\ conn'.who = {}
  BY ConnFields DEF Forget, Closed, ConnType
<1> QED
  BY <1>1, PeerFields, ConnectionEnds DEF ServerInv, ServerTypeOK, GotOwn

LEMMA FeedKeeps == ServerInv /\ Feed => ServerInv'
<1> SUFFICES ASSUME ServerInv, Feed PROVE ServerInv'
  OBVIOUS
<1>1. /\ UNCHANGED <<drafts, served, peers, now>> /\ now \in Nat /\ now' >= now
      /\ peers' \in [Clients -> PeerType]
  BY DEF Feed, ServerInv, ServerTypeOK
<1>2. conn' = [conn EXCEPT !.fed = @ + 1] /\ conn \in ConnType /\ conn.fed \in Nat
  BY ConnFields DEF Feed
<1>3. conn' \in ConnType /\ conn'.who = conn.who /\ conn'.out = conn.out
  BY <1>2 DEF ConnType
<1>4. OpenIsServed' /\ DoneOnce' /\ GotOwn'
  BY <1>1, <1>3 DEF ServerInv, OpenIsServed, DoneOnce, GotOwn
<1>5. conn'.who = {} \/ \E c \in Clients : conn'.who = {c}
  BY <1>3 DEF ServerInv, ServerTypeOK
<1> QED
  BY <1>1, <1>3, <1>4, <1>5, WithoutDrafts

LEMMA PassKeeps == ServerInv /\ Pass => ServerInv'
<1> SUFFICES ASSUME ServerInv, Pass PROVE ServerInv'
  OBVIOUS
<1>1. /\ UNCHANGED <<drafts, served, peers>> /\ now' \in Nat /\ now' >= now
      /\ peers' \in [Clients -> PeerType]
  BY DEF Pass, ServerInv, ServerTypeOK
<1>2. conn' \in {conn, [conn EXCEPT !.age = @ + 1]} /\ conn \in ConnType /\ conn.age \in Nat
  BY ConnFields DEF Pass
<1>3. conn' \in ConnType /\ conn'.who = conn.who /\ conn'.out = conn.out
  BY <1>2 DEF ConnType
<1>4. OpenIsServed' /\ DoneOnce' /\ GotOwn'
  BY <1>1, <1>3 DEF ServerInv, OpenIsServed, DoneOnce, GotOwn
<1>5. conn'.who = {} \/ \E c \in Clients : conn'.who = {c}
  BY <1>3 DEF ServerInv, ServerTypeOK
<1> QED
  BY <1>1, <1>3, <1>4, <1>5, WithoutDrafts

LEMMA ClientKeeps == ServerInv /\ ClientStep => ServerInv'
<1> SUFFICES ASSUME ServerInv, ClientStep PROVE ServerInv'
  OBVIOUS
<1>1. UNCHANGED <<conn, drafts, served, now>> /\ now \in Nat /\ now' >= now
  BY DEF ClientStep, ServerInv, ServerTypeOK
<1>2. PICK c \in Clients, p \in PeerType :
        /\ peers' = [peers EXCEPT ![c] = p] /\ p.got = peers[c].got
        /\ \/ p.state = "queued" /\ peers[c].state = "new"
           \/ p.state = "left" /\ peers[c].state = "open"
           \/ p.state = peers[c].state
  <2>1. ASSUME NEW c \in Clients, NEW state \in {"queued", "left"}, Peer(c, state)
        PROVE  \E p \in PeerType : /\ peers' = [peers EXCEPT ![c] = p] /\ p.got = peers[c].got
                                   /\ p.state = state
    <3> DEFINE p == [peers[c] EXCEPT !.state = state]
    <3>1. peers' = [peers EXCEPT ![c] = p]
      BY <2>1, PeerFields DEF Peer
    <3>2. p \in PeerType /\ p.state = state /\ p.got = peers[c].got
      BY PeerFields DEF PeerType, PeerStates
    <3> QED
      BY <3>1, <3>2
  <2>2. ASSUME NEW c \in Clients, peers' = [peers EXCEPT ![c].sent = @ + 1]
        PROVE  \E p \in PeerType : /\ peers' = [peers EXCEPT ![c] = p] /\ p.got = peers[c].got
                                   /\ p.state = peers[c].state
    <3> DEFINE n == peers[c].sent + 1
               p == [peers[c] EXCEPT !.sent = n]
    <3>1. peers' = [peers EXCEPT ![c] = p]
      BY <2>2, PeerFields
    <3>2. n \in Nat
      BY PeerFields
    <3> HIDE DEF n
    <3>3. p \in PeerType /\ p.state = peers[c].state /\ p.got = peers[c].got
      BY <3>2, PeerFields DEF PeerType
    <3> QED
      BY <3>1, <3>3
  <2>3. CASE Connect
    BY <2>1, <2>3 DEF Connect
  <2>4. CASE Write
    BY <2>2, <2>4 DEF Write
  <2>5. CASE Leave
    BY <2>1, <2>5 DEF Leave
  <2> QED
    BY <2>3, <2>4, <2>5 DEF ClientStep
<1>3. peers \in [Clients -> PeerType] /\ conn \in ConnType
  BY PeerFields, ConnFields
<1>4. /\ peers' \in [Clients -> PeerType] /\ peers'[c] = p
      /\ \A e \in Clients : e # c => peers'[e] = peers[e]
  BY <1>2, <1>3
<1>5. \A e \in Clients : peers'[e].got = peers[e].got
  BY <1>2, <1>4
<1>6. \A e \in Clients : /\ peers[e].state \in {"open", "left"} => peers'[e].state \in {"open", "left"}
                         /\ peers[e].state \notin {"new", "queued"} => peers'[e].state \notin {"new", "queued"}
  BY <1>2, <1>4
<1>7. OpenIsServed' /\ GotOwn'
  BY <1>1, <1>5, <1>6, ConnFields DEF ServerInv, OpenIsServed, GotOwn
<1>8. DoneOnce'
  <2>1. ASSUME NEW n \in DOMAIN served.done PROVE served.done[n] \in Clients
    <3>1. served.done \in Seq(Clients) /\ DOMAIN served.done = 1 .. Len(served.done)
      BY LenProperties DEF ServerInv, ServerTypeOK
    <3> QED
      BY <2>1, <3>1, ElementOfSeq
  <2> QED
    BY <1>1, <1>6, <2>1 DEF ServerInv, DoneOnce
<1>9. conn'.who = {} \/ \E e \in Clients : conn'.who = {e}
  BY <1>1 DEF ServerInv, ServerTypeOK
<1> QED
  BY <1>1, <1>3, <1>4, <1>7, <1>8, <1>9, WithoutDrafts

\* Carrying a request out: the connection and what was done.
LEMMA CarriedOut ==
    ASSUME ServerInv, Carry
    PROVE  /\ UNCHANGED <<peers, now>> /\ conn' \in ConnType /\ conn'.who = conn.who /\ Who \in Clients
           /\ served'.done \in Seq(Clients) /\ OpenIsServed' /\ GotOwn' /\ DoneOnce'
<1>1. UNCHANGED <<peers, now>> /\ conn.who # {} /\ conn.out = {}
  BY DEF Carry, Serving
<1>2. /\ Who \in Clients /\ conn.who = {Who} /\ peers[Who].state \in {"open", "left"}
      /\ \A n \in DOMAIN served.done : served.done[n] # Who
  BY <1>1, Connected
<1>3. PICK a : /\ a \in {[to |-> Who, id |-> {}], [to |-> Who, id |-> {Fresh(Unexpired(drafts))}]}
               /\ conn' = [conn EXCEPT !.out = {a}]
  BY DEF Carry
<1>4. a \in Answer /\ a.to = Who
  <2>1. Unexpired(drafts) \in Seq(Draft) /\ Recent(Unexpired(drafts), served.made, now)
    BY StillRecent
  <2>2. Fresh(Unexpired(drafts)) \in Ids
    BY <2>1, AFreshNumber DEF Recent
  <2> QED
    BY <1>2, <1>3, <2>2 DEF Answer
<1>5. conn' \in ConnType /\ conn'.who = conn.who /\ conn'.out = {a}
  BY <1>3, <1>4, ConnFields DEF ConnType
<1>6. OpenIsServed' /\ GotOwn'
  BY <1>1, <1>2, <1>4, <1>5 DEF ServerInv, OpenIsServed, GotOwn
<1> DEFINE carried == served.done
<1>7. served'.done = Append(carried, Who) /\ carried \in Seq(Clients)
  BY DEF Carry, ServerInv, ServerTypeOK
<1>8. /\ \A n \in 1 .. Len(carried) : carried[n] # Who /\ peers[carried[n]].state \notin {"new", "queued"}
      /\ \A n, m \in 1 .. Len(carried) : carried[n] = carried[m] => n = m
  BY <1>2, <1>7, LenProperties DEF ServerInv, DoneOnce
<1> HIDE DEF carried
<1>9. /\ served'.done \in Seq(Clients) /\ Len(served'.done) = Len(carried) + 1 /\ Len(carried) \in Nat
      /\ DOMAIN served'.done = 1 .. Len(carried) + 1
      /\ \A n \in 1 .. Len(carried) : served'.done[n] = carried[n]
      /\ served'.done[Len(carried) + 1] = Who
  BY <1>2, <1>7, AppendProperties, LenProperties
<1>10. DoneOnce'
  <2>1. \A n \in DOMAIN served'.done : n \in 1 .. Len(carried) \/ n = Len(carried) + 1
    BY <1>9
  <2>2. ASSUME NEW n \in DOMAIN served'.done
        PROVE  /\ peers'[served'.done[n]].state \notin {"new", "queued"}
               /\ conn'.out # {}
    BY <1>1, <1>2, <1>5, <1>8, <1>9, <2>1
  <2>3. ASSUME NEW n \in DOMAIN served'.done, NEW m \in DOMAIN served'.done,
               served'.done[n] = served'.done[m]
        PROVE  n = m
    BY <1>8, <1>9, <2>1, <2>3
  <2> QED
    BY <2>2, <2>3 DEF DoneOnce
<1> QED
  BY <1>1, <1>2, <1>5, <1>6, <1>9, <1>10

LEMMA CarryKeeps == ServerInv /\ Carry => ServerInv'
<1> SUFFICES ASSUME ServerInv, Carry PROVE ServerInv'
  OBVIOUS
<1> DEFINE ds == Unexpired(drafts)
           made == served.made
           id == Fresh(ds)
           d == [id |-> id, of |-> Who, expires |-> now + DraftTime]
<1>1. /\ UNCHANGED <<peers, now>> /\ conn' \in ConnType /\ conn'.who = conn.who /\ Who \in Clients
      /\ served'.done \in Seq(Clients) /\ OpenIsServed' /\ GotOwn' /\ DoneOnce'
  BY CarriedOut
<1>2. ds \in Seq(Draft) /\ Recent(ds, made, now) /\ made \in Seq(Draft) /\ now \in Nat /\ Ordered(made, now)
  BY StillRecent DEF ServerInv, ServerTypeOK, InTheirOrder
<1>3. id \in Ids /\ \A i \in 1 .. Len(ds) : ds[i].id # id
  BY <1>2, AFreshNumber DEF Recent
<1>4. d \in Draft /\ d.expires = now + DraftTime /\ d.id = id
  BY <1>1, <1>2, <1>3, ServerAssumption DEF Draft
<1>5. /\ \/ drafts' = ds /\ served'.made = made
         \/ drafts' = Append(Room(ds), d) /\ served'.made = Append(made, d)
      /\ served' = [done |-> served'.done, made |-> served'.made]
  <2>1. CASE drafts' = ds /\ served' = [served EXCEPT !.done = Append(@, Who)]
    BY <2>1 DEF ServerInv, ServerTypeOK
  <2>2. CASE /\ drafts' = Append(Room(ds), d)
             /\ served' = [done |-> Append(served.done, Who), made |-> Append(served.made, d)]
    BY <2>2
  <2> QED
    BY <2>1, <2>2 DEF Carry
<1> HIDE DEF d, id, ds, made
<1>6. /\ drafts' \in Seq(Draft) /\ served'.made \in Seq(Draft)
      /\ Recent(drafts', served'.made, now) /\ Ordered(served'.made, now)
  <2>1. CASE drafts' = ds /\ served'.made = made
    BY <1>2, <2>1
  <2>2. CASE drafts' = Append(Room(ds), d) /\ served'.made = Append(made, d)
    BY <1>2, <1>3, <1>4, <2>2, Drafting
  <2> QED
    BY <1>5, <2>1, <2>2
<1>7. TheLastMade' /\ InTheirOrder'
  BY <1>1, <1>6 DEF TheLastMade, InTheirOrder
<1>8. ServerTypeOK'
  BY <1>1, <1>2, <1>5, <1>6 DEF ServerInv, ServerTypeOK
<1> QED
  BY <1>1, <1>7, <1>8 DEF ServerInv

LEMMA ServerKeeps == ServerInv /\ [ServerNext]_serverVars => ServerInv'
<1> SUFFICES ASSUME ServerInv, [ServerNext]_serverVars PROVE ServerInv'
  OBVIOUS
<1>1. CASE UNCHANGED <<conn, drafts, peers, now, served>>
  BY <1>1 DEF ServerInv, ServerTypeOK, OpenIsServed, DoneOnce, GotOwn, TheLastMade, InTheirOrder
<1>2. CASE Listen \/ Network \/ Rest \/ UNCHANGED serverVars
  BY <1>1, <1>2 DEF Listen, Network, Rest, serverVars
<1> QED
  BY <1>2, StopKeeps, GiveUpKeeps, SendKeeps, AcceptKeeps, ForgetKeeps, FeedKeeps, CarryKeeps,
     ClientKeeps, PassKeeps
  DEF ServerNext, Loop

\* What the clients were promised follows.
LEMMA PromisesAreKept == ServerInv => AnswersAreOwn
<1> SUFFICES ASSUME ServerInv PROVE AnswersAreOwn
  OBVIOUS
<1>1. ASSUME NEW c \in Clients
      PROVE  Cardinality({n \in DOMAIN served.done : served.done[n] = c}) <= 1
  <2> DEFINE S == {n \in DOMAIN served.done : served.done[n] = c}
  <2>1. \A n, m \in S : n = m
    BY DEF ServerInv, DoneOnce
  <2>2. CASE S = {}
    BY <2>2, FS_EmptySet
  <2>3. CASE S # {}
    <3>1. PICK n : S = {n}
      BY <2>1, <2>3
    <3> HIDE DEF S
    <3>2. Cardinality(S) = 1
      BY <3>1, FS_Singleton
    <3> QED
      BY <3>2 DEF S
  <2> QED
    BY <2>2, <2>3
<1>2. EachIsAnswered
  BY <1>1 DEF EachIsAnswered, ServerInv, GotOwn
<1> DEFINE made == served.made
           gone == Len(made) - Len(drafts)
<1>3. /\ drafts \in Seq(Draft) /\ Len(drafts) \in Nat /\ DOMAIN drafts = 1 .. Len(drafts)
      /\ made \in Seq(Draft) /\ Len(made) \in Nat /\ DOMAIN made = 1 .. Len(made)
      /\ maxDrafts \in Nat /\ now \in Nat /\ Recent(drafts, made, now)
  BY LenProperties, ServerAssumption DEF ServerInv, ServerTypeOK, TheLastMade
<1>4. gone \in Nat /\ gone + Len(drafts) = Len(made)
  BY <1>3 DEF Recent
<1>5. ASSUME NEW n \in DOMAIN made, now < made[n].expires, Len(made) - n < maxDrafts
      PROVE  made[n] \in ToSet(drafts)
  <2>1. n \in 1 .. Len(made) /\ made[n].expires \in Nat
    BY <1>3, <1>5, DraftFields
  <2> HIDE DEF made
  <2>2. ~(n \in 1 .. gone)
    <3> SUFFICES ASSUME n \in 1 .. gone PROVE FALSE
      OBVIOUS
    <3>1. now >= made[n].expires \/ Len(made) - n >= maxDrafts
      BY <1>3 DEF Recent
    <3> QED
      BY <1>3, <1>5, <2>1, <3>1
  <2>3. n - gone \in 1 .. Len(drafts) /\ gone + (n - gone) = n
    <3> HIDE DEF gone
    <3> QED
      BY <1>3, <1>4, <2>1, <2>2
  <2>4. drafts[n - gone] = made[n]
    BY <1>3, <2>3 DEF Recent
  <2> QED
    BY <1>3, <2>3, <2>4 DEF ToSet
<1>6. Len(drafts) <= maxDrafts /\ Cardinality({d.id : d \in ToSet(drafts)}) = Len(drafts)
  BY <1>3, NumbersOf DEF Recent
<1>7. LinksWork
  BY <1>5, <1>6 DEF LinksWork
<1> QED
  BY <1>2, <1>7 DEF AnswersAreOwn

\* Whatever the clients do and however often the network goes: each request is carried out at most
\* once, each client receives its own answer only, no two drafts share a number, and the link to a
\* draft works until it expires or as many came after it as the list holds.
THEOREM AnswersAreTheirs == ServerSpec => []AnswersAreOwn
<1>1. ServerInv /\ [ServerNext]_serverVars => ServerInv'
  BY ServerKeeps
<1> QED
  BY <1>1, ServerBegins, PromisesAreKept, PTL DEF ServerSpec

------------------------------------------------------------------------------
(* NtagPages: sequences of bytes *)

LEMMA Quarters ==
    ASSUME NEW n \in Nat
    PROVE  n \div 4 \in Nat /\ n % 4 \in 0 .. 3 /\ n = 4 * (n \div 4) + (n % 4)
<1> DEFINE q == n \div 4
           r == n % 4
<1>1. q \in Nat /\ r \in 0 .. 3
  OBVIOUS
<1>2. n - 4 * q = r
  OBVIOUS
<1> QED
  BY <1>1, <1>2

LEMMA TwoBytes ==
    ASSUME NEW n \in Nat
    PROVE  /\ n \div 256 \in Nat /\ n % 256 \in 0 .. 255 /\ (n \div 256) * 256 + (n % 256) = n
           /\ n < 256 => n % 256 = n
<1> DEFINE q == n \div 256
           r == n % 256
<1>1. q \in Nat /\ r \in 0 .. 255
  OBVIOUS
<1>2. n - 256 * q = r
  OBVIOUS
<1>3. n < 256 => r = n
  OBVIOUS
<1> QED
  BY <1>1, <1>2, <1>3

LEMMA Joining ==
    ASSUME NEW s \in Seq(Nat), NEW t \in Seq(Nat)
    PROVE  /\ s \o t \in Seq(Nat) /\ Len(s \o t) = Len(s) + Len(t)
           /\ \A i \in 1 .. Len(s) : (s \o t)[i] = s[i]
           /\ \A i \in 1 .. Len(t) : (s \o t)[Len(s) + i] = t[i]
OBVIOUS

LEMMA Repeated ==
    ASSUME NEW x \in Nat, NEW n \in Nat
    PROVE  Of(x, n) \in Seq(Nat) /\ Len(Of(x, n)) = n
BY DEF Of

\* A slice.
LEMMA Slices ==
    ASSUME NEW s \in Seq(Nat), NEW a \in Nat, NEW n \in Nat, a + n <= Len(s)
    PROVE  /\ SubSeq(s, a + 1, a + n) \in Seq(Nat) /\ Len(SubSeq(s, a + 1, a + n)) = n
           /\ \A i \in 1 .. n : SubSeq(s, a + 1, a + n)[i] = s[a + i]
<1>1. \A i \in a + 1 .. a + n : s[i] \in Nat
  BY LenProperties, ElementOfSeq
<1>2. /\ SubSeq(s, a + 1, a + n) \in Seq(Nat)
      /\ Len(SubSeq(s, a + 1, a + n)) = IF a + 1 <= a + n THEN a + n - (a + 1) + 1 ELSE 0
      /\ \A i \in 1 .. a + n - (a + 1) + 1 : SubSeq(s, a + 1, a + n)[i] = s[a + 1 + i - 1]
  <2>1. a + 1 \in Int /\ a + n \in Int
    OBVIOUS
  <2> QED
    BY <1>1, <2>1, SubSeqProperties
<1>3. ASSUME NEW i \in 1 .. n PROVE SubSeq(s, a + 1, a + n)[i] = s[a + i]
  <2>1. i \in 1 .. a + n - (a + 1) + 1 /\ a + 1 + i - 1 = a + i
    OBVIOUS
  <2> QED
    BY <1>2, <2>1
<1> QED
  BY <1>2, <1>3

LEMMA Beginning ==
    ASSUME NEW s \in Seq(Nat), NEW n \in Nat, n <= Len(s)
    PROVE  /\ SubSeq(s, 1, n) \in Seq(Nat) /\ Len(SubSeq(s, 1, n)) = n
           /\ \A i \in 1 .. n : SubSeq(s, 1, n)[i] = s[i]
<1>1. 0 \in Nat /\ 0 + n <= Len(s) /\ 0 + n = n /\ 0 + 1 = 1
  OBVIOUS
<1>2. /\ SubSeq(s, 0 + 1, 0 + n) \in Seq(Nat) /\ Len(SubSeq(s, 0 + 1, 0 + n)) = n
      /\ \A i \in 1 .. n : SubSeq(s, 0 + 1, 0 + n)[i] = s[0 + i]
  BY <1>1, Slices
<1>3. \A i \in 1 .. n : 0 + i = i
  OBVIOUS
<1> QED
  BY <1>1, <1>2, <1>3

------------------------------------------------------------------------------
(* NtagPages: what is encoded can be read back *)

\* What is on cards and may be written to them.
Good(card) == card \in [uri : BOOLEAN, size : Nat, mark : Nat] /\ (card.uri => card.size >= 8)

\* The header of a message, up to where its type and text begin.
Header(card) ==
    LET size == RecordSize(card) short == Length(card) < 256
    IN  <<3>> \o (IF size < 255 THEN <<size>> ELSE <<255, size \div 256, size % 256>>)
        \o <<IF short THEN 209 ELSE 193, 1>>
        \o (IF short THEN <<>> ELSE <<0, 0, Length(card) \div 256>>) \o <<Length(card) % 256>>

LEMMA Headers ==
    ASSUME NEW card, Good(card)
    PROVE  LET l == Length(card)
               size == RecordSize(card)
               f == Header(card)
           IN  /\ l \in Nat /\ size = l + (IF l < 256 THEN 4 ELSE 7)
               /\ f \in Seq(Nat) /\ f[1] = 3
               /\ l < 251 => Len(f) = 5 /\ f[2] = size /\ f[3] = 209 /\ f[5] = l
               /\ l >= 251 => f[2] = 255 /\ f[3] * 256 + f[4] = size
               /\ l >= 251 /\ l < 256 => Len(f) = 7 /\ f[5] = 209 /\ f[7] = l
               /\ l >= 256 => Len(f) = 10 /\ f[5] = 193 /\ f[9] * 256 + f[10] = l
<1> DEFINE l == Length(card)
           size == RecordSize(card)
           f == Header(card)
<1>1. l \in Nat /\ size = l + (IF l < 256 THEN 4 ELSE 7)
  BY DEF Good, Length, RecordSize
<1> DEFINE Reads ==
      /\ f \in Seq(Nat) /\ f[1] = 3
      /\ l < 251 => Len(f) = 5 /\ f[2] = size /\ f[3] = 209 /\ f[5] = l
      /\ l >= 251 => f[2] = 255 /\ f[3] * 256 + f[4] = size
      /\ l >= 251 /\ l < 256 => Len(f) = 7 /\ f[5] = 209 /\ f[7] = l
      /\ l >= 256 => Len(f) = 10 /\ f[5] = 193 /\ f[9] * 256 + f[10] = l
<1> DEFINE sq == size \div 256
           sr == size % 256
           lq == l \div 256
           lr == l % 256
<1>2. f = <<3>> \o (IF size < 255 THEN <<size>> ELSE <<255, sq, sr>>)
        \o <<IF l < 256 THEN 209 ELSE 193, 1>>
        \o (IF l < 256 THEN <<>> ELSE <<0, 0, lq>>) \o <<lr>>
  BY DEF Header
<1> HIDE DEF f
<1>3. size \in Nat
  BY <1>1
<1> HIDE DEF l, size
<1>4. /\ sq \in Nat /\ sr \in Nat /\ sq * 256 + sr = size
      /\ lq \in Nat /\ lr \in Nat /\ lq * 256 + lr = l /\ (l < 256 => lr = l)
  BY <1>1, <1>3, TwoBytes
<1> HIDE DEF sq, sr, lq, lr
<1> HIDE DEF Reads
<1>5. ASSUME l < 251 PROVE Reads
  <2>1. f = <<3>> \o <<size>> \o <<209, 1>> \o <<>> \o <<lr>>
    BY <1>1, <1>2, <1>5
  <2>2. /\ f \in Seq(Nat) /\ Len(f) = 5 /\ f[1] = 3 /\ f[2] = size /\ f[3] = 209 /\ f[5] = lr
    BY <1>3, <1>4, <2>1
  <2> QED
    BY <1>1, <1>4, <1>5, <2>2 DEF Reads
<1>6. ASSUME l >= 251, l < 256 PROVE Reads
  <2>1. f = <<3>> \o <<255, sq, sr>> \o <<209, 1>> \o <<>> \o <<lr>>
    BY <1>1, <1>2, <1>6
  <2>2. /\ f \in Seq(Nat) /\ Len(f) = 7 /\ f[1] = 3 /\ f[2] = 255 /\ f[3] = sq /\ f[4] = sr
        /\ f[5] = 209 /\ f[7] = lr
    BY <1>3, <1>4, <2>1
  <2> QED
    BY <1>1, <1>4, <1>6, <2>2 DEF Reads
<1>7. ASSUME l >= 256 PROVE Reads
  <2>1. f = <<3>> \o <<255, sq, sr>> \o <<193, 1>> \o <<0, 0, lq>> \o <<lr>>
    BY <1>1, <1>2, <1>7
  <2>2. /\ f \in Seq(Nat) /\ Len(f) = 10 /\ f[1] = 3 /\ f[2] = 255 /\ f[3] = sq /\ f[4] = sr
        /\ f[5] = 193 /\ f[9] = lq /\ f[10] = lr
    BY <1>3, <1>4, <2>1
  <2> QED
    BY <1>1, <1>4, <1>7, <2>2 DEF Reads
<1>8. Reads
  BY <1>1, <1>5, <1>6, <1>7
<1> QED
  BY <1>1, <1>8 DEF Reads, l, size, f

LEMMA Texts ==
    ASSUME NEW card, Good(card)
    PROVE  Written(card) \in Seq(Nat) /\ Len(Written(card)) = Length(card) + 1
<1>1. card.size \in Nat /\ card.mark \in Nat
  BY DEF Good
<1>2. CASE card.uri
  <2> DEFINE t == Of(card.mark, card.size - 8)
  <2>1. card.size - 8 \in Nat
    BY <1>1, <1>2 DEF Good
  <2>2. t \in Seq(Nat) /\ Len(t) = card.size - 8
    BY <1>1, <2>1, Repeated
  <2>3. Written(card) = <<85, 4>> \o t /\ Length(card) = card.size - 7
    BY <1>2 DEF Written, Length
  <2>4. <<85, 4>> \in Seq(Nat) /\ Len(<<85, 4>>) = 2
    OBVIOUS
  <2> HIDE DEF t
  <2> QED
    BY <1>1, <2>1, <2>2, <2>3, <2>4, Joining
<1>3. CASE ~card.uri
  <2> DEFINE t == Of(card.mark, card.size)
  <2>2. t \in Seq(Nat) /\ Len(t) = card.size
    BY <1>1, Repeated
  <2>3. Written(card) = <<84, 2, 101, 110>> \o t /\ Length(card) = card.size + 3
    BY <1>3 DEF Written, Length
  <2>4. <<84, 2, 101, 110>> \in Seq(Nat) /\ Len(<<84, 2, 101, 110>>) = 4
    OBVIOUS
  <2> HIDE DEF t
  <2> QED
    BY <1>1, <2>2, <2>3, <2>4, Joining
<1> QED
  BY <1>2, <1>3

\* A message is its header, the type and the text, and a terminator.
LEMMA Encoding ==
    ASSUME NEW card, Good(card)
    PROVE  LET b == cardNdef(card)
               h == Len(Header(card))
               n == Len(Written(card))
           IN  /\ b \in Seq(Nat) /\ h \in Nat /\ n \in Nat /\ Len(b) = h + n + 1
               /\ \A i \in 1 .. h : b[i] = Header(card)[i]
               /\ \A i \in 1 .. n : b[h + i] = Written(card)[i]
               /\ b[h + n + 1] = Terminator
<1> DEFINE f == Header(card)
           text == Written(card)
<1>1. cardNdef(card) = (f \o text) \o <<Terminator>>
  BY DEF cardNdef, Header, Written
<1>2. f \in Seq(Nat) /\ text \in Seq(Nat)
  BY Headers, Texts
<1>3. <<Terminator>> \in Seq(Nat) /\ Len(<<Terminator>>) = 1 /\ <<Terminator>>[1] = Terminator
  BY DEF Terminator
<1> HIDE DEF f, text
<1>4. /\ f \o text \in Seq(Nat) /\ Len(f \o text) = Len(f) + Len(text)
      /\ \A i \in 1 .. Len(f) : (f \o text)[i] = f[i]
      /\ \A i \in 1 .. Len(text) : (f \o text)[Len(f) + i] = text[i]
  BY <1>2, Joining
<1> DEFINE g == f \o text
<1>5. Len(f) \in Nat /\ Len(text) \in Nat
  BY <1>2, LenProperties
<1> HIDE DEF g
<1>6. /\ g \in Seq(Nat) /\ Len(g) = Len(f) + Len(text)
      /\ \A i \in 1 .. Len(f) : g[i] = f[i]
      /\ \A i \in 1 .. Len(text) : g[Len(f) + i] = text[i]
  BY <1>4 DEF g
<1>7. /\ cardNdef(card) \in Seq(Nat) /\ Len(cardNdef(card)) = Len(g) + 1
      /\ \A i \in 1 .. Len(g) : cardNdef(card)[i] = g[i]
      /\ cardNdef(card)[Len(g) + 1] = Terminator
  BY <1>1, <1>3, <1>6, Joining DEF g
<1> DEFINE b == cardNdef(card)
<1> HIDE DEF b
<1>8. /\ b \in Seq(Nat) /\ Len(b) = Len(f) + Len(text) + 1
      /\ \A i \in 1 .. Len(f) : b[i] = f[i]
      /\ \A i \in 1 .. Len(text) : b[Len(f) + i] = text[i]
      /\ b[Len(f) + Len(text) + 1] = Terminator
  <2>1. /\ b \in Seq(Nat) /\ Len(b) = Len(g) + 1
        /\ \A i \in 1 .. Len(g) : b[i] = g[i]
        /\ b[Len(g) + 1] = Terminator
    BY <1>7 DEF b
  <2>2. ASSUME NEW i \in 1 .. Len(f) PROVE b[i] = f[i]
    BY <1>5, <1>6, <2>1
  <2>3. ASSUME NEW i \in 1 .. Len(text) PROVE b[Len(f) + i] = text[i]
    <3>1. Len(f) + i \in 1 .. Len(g)
      BY <1>5, <1>6
    <3> QED
      BY <1>6, <2>1, <3>1
  <2>4. b[Len(f) + Len(text) + 1] = Terminator /\ Len(b) = Len(f) + Len(text) + 1
    BY <1>6, <2>1
  <2> QED
    BY <2>1, <2>2, <2>3, <2>4
<1> QED
  BY <1>5, <1>8 DEF f, text, b

\* Where the message of a memory begins: behind the factory's prefix or at once.
Lead(p) == IF p = 0 THEN <<>> ELSE LockControl
Starts(m, p) ==
    \/ p = 0 /\ m[1] = 3
    \/ /\ p = 5 /\ userBytes = 144
       /\ m[1] = 1 /\ m[2] = 3 /\ m[3] = 160 /\ m[4] = 12 /\ m[5] = 52
       /\ m[6] = 3

LEMMA Starting ==
    ASSUME NEW m \in Seq(Nat), userBytes \in Nat, userBytes >= 4, Len(m) = userBytes
    PROVE  /\ \A p : Starts(m, p) => PrefixOf(m) = Lead(p) /\ Len(PrefixOf(m)) = p
           /\ LET p == Len(PrefixOf(m)) IN m[p + 1] = 3 => Starts(m, p) /\ PrefixOf(m) = Lead(p)
<1>1. Len(LockControl) = 5 /\ LockControl \in Seq(Nat)
  BY DEF LockControl
<1>2. /\ LockControl[1] = 1 /\ LockControl[2] = 3 /\ LockControl[3] = 160 /\ LockControl[4] = 12
      /\ LockControl[5] = 52
  BY DEF LockControl
<1>3. ASSUME userBytes = 144
      PROVE  IsPrefix(LockControl, m) <=>
                /\ m[1] = 1 /\ m[2] = 3 /\ m[3] = 160 /\ m[4] = 12 /\ m[5] = 52
  <2> DEFINE s == SubSeq(LockControl, 1, 5)
             t == SubSeq(m, 1, 5)
  <2>1. s \in Seq(Nat) /\ Len(s) = 5 /\ \A i \in 1 .. 5 : s[i] = LockControl[i]
    <3>1. 5 \in Nat /\ 5 <= Len(LockControl) /\ LockControl \in Seq(Nat)
      BY <1>1
    <3> QED
      BY <3>1, Beginning
  <2>2. t \in Seq(Nat) /\ Len(t) = 5 /\ \A i \in 1 .. 5 : t[i] = m[i]
    <3>1. 5 <= Len(m)
      BY <1>3
    <3> QED
      BY <3>1, Beginning
  <2>3. IsPrefix(LockControl, m) <=> s = t
    BY <1>1, <1>3 DEF IsPrefix
  <2> HIDE DEF s, t
  <2>4. s = t <=> \A i \in 1 .. 5 : s[i] = t[i]
    BY <2>1, <2>2, SeqEqual
  <2>5. \A i \in 1 .. 5 : i \in {1, 2, 3, 4, 5}
    OBVIOUS
  <2>6. (\A i \in 1 .. 5 : s[i] = t[i]) <=>
           s[1] = t[1] /\ s[2] = t[2] /\ s[3] = t[3] /\ s[4] = t[4] /\ s[5] = t[5]
    <3>1. 1 \in 1 .. 5 /\ 2 \in 1 .. 5 /\ 3 \in 1 .. 5 /\ 4 \in 1 .. 5 /\ 5 \in 1 .. 5
      OBVIOUS
    <3>2. ASSUME s[1] = t[1], s[2] = t[2], s[3] = t[3], s[4] = t[4], s[5] = t[5], NEW i \in 1 .. 5
          PROVE  s[i] = t[i]
      BY <2>5, <3>2
    <3> QED
      BY <3>1, <3>2
  <2>7. s[1] = 1 /\ s[2] = 3 /\ s[3] = 160 /\ s[4] = 12 /\ s[5] = 52
    BY <1>2, <2>1
  <2>8. t[1] = m[1] /\ t[2] = m[2] /\ t[3] = m[3] /\ t[4] = m[4] /\ t[5] = m[5]
    BY <2>2
  <2> QED
    BY <2>3, <2>4, <2>6, <2>7, <2>8
<1>4. ASSUME NEW p, Starts(m, p) PROVE PrefixOf(m) = Lead(p) /\ Len(PrefixOf(m)) = p
  <2>1. CASE p = 0 /\ m[1] = 3
    <3>1. PrefixOf(m) = <<>>
      BY <1>3, <2>1 DEF PrefixOf
    <3> QED
      BY <2>1, <3>1, EmptySeq DEF Lead
  <2>2. CASE p = 5
    <3>1. PrefixOf(m) = LockControl
      BY <1>3, <1>4, <2>2 DEF PrefixOf, Starts
    <3> QED
      BY <1>1, <2>2, <3>1 DEF Lead
  <2> QED
    BY <1>4, <2>1, <2>2 DEF Starts
<1>5. ASSUME m[Len(PrefixOf(m)) + 1] = 3
      PROVE  Starts(m, Len(PrefixOf(m))) /\ PrefixOf(m) = Lead(Len(PrefixOf(m)))
  <2>1. CASE userBytes = 144 /\ IsPrefix(LockControl, m)
    <3>1. PrefixOf(m) = LockControl /\ Len(PrefixOf(m)) = 5
      BY <1>1, <2>1 DEF PrefixOf
    <3>2. m[6] = 3
      BY <1>5, <3>1
    <3> QED
      BY <1>3, <2>1, <3>1, <3>2 DEF Starts, Lead
  <2>2. CASE ~(userBytes = 144 /\ IsPrefix(LockControl, m))
    <3>1. PrefixOf(m) = <<>> /\ Len(PrefixOf(m)) = 0
      BY <2>2, EmptySeq DEF PrefixOf
    <3>2. m[1] = 3
      BY <1>5, <3>1
    <3> QED
      BY <3>1, <3>2 DEF Starts, Lead
  <2> QED
    BY <2>1, <2>2
<1> QED
  BY <1>4, <1>5

\* A message without bytes.
LEMMA Voided ==
    ASSUME NEW m \in Seq(Nat), userBytes \in Nat, userBytes >= 4, Len(m) = userBytes,
           NEW p, Starts(m, p), m[p + 1] = 3, m[p + 2] = 0, m[p + 3] = Terminator, p + 3 <= userBytes
    PROVE  Content(m) = Empty /\ Inspected(m, p) /\ EndsThere(m, p) /\ Len(PrefixOf(m)) = p
<1>1. p \in Nat /\ Len(PrefixOf(m)) = p
  <2>1. p \in Nat
    BY DEF Starts
  <2>2. Len(PrefixOf(m)) = p
    BY Starting
  <2> QED
    BY <2>1, <2>2
<1>2. LengthBytes(m, p) = 2 /\ MessageBytes(m, p) = 0
  BY DEF LengthBytes, MessageBytes
<1>3. TerminatorAt(m, p) = p + 2
  BY <1>1, <1>2 DEF TerminatorAt
<1>4. Inspected(m, p)
  BY <1>1, <1>3 DEF Inspected
<1>5. EndsThere(m, p)
  BY <1>1, <1>3 DEF EndsThere
<1>6. Content(m) = Empty
  BY <1>1, <1>2, <1>4 DEF Content
<1> QED
  BY <1>1, <1>4, <1>5, <1>6

\* A memory that holds an encoded card reads as its type and text, and the message ends where
\* the next write looks for its end.
LEMMA ReadBack ==
    ASSUME NEW card, Good(card),
           NEW m \in Seq(Nat), userBytes \in Nat, userBytes >= 4, Len(m) = userBytes,
           NEW p, Starts(m, p), p + Len(cardNdef(card)) <= userBytes,
           \A i \in 1 .. Len(cardNdef(card)) : m[p + i] = cardNdef(card)[i]
    PROVE  Content(m) = Written(card) /\ Inspected(m, p) /\ EndsThere(m, p)
<1> DEFINE b == cardNdef(card)
           f == Header(card)
           h == Len(f)
           t == Written(card)
           l == Length(card)
           size == RecordSize(card)
           lb == LengthBytes(m, p)
           short == At(m, p + lb + 1) = 209
           header == IF short THEN 4 ELSE 7
           length == IF short THEN At(m, p + lb + 3)
                     ELSE At(m, p + lb + 5) * 256 + At(m, p + lb + 6)
<1>1. p \in Nat /\ Len(PrefixOf(m)) = p
  <2>1. p \in Nat
    BY DEF Starts
  <2>2. Len(PrefixOf(m)) = p
    BY Starting
  <2> QED
    BY <2>1, <2>2
<1>2. /\ b \in Seq(Nat) /\ h \in Nat /\ Len(t) \in Nat /\ Len(b) = h + Len(t) + 1
      /\ \A i \in 1 .. h : b[i] = f[i]
      /\ \A i \in 1 .. Len(t) : b[h + i] = t[i]
      /\ b[h + Len(t) + 1] = Terminator
  BY Encoding
<1>3. t \in Seq(Nat) /\ Len(t) = l + 1
  BY Texts
<1>4. /\ l \in Nat /\ size = l + (IF l < 256 THEN 4 ELSE 7)
      /\ f \in Seq(Nat) /\ f[1] = 3
      /\ l < 251 => h = 5 /\ f[2] = size /\ f[3] = 209 /\ f[5] = l
      /\ l >= 251 => f[2] = 255 /\ f[3] * 256 + f[4] = size
      /\ l >= 251 /\ l < 256 => h = 7 /\ f[5] = 209 /\ f[7] = l
      /\ l >= 256 => h = 10 /\ f[5] = 193 /\ f[9] * 256 + f[10] = l
  BY Headers
<1>5. p + Len(b) <= userBytes /\ \A i \in 1 .. Len(b) : m[p + i] = b[i]
  OBVIOUS
<1>6. Content(m) = IF ~Inspected(m, p) THEN Unreadable
                   ELSE IF MessageBytes(m, p) = 0 THEN Empty
                   ELSE IF header + length = MessageBytes(m, p)
                   THEN SubSeq(m, p + lb + header, p + lb + header + length) ELSE Unreadable
  BY <1>1 DEF Content
<1> HIDE DEF b, f, h, t, l, size
<1>7. /\ l \in Nat /\ h \in Nat /\ size = l + (IF l < 256 THEN 4 ELSE 7)
      /\ h = IF l < 251 THEN 5 ELSE IF l < 256 THEN 7 ELSE 10
      /\ Len(b) = h + l + 2
  <2>1. l \in Nat /\ h \in Nat /\ size = l + (IF l < 256 THEN 4 ELSE 7)
    BY <1>2, <1>4
  <2>2. /\ l < 251 => h = 5
        /\ l >= 251 /\ l < 256 => h = 7
        /\ l >= 256 => h = 10
    BY <1>4
  <2>3. Len(b) = h + l + 2
    BY <1>2, <1>3, <2>1
  <2> QED
    BY <2>1, <2>2, <2>3
<1>8. \A i \in 1 .. h : m[p + i] = f[i]
  <2> TAKE i \in 1 .. h
  <2>1. i \in 1 .. Len(b)
    BY <1>7
  <2> QED
    BY <1>2, <1>5, <2>1
<1>9. /\ m[p + 1] = f[1] /\ m[p + 2] = f[2] /\ m[p + 3] = f[3] /\ m[p + 4] = f[4] /\ m[p + 5] = f[5]
      /\ l >= 251 => m[p + 7] = f[7]
      /\ l >= 256 => m[p + 9] = f[9] /\ m[p + 10] = f[10]
  BY <1>7, <1>8
<1>10. lb = (IF l < 251 THEN 2 ELSE 4) /\ MessageBytes(m, p) = size
  <2>1. CASE l < 251
    <3>1. m[p + 2] = size /\ size # 255
      BY <1>4, <1>7, <1>9, <2>1
    <3> QED
      BY <2>1, <3>1 DEF LengthBytes, MessageBytes
  <2>2. CASE l >= 251
    <3>1. m[p + 2] = 255 /\ m[p + 3] * 256 + m[p + 4] = size
      BY <1>4, <1>9, <2>2
    <3> QED
      BY <1>7, <2>2, <3>1 DEF LengthBytes, MessageBytes
  <2> QED
    BY <1>7, <2>1, <2>2
<1> HIDE DEF lb
<1>11. p + lb + size + 1 = p + Len(b) /\ p + lb + size < userBytes
  <2>1. lb + size + 1 = h + l + 2 /\ lb \in Nat /\ size \in Nat
    BY <1>7, <1>10
  <2>2. p + (h + l + 2) <= userBytes
    BY <1>5, <1>7
  <2> QED
    BY <1>1, <1>7, <2>1, <2>2
<1>12. TerminatorAt(m, p) = p + lb + size
  BY <1>10 DEF TerminatorAt, lb
<1>13. Inspected(m, p)
  BY <1>4, <1>9, <1>11, <1>12 DEF Inspected
<1>14. EndsThere(m, p)
  <2>1. Len(b) \in 1 .. Len(b)
    BY <1>7
  <2>2. b[Len(b)] = Terminator
    BY <1>2
  <2>3. p + lb + size + 1 = p + Len(b)
    BY <1>11
  <2> QED
    BY <1>5, <1>12, <2>1, <2>2, <2>3 DEF EndsThere
<1>15. header = (IF l < 256 THEN 4 ELSE 7) /\ length = l /\ p + lb + header = p + h + 1
  <2>1. p + h <= Len(m)
    BY <1>1, <1>5, <1>7
  <2>2. CASE l < 251
    <3>1. p + lb + 1 = p + 3 /\ p + lb + 3 = p + 5 /\ p + 3 <= Len(m) /\ p + 5 <= Len(m)
      BY <1>1, <1>7, <1>10, <2>1, <2>2
    <3>2. m[p + 3] = 209 /\ m[p + 5] = l
      BY <1>4, <1>9, <2>2
    <3>3. short /\ header = 4 /\ length = l
      BY <3>1, <3>2 DEF At
    <3> HIDE DEF header, length
    <3> QED
      BY <1>1, <1>7, <1>10, <2>2, <3>3
  <2>3. CASE l >= 251 /\ l < 256
    <3>1. p + lb + 1 = p + 5 /\ p + lb + 3 = p + 7 /\ p + 5 <= Len(m) /\ p + 7 <= Len(m)
      BY <1>1, <1>7, <1>10, <2>1, <2>3
    <3>2. m[p + 5] = 209 /\ m[p + 7] = l
      <4>1. f[5] = 209 /\ f[7] = l
        BY <1>4, <2>3
      <4> QED
        BY <1>9, <2>3, <4>1
    <3>3. short /\ header = 4 /\ length = l
      BY <3>1, <3>2 DEF At
    <3> HIDE DEF header, length
    <3> QED
      BY <1>1, <1>7, <1>10, <2>3, <3>3
  <2>4. CASE l >= 256
    <3>1. /\ p + lb + 1 = p + 5 /\ p + lb + 5 = p + 9 /\ p + lb + 6 = p + 10
          /\ p + 5 <= Len(m) /\ p + 9 <= Len(m) /\ p + 10 <= Len(m)
      BY <1>1, <1>7, <1>10, <2>1, <2>4
    <3>2. m[p + 5] = 193 /\ m[p + 9] * 256 + m[p + 10] = l
      BY <1>4, <1>9, <2>4
    <3>3. ~short /\ header = 7 /\ length = l
      BY <3>1, <3>2 DEF At
    <3> HIDE DEF header, length
    <3> QED
      BY <1>1, <1>7, <1>10, <2>4, <3>3
  <2> QED
    BY <1>7, <2>2, <2>3, <2>4
<1> HIDE DEF header, length
<1>16. header + length = size /\ size # 0
  BY <1>7, <1>15
<1>17. Content(m) = SubSeq(m, p + h + 1, p + h + 1 + l)
  <2>1. MessageBytes(m, p) # 0 /\ header + length = MessageBytes(m, p)
    BY <1>10, <1>16
  <2>2. Content(m) = SubSeq(m, p + lb + header, p + lb + header + length)
    BY <1>6, <1>13, <2>1
  <2> QED
    BY <1>15, <2>2
<1>18. SubSeq(m, p + h + 1, p + h + 1 + l) = t
  <2> DEFINE u == SubSeq(m, p + h + 1, p + h + 1 + l)
             k == p + h
             n == l + 1
  <2>1. k + 1 = p + h + 1 /\ k + n = p + h + 1 + l
    BY <1>1, <1>7
  <2>2. k \in Nat /\ n \in Nat /\ k + n <= Len(m)
    BY <1>1, <1>5, <1>7
  <2>3. u = SubSeq(m, k + 1, k + n)
    BY <2>1
  <2> HIDE DEF u, k, n
  <2>4. u \in Seq(Nat) /\ Len(u) = n /\ \A i \in 1 .. n : u[i] = m[k + i]
    BY <2>2, <2>3, Slices
  <2>5. ASSUME NEW i \in 1 .. n PROVE u[i] = t[i]
    <3>1. h + i \in 1 .. Len(b) /\ p + (h + i) = k + i
      BY <1>1, <1>7 DEF k, n
    <3>2. i \in 1 .. Len(t)
      BY <1>3 DEF n
    <3>3. u[i] = m[k + i] /\ m[p + (h + i)] = b[h + i] /\ b[h + i] = t[i]
      BY <1>2, <1>5, <2>4, <3>1, <3>2
    <3> QED
      BY <3>1, <3>3
  <2>6. Len(t) = n
    BY <1>3 DEF n
  <2>7. u = t
    BY <1>3, <2>4, <2>5, <2>6, SeqEqual
  <2> QED
    BY <2>7 DEF u
<1> QED
  BY <1>13, <1>14, <1>17, <1>18 DEF t

------------------------------------------------------------------------------
(* NtagPages: the invariant *)

\* One page in place of another.
LEMMA Paging ==
    ASSUME NEW m \in Seq(Nat), NEW k \in Nat, 4 * k + 4 <= Len(m), NEW s \in Seq(Nat), Len(s) = 4
    PROVE  LET r == SubSeq(m, 1, 4 * k) \o s \o SubSeq(m, 4 * k + 5, Len(m))
           IN  /\ r \in Seq(Nat) /\ Len(r) = Len(m)
               /\ \A i \in 1 .. 4 : r[4 * k + i] = s[i]
               /\ \A i \in 1 .. Len(m) : i <= 4 * k \/ i > 4 * k + 4 => r[i] = m[i]
<1> DEFINE a == SubSeq(m, 1, 4 * k)
           c == SubSeq(m, 4 * k + 5, Len(m))
           d == a \o s
           r == d \o c
           e == 4 * k
           n == Len(m) - (4 * k + 4)
<1>1. Len(m) \in Nat /\ e \in Nat /\ n \in Nat /\ e + 4 + n = Len(m)
  BY LenProperties
<1>2. e <= Len(m) /\ a = SubSeq(m, 1, e)
  BY <1>1
<1>3. c = SubSeq(m, (e + 4) + 1, (e + 4) + n) /\ (e + 4) + n <= Len(m) /\ e + 4 \in Nat
  BY <1>1
<1> HIDE DEF a, c, e, n
<1>4. a \in Seq(Nat) /\ Len(a) = e /\ \A i \in 1 .. e : a[i] = m[i]
  BY <1>1, <1>2, Beginning
<1>5. c \in Seq(Nat) /\ Len(c) = n /\ \A i \in 1 .. n : c[i] = m[(e + 4) + i]
  <2> DEFINE x == e + 4
  <2>1. x \in Nat /\ n \in Nat /\ x + n <= Len(m) /\ c = SubSeq(m, x + 1, x + n)
    BY <1>1, <1>3
  <2> HIDE DEF x
  <2>2. c \in Seq(Nat) /\ Len(c) = n /\ \A i \in 1 .. n : c[i] = m[x + i]
    BY <2>1, Slices
  <2> QED
    BY <2>2 DEF x
<1> HIDE DEF r, d
<1>6. /\ d \in Seq(Nat) /\ Len(d) = e + 4 /\ \A i \in 1 .. e : d[i] = a[i]
      /\ \A i \in 1 .. 4 : d[e + i] = s[i]
  <2>1. /\ d \in Seq(Nat) /\ Len(d) = Len(a) + Len(s) /\ \A i \in 1 .. Len(a) : d[i] = a[i]
        /\ \A i \in 1 .. Len(s) : d[Len(a) + i] = s[i]
    BY <1>4, Joining DEF d
  <2> QED
    BY <1>4, <2>1
<1>7. /\ r \in Seq(Nat) /\ Len(r) = e + 4 + n /\ \A i \in 1 .. e + 4 : r[i] = d[i]
      /\ \A i \in 1 .. n : r[(e + 4) + i] = c[i]
  <2>1. /\ r \in Seq(Nat) /\ Len(r) = Len(d) + Len(c) /\ \A i \in 1 .. Len(d) : r[i] = d[i]
        /\ \A i \in 1 .. Len(c) : r[Len(d) + i] = c[i]
    <3>1. c \in Seq(Nat) /\ d \in Seq(Nat) /\ r = d \o c
      BY <1>5, <1>6 DEF r
    <3> QED
      BY <3>1, Joining
  <2> QED
    BY <1>5, <1>6, <2>1
<1>8. ASSUME NEW i \in 1 .. 4 PROVE r[e + i] = s[i]
  <2>1. e + i \in 1 .. e + 4
    BY <1>1
  <2> QED
    BY <1>6, <1>7, <2>1
<1>9. ASSUME NEW i \in 1 .. Len(m), i <= e \/ i > e + 4 PROVE r[i] = m[i]
  <2>1. CASE i <= e
    <3>1. i \in 1 .. e /\ i \in 1 .. e + 4
      BY <1>1, <2>1
    <3> QED
      BY <1>4, <1>6, <1>7, <3>1
  <2>2. CASE i > e + 4
    <3> DEFINE x == i - (e + 4)
    <3>1. x \in 1 .. n /\ (e + 4) + x = i
      BY <1>1, <2>2
    <3> HIDE DEF x
    <3>2. r[(e + 4) + x] = c[x] /\ c[x] = m[(e + 4) + x]
      BY <1>5, <1>7, <3>1
    <3> QED
      BY <3>1, <3>2
  <2> QED
    BY <1>9, <2>1, <2>2
<1>10. /\ r \in Seq(Nat) /\ Len(r) = Len(m)
       /\ \A i \in 1 .. 4 : r[e + i] = s[i]
       /\ \A i \in 1 .. Len(m) : i <= e \/ i > e + 4 => r[i] = m[i]
  BY <1>1, <1>7, <1>8, <1>9
<1> QED
  BY <1>10 DEF a, c, d, r, e

\* The image of a write: whole pages, of which the first bytes are the message behind its prefix.
LEMMA Images ==
    ASSUME NEW card, Good(card), NEW p \in {0, 5}
    PROVE  LET b == cardNdef(card)
               s == Padded(Lead(p) \o b)
           IN  /\ b \in Seq(Nat) /\ Len(b) >= 7 /\ b[1] = 3
               /\ s \in Seq(Nat) /\ p + Len(b) <= Len(s)
               /\ Len(s) = 4 * (Len(s) \div 4) /\ Len(s) \div 4 \in Nat /\ Len(s) \div 4 > p \div 4
               /\ \A i \in 1 .. p : s[i] = LockControl[i]
               /\ \A i \in 1 .. Len(b) : s[p + i] = b[i]
<1> DEFINE b == cardNdef(card)
           a == Lead(p)
           j == a \o b
           pad == (4 - (Len(j) % 4)) % 4
           z == Of(0, pad)
           s == j \o z
<1>1. b \in Seq(Nat) /\ Len(b) \in Nat /\ Len(b) >= 7 /\ b[1] = 3
  <2>1. /\ b \in Seq(Nat) /\ Len(b) = Len(Header(card)) + Len(Written(card)) + 1
        /\ \A i \in 1 .. Len(Header(card)) : b[i] = Header(card)[i]
    BY Encoding
  <2>2. Len(Written(card)) = Length(card) + 1 /\ Length(card) \in Nat
    BY Texts, Headers
  <2>3. Len(Header(card)) \in Nat /\ Len(Header(card)) >= 5 /\ Header(card)[1] = 3
    <3>1. Header(card) \in Seq(Nat) /\ Header(card)[1] = 3
      BY Headers
    <3>2. /\ Length(card) < 251 => Len(Header(card)) = 5
          /\ Length(card) >= 251 /\ Length(card) < 256 => Len(Header(card)) = 7
          /\ Length(card) >= 256 => Len(Header(card)) = 10
      BY Headers
    <3>3. Length(card) < 251 \/ (Length(card) >= 251 /\ Length(card) < 256) \/ Length(card) >= 256
      BY <2>2
    <3>4. Len(Header(card)) \in {5, 7, 10}
      BY <3>2, <3>3
    <3>5. \A x \in {5, 7, 10} : x \in Nat /\ x >= 5
      OBVIOUS
    <3>6. Len(Header(card)) \in Nat /\ Len(Header(card)) >= 5
      BY <3>4, <3>5
    <3> QED
      BY <3>1, <3>6
  <2> HIDE DEF b
  <2>4. b[1] = 3
    <3>1. 1 \in 1 .. Len(Header(card))
      BY <2>3
    <3> QED
      BY <2>1, <2>3, <3>1
  <2> QED
    BY <2>1, <2>2, <2>3, <2>4
<1>2. a \in Seq(Nat) /\ Len(a) = p /\ \A i \in 1 .. p : a[i] = LockControl[i]
  <2>1. CASE p = 0
    BY <2>1, EmptySeq DEF Lead
  <2>2. CASE p = 5
    <3>1. a = LockControl
      BY <2>2 DEF Lead
    <3>2. LockControl \in Seq(Nat) /\ Len(LockControl) = 5
      BY DEF LockControl
    <3> QED
      BY <2>2, <3>1, <3>2
  <2> QED
    BY <2>1, <2>2
<1>3. Padded(Lead(p) \o b) = s
  BY DEF Padded
<1> HIDE DEF a, b
<1>4. /\ j \in Seq(Nat) /\ Len(j) = p + Len(b) /\ \A i \in 1 .. p : j[i] = a[i]
      /\ \A i \in 1 .. Len(b) : j[p + i] = b[i]
  <2>1. a \in Seq(Nat) /\ b \in Seq(Nat) /\ Len(a) = p
    BY <1>1, <1>2
  <2>2. /\ j \in Seq(Nat) /\ Len(j) = Len(a) + Len(b) /\ \A i \in 1 .. Len(a) : j[i] = a[i]
        /\ \A i \in 1 .. Len(b) : j[Len(a) + i] = b[i]
    BY <2>1, Joining
  <2> HIDE DEF j
  <2> QED
    BY <2>1, <2>2
<1> HIDE DEF j
<1>5. p \in Nat /\ Len(j) \in Nat
  BY <1>1, <1>4
<1> DEFINE q == Len(j) \div 4
           r == Len(j) % 4
<1>6. q \in Nat /\ r \in 0 .. 3 /\ Len(j) = 4 * q + r
  BY <1>5, Quarters
<1>7. pad = IF r = 0 THEN 0 ELSE 4 - r
  <2>1. pad = (4 - r) % 4
    OBVIOUS
  <2> HIDE DEF pad, r, q
  <2>2. r = 0 \/ r = 1 \/ r = 2 \/ r = 3
    BY <1>6
  <2>3. (4 - 0) % 4 = 0 /\ (4 - 1) % 4 = 3 /\ (4 - 2) % 4 = 2 /\ (4 - 3) % 4 = 1
    OBVIOUS
  <2> QED
    BY <2>1, <2>2, <2>3
<1> HIDE DEF pad, r, q
<1>8. pad \in Nat /\ pad \in 0 .. 3 /\ Len(j) + pad = 4 * (IF r = 0 THEN q ELSE q + 1)
  BY <1>6, <1>7
<1>9. z \in Seq(Nat) /\ Len(z) = pad
  BY <1>8, Repeated
<1> HIDE DEF z
<1>10. s \in Seq(Nat) /\ Len(s) = Len(j) + pad /\ \A i \in 1 .. Len(j) : s[i] = j[i]
  BY <1>4, <1>9, Joining
<1> HIDE DEF s
<1> DEFINE u == IF r = 0 THEN q ELSE q + 1
<1>11. u \in Nat /\ Len(s) = 4 * u
  BY <1>6, <1>8, <1>10
<1> HIDE DEF u
<1>12. Len(s) \div 4 = u
  BY <1>11
<1>13. p + Len(b) <= Len(s)
  BY <1>4, <1>5, <1>8, <1>10
<1>14. u > p \div 4
  <2>1. 0 \div 4 = 0 /\ 5 \div 4 = 1
    OBVIOUS
  <2>2. 4 * u >= p + 7
    BY <1>1, <1>5, <1>11, <1>13
  <2> QED
    BY <1>11, <2>1, <2>2
<1>15. \A i \in 1 .. p : s[i] = LockControl[i]
  <2> TAKE i \in 1 .. p
  <2>1. i \in 1 .. Len(j)
    BY <1>1, <1>4, <1>5
  <2> QED
    BY <1>2, <1>4, <1>10, <2>1
<1>16. \A i \in 1 .. Len(b) : s[p + i] = b[i]
  <2> TAKE i \in 1 .. Len(b)
  <2>1. p + i \in 1 .. Len(j)
    BY <1>1, <1>4, <1>5
  <2> QED
    BY <1>4, <1>10, <2>1
<1> QED
  <2>1. /\ b \in Seq(Nat) /\ Len(b) >= 7 /\ b[1] = 3
        /\ s \in Seq(Nat) /\ p + Len(b) <= Len(s)
        /\ Len(s) = 4 * (Len(s) \div 4) /\ Len(s) \div 4 \in Nat /\ Len(s) \div 4 > p \div 4
        /\ \A i \in 1 .. p : s[i] = LockControl[i]
        /\ \A i \in 1 .. Len(b) : s[p + i] = b[i]
    BY <1>1, <1>10, <1>11, <1>12, <1>13, <1>14, <1>15, <1>16
  <2> QED
    BY <1>3, <2>1 DEF b

MemTypeOK ==
    /\ userBytes \in Sizes /\ mem \in Seq(Nat) /\ Len(mem) = userBytes
    /\ prefix \in {0, 5} /\ writes \in Nat

\* The pages from the message's own on up to where the write has come, and after the last that one too.
Sent ==
    /\ \A k \in Commit + 1 .. Commit + next - 1 : k < PageCount =>
          \A i \in 1 .. 4 : mem[4 * k + i] = bytes[4 * k + i]
    /\ done => \A i \in 1 .. 4 : mem[4 * Commit + i] = bytes[4 * Commit + i]

\* A write under way: of a card that fits, over a memory whose message has no length until the end.
Underway ==
    next # Off =>
        /\ goal \in Cards[userBytes] /\ Starts(mem, prefix)
        /\ bytes = Padded(Lead(prefix) \o cardNdef(goal)) /\ Len(bytes) <= userBytes
        /\ next \in 0 .. PageCount - Commit + 1
        /\ next = 0 => Content(mem) = old
        /\ next \in 1 .. PageCount - Commit =>
              mem[prefix + 2] = 0 /\ mem[prefix + 3] = Terminator
        /\ next # 0 => Sent

MemoryInv == MemTypeOK /\ NeverMixed /\ StaysWritable /\ Underway

LEMMA SizesAreGood ==
    ASSUME userBytes \in Sizes
    PROVE  /\ userBytes \in Nat /\ userBytes >= 4
           /\ \A card \in Cards[userBytes] \cup Originals[userBytes] : Good(card)
BY NtagAssumption DEF Good

\* A memory begins as it was found: nothing on it or a text, behind the prefix or without.
LEMMA MemoryBegins == MemoryInit => MemoryInv
<1> SUFFICES ASSUME MemoryInit PROVE MemoryInv
  OBVIOUS
<1>1. PICK ndef \in {FactoryEmpty} \cup {cardNdef(card) : card \in Originals[userBytes]},
           lock \in (IF userBytes = 144 THEN BOOLEAN ELSE {FALSE}) : mem = Memory(ndef, lock)
  BY DEF MemoryInit
<1>2. userBytes \in Sizes /\ prefix = 0 /\ writes = 0 /\ next = Off /\ old = Content(mem)
  BY DEF MemoryInit
<1>3. userBytes \in Nat /\ userBytes >= 4 /\ \A card \in Originals[userBytes] : Good(card)
  BY <1>2, SizesAreGood
<1> DEFINE p == IF lock THEN 5 ELSE 0
           a == Lead(p)
<1>4. lock \in BOOLEAN /\ (lock => userBytes = 144)
  <2>1. CASE userBytes = 144
    BY <1>1, <2>1
  <2>2. CASE userBytes # 144
    BY <1>1, <2>2
  <2> QED
    BY <2>1, <2>2
<1>5. a = (IF lock THEN LockControl ELSE <<>>)
  <2>1. CASE lock
    BY <2>1 DEF Lead
  <2>2. CASE ~lock
    BY <2>2 DEF Lead
  <2> QED
    BY <2>1, <2>2
<1>6. a \in Seq(Nat) /\ Len(a) = p /\ (lock => a = LockControl /\ userBytes = 144) /\ p \in {0, 5}
  <2>1. CASE lock
    <3>1. a = LockControl /\ p = 5 /\ userBytes = 144
      BY <1>4, <1>5, <2>1
    <3>2. LockControl \in Seq(Nat) /\ Len(LockControl) = 5
      BY DEF LockControl
    <3> HIDE DEF a, p
    <3> QED
      BY <2>1, <3>1, <3>2
  <2>2. CASE ~lock
    <3>1. a = <<>> /\ p = 0
      BY <2>2 DEF Lead
    <3> HIDE DEF a, p
    <3> QED
      BY <2>2, <3>1, EmptySeq
  <2> QED
    BY <2>1, <2>2
<1>7. /\ ndef \in Seq(Nat) /\ Len(ndef) \in Nat /\ p + Len(ndef) <= userBytes
      /\ Len(ndef) >= 3 /\ ndef[1] = 3
  <2>1. CASE ndef = FactoryEmpty
    <3>1. ndef \in Seq(Nat) /\ Len(ndef) = 3 /\ ndef[1] = 3
      BY <2>1 DEF FactoryEmpty, Terminator
    <3> QED
      BY <1>3, <1>6, <3>1
  <2>2. ASSUME NEW card \in Originals[userBytes], ndef = cardNdef(card)
        PROVE  /\ ndef \in Seq(Nat) /\ Len(ndef) \in Nat /\ p + Len(ndef) <= userBytes
               /\ Len(ndef) >= 3 /\ ndef[1] = 3
    <3>1. Good(card)
      BY <1>3
    <3>2. ndef \in Seq(Nat) /\ Len(ndef) >= 7 /\ ndef[1] = 3
      BY <2>2, <3>1, Images
    <3>3. Len(ndef) + (IF userBytes = 144 THEN Len(LockControl) ELSE 0) <= userBytes
      BY <1>2, <2>2, NtagAssumption
    <3>4. Len(LockControl) = 5 /\ Len(ndef) \in Nat
      BY <3>2, LenProperties DEF LockControl
    <3>5. p + Len(ndef) <= userBytes
      BY <1>3, <1>6, <3>3, <3>4
    <3> QED
      BY <3>2, <3>4, <3>5
  <2> QED
    BY <1>1, <2>1, <2>2
<1> DEFINE j == a \o ndef
           z == Of(0, userBytes - Len(j))
<1> HIDE DEF p, a
<1>8. mem = j \o z
  BY <1>1, <1>5 DEF Memory
<1>9. /\ j \in Seq(Nat) /\ Len(j) = p + Len(ndef) /\ \A i \in 1 .. p : j[i] = a[i]
      /\ \A i \in 1 .. Len(ndef) : j[p + i] = ndef[i]
  <2>1. /\ j \in Seq(Nat) /\ Len(j) = Len(a) + Len(ndef) /\ \A i \in 1 .. Len(a) : j[i] = a[i]
        /\ \A i \in 1 .. Len(ndef) : j[Len(a) + i] = ndef[i]
    <3>1. a \in Seq(Nat) /\ ndef \in Seq(Nat)
      BY <1>6, <1>7
    <3> QED
      BY <3>1, Joining
  <2> HIDE DEF j
  <2> QED
    BY <1>6, <2>1
<1> HIDE DEF j
<1>10. userBytes - Len(j) \in Nat /\ p \in Nat
  BY <1>3, <1>6, <1>7, <1>9
<1>11. z \in Seq(Nat) /\ Len(z) = userBytes - Len(j)
  BY <1>10, Repeated
<1> HIDE DEF z
<1>12. /\ mem \in Seq(Nat) /\ Len(mem) = Len(j) + Len(z) /\ \A i \in 1 .. Len(j) : mem[i] = j[i]
  <2>1. j \in Seq(Nat) /\ z \in Seq(Nat)
    BY <1>9, <1>11
  <2> QED
    BY <1>8, <2>1, Joining
<1>13. Len(mem) = userBytes
  BY <1>3, <1>6, <1>7, <1>9, <1>11, <1>12
<1>14. \A i \in 1 .. p : mem[i] = a[i]
  <2> TAKE i \in 1 .. p
  <2>1. i \in 1 .. Len(j)
    BY <1>7, <1>9, <1>10
  <2> QED
    BY <1>9, <1>12, <2>1
<1>15. \A i \in 1 .. Len(ndef) : mem[p + i] = ndef[i]
  <2> TAKE i \in 1 .. Len(ndef)
  <2>1. p + i \in 1 .. Len(j)
    BY <1>7, <1>9, <1>10
  <2> QED
    BY <1>9, <1>12, <2>1
<1>16. Starts(mem, p)
  <2>1. mem[p + 1] = 3
    BY <1>7, <1>15
  <2>2. CASE lock
    <3>1. p = 5 /\ a = LockControl /\ userBytes = 144
      BY <1>6, <2>2 DEF p
    <3>2. /\ mem[1] = LockControl[1] /\ mem[2] = LockControl[2] /\ mem[3] = LockControl[3]
          /\ mem[4] = LockControl[4] /\ mem[5] = LockControl[5] /\ mem[6] = 3
      BY <1>14, <2>1, <3>1
    <3> QED
      BY <3>1, <3>2 DEF Starts, LockControl
  <2>3. CASE ~lock
    <3>1. p = 0
      BY <2>3 DEF p
    <3> QED
      BY <2>1, <3>1 DEF Starts
  <2> QED
    BY <2>2, <2>3
<1>17. Len(PrefixOf(mem)) = p
  BY <1>3, <1>12, <1>13, <1>16, Starting
<1>18. Inspected(mem, p) /\ EndsThere(mem, p)
  <2>1. CASE ndef = FactoryEmpty
    <3>1. mem[p + 1] = 3 /\ mem[p + 2] = 0 /\ mem[p + 3] = Terminator /\ p + 3 <= userBytes
      <4>1. FactoryEmpty[1] = 3 /\ FactoryEmpty[2] = 0 /\ FactoryEmpty[3] = Terminator
        BY DEF FactoryEmpty
      <4>2. mem[p + 1] = ndef[1] /\ mem[p + 2] = ndef[2] /\ mem[p + 3] = ndef[3]
        BY <1>7, <1>15
      <4>3. p + 3 <= userBytes
        BY <1>3, <1>7, <1>10
      <4> QED
        BY <2>1, <4>1, <4>2, <4>3
    <3> QED
      BY <1>3, <1>12, <1>13, <1>16, <3>1, Voided
  <2>2. ASSUME NEW card \in Originals[userBytes], ndef = cardNdef(card)
        PROVE  Inspected(mem, p) /\ EndsThere(mem, p)
    <3>1. Good(card)
      BY <1>3
    <3>2. /\ p + Len(cardNdef(card)) <= userBytes
          /\ \A i \in 1 .. Len(cardNdef(card)) : mem[p + i] = cardNdef(card)[i]
      BY <1>7, <1>15, <2>2
    <3> QED
      BY <1>3, <1>12, <1>13, <1>16, <3>1, <3>2, ReadBack
  <2> QED
    BY <1>1, <2>1, <2>2
<1>19. StaysWritable
  BY <1>2, <1>17, <1>18 DEF StaysWritable
<1> QED
  BY <1>2, <1>12, <1>13, <1>19 DEF MemoryInv, MemTypeOK, NeverMixed, Underway

\* What is known of a write under way.
LEMMA Going ==
    ASSUME MemoryInv, next # Off
    PROVE  /\ userBytes \in Nat /\ userBytes >= 4 /\ mem \in Seq(Nat) /\ Len(mem) = userBytes
           /\ Good(goal) /\ Starts(mem, prefix)
           /\ (prefix = 0 /\ Commit = 0) \/ (prefix = 5 /\ Commit = 1 /\ userBytes = 144)
           /\ PageCount \in Nat /\ PageCount > Commit /\ 4 * PageCount <= Len(mem)
           /\ next \in Nat /\ next <= PageCount - Commit + 1
           /\ bytes \in Seq(Nat) /\ Len(bytes) = 4 * PageCount
           /\ prefix + Len(cardNdef(goal)) <= Len(bytes) /\ Len(cardNdef(goal)) \in Nat
           /\ \A i \in 1 .. prefix : bytes[i] = LockControl[i]
           /\ bytes[prefix + 1] = 3
           /\ \A i \in 1 .. Len(cardNdef(goal)) : bytes[prefix + i] = cardNdef(goal)[i]
<1>1. /\ userBytes \in Sizes /\ mem \in Seq(Nat) /\ Len(mem) = userBytes /\ prefix \in {0, 5}
      /\ goal \in Cards[userBytes] /\ Starts(mem, prefix) /\ Len(bytes) <= userBytes
      /\ bytes = Padded(Lead(prefix) \o cardNdef(goal))
      /\ next \in 0 .. PageCount - Commit + 1
  BY DEF MemoryInv, MemTypeOK, Underway
<1>2. userBytes \in Nat /\ userBytes >= 4 /\ Good(goal)
  BY <1>1, SizesAreGood
<1>3. (prefix = 0 /\ Commit = 0) \/ (prefix = 5 /\ Commit = 1 /\ userBytes = 144)
  <2>1. 0 \div 4 = 0 /\ 5 \div 4 = 1
    OBVIOUS
  <2>2. CASE prefix = 0
    BY <2>1, <2>2 DEF Commit
  <2>3. CASE prefix = 5
    <3>1. Commit = 1
      BY <2>1, <2>3 DEF Commit
    <3>2. userBytes = 144
      BY <1>1, <2>3 DEF Starts
    <3> QED
      BY <2>3, <3>1, <3>2
  <2> QED
    BY <1>1, <2>2, <2>3
<1> DEFINE b == cardNdef(goal)
<1>4. /\ b \in Seq(Nat) /\ Len(b) >= 7 /\ b[1] = 3
      /\ bytes \in Seq(Nat) /\ prefix + Len(b) <= Len(bytes)
      /\ Len(bytes) = 4 * PageCount /\ PageCount \in Nat /\ PageCount > Commit
      /\ \A i \in 1 .. prefix : bytes[i] = LockControl[i]
      /\ \A i \in 1 .. Len(b) : bytes[prefix + i] = b[i]
  <2> DEFINE s == Padded(Lead(prefix) \o b)
  <2>1. /\ b \in Seq(Nat) /\ Len(b) >= 7 /\ b[1] = 3
        /\ s \in Seq(Nat) /\ prefix + Len(b) <= Len(s)
        /\ Len(s) = 4 * (Len(s) \div 4) /\ Len(s) \div 4 \in Nat /\ Len(s) \div 4 > prefix \div 4
        /\ \A i \in 1 .. prefix : s[i] = LockControl[i]
        /\ \A i \in 1 .. Len(b) : s[prefix + i] = b[i]
    BY <1>1, <1>2, Images
  <2>2. bytes = s
    BY <1>1
  <2> HIDE DEF s, b
  <2> QED
    BY <2>1, <2>2 DEF PageCount, Commit
<1> HIDE DEF b
<1>5. Len(b) \in Nat /\ bytes[prefix + 1] = 3
  <2>1. Len(b) \in Nat
    BY <1>4, LenProperties
  <2>2. 1 \in 1 .. Len(b)
    BY <1>4, <2>1
  <2> QED
    BY <1>4, <2>1, <2>2
<1>6. next \in Nat /\ next <= PageCount - Commit + 1
  <2>1. PageCount - Commit + 1 \in Int
    BY <1>3, <1>4
  <2> QED
    BY <1>1, <2>1
<1>7. 4 * PageCount <= Len(mem)
  BY <1>1, <1>4
<1> QED
  BY <1>1, <1>2, <1>3, <1>4, <1>5, <1>6, <1>7 DEF b

\* All pages of the message make the whole of the text.
LEMMA Complete ==
    ASSUME MemoryInv, next # Off, NEW m \in Seq(Nat), Len(m) = userBytes, Starts(m, prefix),
           \A k \in Commit .. PageCount - 1 : \A i \in 1 .. 4 : m[4 * k + i] = bytes[4 * k + i]
    PROVE  Content(m) = Written(goal) /\ Inspected(m, prefix) /\ EndsThere(m, prefix)
<1> DEFINE b == cardNdef(goal)
<1>1. /\ userBytes \in Nat /\ userBytes >= 4 /\ Good(goal)
      /\ (prefix = 0 /\ Commit = 0) \/ (prefix = 5 /\ Commit = 1)
      /\ PageCount \in Nat /\ 4 * PageCount <= userBytes /\ Len(bytes) = 4 * PageCount
      /\ prefix + Len(b) <= Len(bytes) /\ Len(b) \in Nat
      /\ \A i \in 1 .. Len(b) : bytes[prefix + i] = b[i]
  BY Going
<1> HIDE DEF b
<1>2. ASSUME NEW i \in 1 .. Len(b) PROVE m[prefix + i] = b[i]
  <2> DEFINE x == prefix + i - 1
             k == x \div 4
             r == x % 4
  <2>1. x \in Nat /\ x >= prefix /\ x < 4 * PageCount
    <3>1. prefix \in Nat /\ i \in Nat /\ i >= 1 /\ i <= Len(b)
      <4>1. Len(b) \in Nat
        BY <1>1
      <4>2. prefix = 0 \/ prefix = 5
        BY <1>1
      <4> QED
        BY <4>1, <4>2
    <3>2. prefix + Len(b) <= 4 * PageCount /\ Len(b) \in Nat /\ PageCount \in Nat
      BY <1>1
    <3> QED
      BY <3>1, <3>2
  <2>2. k \in Nat /\ r \in 0 .. 3 /\ x = 4 * k + r
    BY <2>1, Quarters
  <2> HIDE DEF k, r
  <2>3. prefix + i = 4 * k + (r + 1)
    <3>1. prefix \in Nat /\ i \in Nat /\ x = prefix + i - 1
      BY <1>1
    <3> HIDE DEF x
    <3> QED
      BY <2>2, <3>1
  <2> HIDE DEF x
  <2>4. r + 1 \in 1 .. 4 /\ k \in Commit .. PageCount - 1
    <3>1. k <= PageCount - 1
      BY <1>1, <2>1, <2>2
    <3>2. k >= Commit
      <4>1. CASE prefix = 0 /\ Commit = 0
        BY <2>2, <4>1
      <4>2. CASE prefix = 5 /\ Commit = 1
        BY <2>1, <2>2, <4>2
      <4> QED
        BY <1>1, <4>1, <4>2
    <3>3. PageCount - 1 \in Int /\ Commit \in Int
      BY <1>1
    <3> QED
      BY <2>2, <3>1, <3>2, <3>3
  <2>5. m[4 * k + (r + 1)] = bytes[4 * k + (r + 1)]
    BY <2>4
  <2> QED
    BY <1>1, <2>3, <2>5
<1>3. prefix + Len(b) <= userBytes
  BY <1>1
<1> QED
  BY <1>1, <1>2, <1>3, ReadBack DEF b

LEMMA BeginKeeps == MemoryInv /\ Begin => MemoryInv'
<1> SUFFICES ASSUME MemoryInv, Begin PROVE MemoryInv'
  OBVIOUS
<1> DEFINE p == Len(PrefixOf(mem))
<1>1. /\ mem \in Seq(Nat) /\ Len(mem) = userBytes /\ userBytes \in Nat /\ userBytes >= 4
      /\ userBytes \in Sizes /\ writes \in Nat
  BY SizesAreGood DEF MemoryInv, MemTypeOK
<1>2. /\ UNCHANGED <<userBytes, mem>> /\ prefix' = p /\ next' = 0 /\ old' = Content(mem)
      /\ writes' \in Nat /\ Inspected(mem, p) /\ EndsThere(mem, p)
  BY <1>1 DEF Begin
<1>3. PICK card \in Cards[userBytes] :
        /\ Fits(PrefixOf(mem) \o cardNdef(card)) /\ goal' = card
        /\ bytes' = Padded(PrefixOf(mem) \o cardNdef(card))
  BY DEF Begin
<1>4. Starts(mem, p) /\ PrefixOf(mem) = Lead(p)
  <2>1. mem[p + 1] = 3
    BY <1>2 DEF Inspected
  <2> QED
    BY <1>1, <2>1, Starting
<1>5. p \in {0, 5}
  BY <1>4 DEF Starts
<1>6. Good(card)
  BY <1>1, <1>3, SizesAreGood
<1> HIDE DEF p
<1>7. bytes' = Padded(Lead(p) \o cardNdef(card)) /\ Len(bytes') <= userBytes
  BY <1>3, <1>4 DEF Fits
<1>8. Len(bytes') \div 4 \in Nat /\ Len(bytes') \div 4 > p \div 4
  BY <1>5, <1>6, <1>7, Images
<1>9. MemTypeOK'
  BY <1>1, <1>2, <1>5 DEF MemTypeOK
<1>10. Content(mem)' = Content(mem) /\ PrefixOf(mem)' = PrefixOf(mem)
  BY <1>2 DEF Content, PrefixOf, Inspected, LengthBytes, MessageBytes, TerminatorAt
<1>11. Inspected(mem, p)' /\ EndsThere(mem, p)'
  <2>1. p' = p
    BY <1>10 DEF p
  <2> QED
    BY <1>2, <2>1 DEF Inspected, EndsThere, LengthBytes, MessageBytes, TerminatorAt
<1>12. NeverMixed'
  BY <1>2, <1>10 DEF NeverMixed
<1>13. StaysWritable'
  BY <1>2, <1>10, <1>11 DEF StaysWritable, p
<1>14. Underway'
  <2>1. next' \in 0 .. PageCount' - Commit' + 1 /\ PageCount' - Commit' > 0 /\ PageCount' - Commit' \in Nat
    <3> DEFINE x == Len(bytes') \div 4
               y == p \div 4
    <3>1. y \in {0, 1}
      <4>1. 0 \div 4 = 0 /\ 5 \div 4 = 1
        OBVIOUS
      <4> QED
        BY <1>5, <4>1
    <3>2. x \in Nat /\ x > y
      BY <1>8
    <3>3. PageCount' = x /\ Commit' = y
      BY <1>2 DEF PageCount, Commit
    <3> HIDE DEF x, y
    <3> QED
      BY <1>2, <3>1, <3>2, <3>3
  <2>2. Starts(mem, prefix)'
    BY <1>2, <1>4 DEF Starts
  <2>3. Content(mem)' = old' /\ goal' \in Cards'[userBytes']
    BY <1>2, <1>3, <1>10
  <2>4. bytes' = Padded(Lead(prefix') \o cardNdef(goal')) /\ Len(bytes') <= userBytes'
    BY <1>2, <1>3, <1>7
  <2>5. ~(next' \in 1 .. PageCount' - Commit') /\ next' = 0
    BY <1>2, <2>1
  <2> QED
    BY <2>1, <2>2, <2>3, <2>4, <2>5 DEF Underway
<1> QED
  BY <1>9, <1>12, <1>13, <1>14 DEF MemoryInv

\* The page a step writes, and what it writes there.
LEMMA PageWritten ==
    ASSUME MemoryInv, WritePage,
           NEW k \in Nat, NEW s \in Seq(Nat), Len(s) = 4, 4 * k + 4 <= Len(mem), Page = <<k, s>>
    PROVE  /\ mem' \in Seq(Nat) /\ Len(mem') = userBytes
           /\ \A i \in 1 .. 4 : mem'[4 * k + i] = s[i]
           /\ \A i \in 1 .. userBytes : i <= 4 * k \/ i > 4 * k + 4 => mem'[i] = mem[i]
<1>1. mem \in Seq(Nat) /\ Len(mem) = userBytes
  BY DEF MemoryInv, MemTypeOK
<1>2. Page[1] = k /\ Page[2] = s
  OBVIOUS
<1>3. mem' = SubSeq(mem, 1, 4 * k) \o s \o SubSeq(mem, 4 * k + 5, Len(mem))
  BY <1>2 DEF WritePage
<1> QED
  BY <1>1, <1>3, Paging

\* A step keeps the invariant where the memory starts as it did and either is void or complete.
LEMMA PageKept ==
    ASSUME MemoryInv, WritePage, mem' \in Seq(Nat), Len(mem') = userBytes, Starts(mem', prefix),
           \/ /\ mem'[prefix + 1] = 3 /\ mem'[prefix + 2] = 0 /\ mem'[prefix + 3] = Terminator
              /\ prefix + 3 <= userBytes /\ next < PageCount - Commit
              /\ \A k \in Commit + 1 .. Commit + next : k < PageCount =>
                    \A i \in 1 .. 4 : mem'[4 * k + i] = bytes[4 * k + i]
           \/ /\ next = PageCount - Commit
              /\ \A k \in Commit .. PageCount - 1 : \A i \in 1 .. 4 : mem'[4 * k + i] = bytes[4 * k + i]
    PROVE  MemoryInv'
<1>1. /\ next # Off /\ ~done /\ next' = next + 1
      /\ UNCHANGED <<userBytes, goal, bytes, prefix, writes, old>>
  BY DEF WritePage
<1>2. /\ userBytes \in Nat /\ userBytes >= 4 /\ next \in Nat
      /\ PageCount \in Nat /\ Commit \in {0, 1} /\ PageCount > Commit
  BY <1>1, Going
<1>3. /\ userBytes \in Sizes /\ prefix \in {0, 5} /\ writes \in Nat /\ goal \in Cards[userBytes]
      /\ bytes = Padded(Lead(prefix) \o cardNdef(goal)) /\ Len(bytes) <= userBytes
  BY <1>1 DEF MemoryInv, MemTypeOK, Underway
<1>4. Commit' = Commit /\ PageCount' = PageCount
  BY <1>1 DEF Commit, PageCount
<1>5. MemTypeOK'
  BY <1>1, <1>3 DEF MemTypeOK
<1> DEFINE Blanked == /\ mem'[prefix + 1] = 3 /\ mem'[prefix + 2] = 0 /\ mem'[prefix + 3] = Terminator
                    /\ prefix + 3 <= userBytes
           Whole == \A k \in Commit .. PageCount - 1 : \A i \in 1 .. 4 : mem'[4 * k + i] = bytes[4 * k + i]
<1>6. /\ Inspected(mem', prefix) /\ EndsThere(mem', prefix) /\ Len(PrefixOf(mem')) = prefix
      /\ Blanked => Content(mem') = Empty
      /\ Whole => Content(mem') = Written(goal)
  <2>1. Len(PrefixOf(mem')) = prefix
    BY <1>2, Starting
  <2>2. Blanked => Content(mem') = Empty /\ Inspected(mem', prefix) /\ EndsThere(mem', prefix)
    BY <1>2, Voided
  <2>3. Whole => Content(mem') = Written(goal) /\ Inspected(mem', prefix) /\ EndsThere(mem', prefix)
    BY <1>1, Complete
  <2>4. Blanked \/ Whole
    OBVIOUS
  <2> HIDE DEF Blanked, Whole
  <2> QED
    BY <2>1, <2>2, <2>3, <2>4
<1>7. /\ Content(mem)' = Content(mem') /\ PrefixOf(mem)' = PrefixOf(mem')
      /\ Inspected(mem, prefix)' = Inspected(mem', prefix) /\ EndsThere(mem, prefix)' = EndsThere(mem', prefix)
      /\ Starts(mem, prefix)' = Starts(mem', prefix)
  BY <1>1 DEF Content, PrefixOf, Inspected, EndsThere, LengthBytes, MessageBytes, TerminatorAt, Starts
<1>8. NeverMixed'
  BY <1>1, <1>6, <1>7 DEF NeverMixed
<1>9. StaysWritable'
  BY <1>1, <1>6, <1>7 DEF StaysWritable
<1>10. Sent' /\ next' \in 1 .. PageCount - Commit + 1
       /\ (next' \in 1 .. PageCount - Commit => mem'[prefix + 2] = 0 /\ mem'[prefix + 3] = Terminator)
  <2> DEFINE n == PageCount - Commit
  <2>1. n \in Nat /\ Commit \in Nat
    BY <1>2
  <2>2. CASE /\ Blanked /\ next < n
             /\ \A k \in Commit + 1 .. Commit + next : k < PageCount =>
                   \A i \in 1 .. 4 : mem'[4 * k + i] = bytes[4 * k + i]
    <3>1. next' <= n /\ next' \in 1 .. n + 1 /\ Commit + next' - 1 = Commit + next
      BY <1>1, <1>2, <2>1, <2>2
    <3>2. ~done'
      BY <1>2, <1>4, <3>1, <2>1 DEF done
    <3>3. Sent'
      BY <1>1, <1>4, <2>2, <3>1, <3>2 DEF Sent
    <3> QED
      BY <2>2, <3>1, <3>3
  <2>3. CASE next = n /\ Whole
    <3>1. next' = n + 1 /\ next' \in 1 .. n + 1 /\ ~(next' \in 1 .. n) /\ Commit + next' - 1 = PageCount
      BY <1>1, <1>2, <2>1, <2>3
    <3>2. \A k \in Commit + 1 .. PageCount : k < PageCount => k \in Commit .. PageCount - 1
      BY <1>2
    <3>3. Commit \in Commit .. PageCount - 1
      BY <1>2
    <3>4. Sent'
      BY <1>1, <1>4, <2>3, <3>1, <3>2, <3>3 DEF Sent
    <3> QED
      BY <3>1, <3>4
  <2> QED
    BY <2>2, <2>3
<1>11. Underway'
  <2>1. next' # 0 /\ next' \in 0 .. PageCount - Commit + 1
    BY <1>2, <1>10
  <2>2. Starts(mem, prefix)'
    BY <1>7
  <2> QED
    BY <1>1, <1>3, <1>4, <1>10, <2>1, <2>2 DEF Underway
<1> QED
  BY <1>5, <1>8, <1>9, <1>11 DEF MemoryInv

\* First the message loses its length.
LEMMA FirstPage == MemoryInv /\ WritePage /\ next = 0 => MemoryInv'
<1> SUFFICES ASSUME MemoryInv, WritePage, next = 0 PROVE MemoryInv'
  OBVIOUS
<1>1. /\ next # Off /\ userBytes \in Nat /\ userBytes >= 4 /\ Len(mem) = userBytes
      /\ Starts(mem, prefix) /\ PageCount \in Nat /\ PageCount > Commit /\ 4 * PageCount <= userBytes
      /\ (prefix = 0 /\ Commit = 0) \/ (prefix = 5 /\ Commit = 1 /\ userBytes = 144)
  <2>1. next # Off
    BY DEF WritePage
  <2> QED
    BY <2>1, Going
<1>2. Commit \in Nat /\ 4 * Commit + 4 <= Len(mem)
  BY <1>1
<1>3. Void \in Seq(Nat) /\ Len(Void) = 4
  <2>1. CASE prefix = 0
    <3>1. Void = <<3, 0, Terminator, 0>>
      BY <2>1 DEF Void
    <3> QED
      BY <3>1 DEF Terminator
  <2>2. CASE prefix # 0
    <3>1. Void = <<52, 3, 0, Terminator>>
      BY <2>2 DEF Void
    <3> QED
      BY <3>1 DEF Terminator
  <2> QED
    BY <2>1, <2>2
<1>4. Page = <<Commit, Void>>
  BY DEF Page
<1>5. /\ mem' \in Seq(Nat) /\ Len(mem') = userBytes
      /\ \A i \in 1 .. 4 : mem'[4 * Commit + i] = Void[i]
      /\ \A i \in 1 .. userBytes : i <= 4 * Commit \/ i > 4 * Commit + 4 => mem'[i] = mem[i]
  BY <1>2, <1>3, <1>4, PageWritten
<1>6. /\ mem'[prefix + 1] = 3 /\ mem'[prefix + 2] = 0 /\ mem'[prefix + 3] = Terminator
      /\ prefix + 3 <= userBytes /\ Starts(mem', prefix)
  <2>1. CASE prefix = 0 /\ Commit = 0
    <3>1. Void = <<3, 0, Terminator, 0>>
      BY <2>1 DEF Void
    <3>2. Void[1] = 3 /\ Void[2] = 0 /\ Void[3] = Terminator
      BY <3>1
    <3>3. mem'[1] = Void[1] /\ mem'[2] = Void[2] /\ mem'[3] = Void[3]
      BY <1>5, <2>1
    <3> QED
      BY <1>1, <2>1, <3>2, <3>3 DEF Starts
  <2>2. CASE prefix = 5 /\ Commit = 1 /\ userBytes = 144
    <3>1. Void = <<52, 3, 0, Terminator>>
      BY <2>2 DEF Void
    <3>2. Void[1] = 52 /\ Void[2] = 3 /\ Void[3] = 0 /\ Void[4] = Terminator
      BY <3>1
    <3>3. mem'[5] = Void[1] /\ mem'[6] = Void[2] /\ mem'[7] = Void[3] /\ mem'[8] = Void[4]
      BY <1>5, <2>2
    <3>4. mem'[1] = mem[1] /\ mem'[2] = mem[2] /\ mem'[3] = mem[3] /\ mem'[4] = mem[4]
      BY <1>5, <2>2
    <3>5. mem[1] = 1 /\ mem[2] = 3 /\ mem[3] = 160 /\ mem[4] = 12
      BY <1>1, <2>2 DEF Starts
    <3> QED
      BY <2>2, <3>2, <3>3, <3>4, <3>5 DEF Starts
  <2> QED
    BY <1>1, <2>1, <2>2
<1>7. next < PageCount - Commit /\ \A k \in Commit + 1 .. Commit + next : k < PageCount => FALSE
  BY <1>1, <1>2
<1> QED
  BY <1>5, <1>6, <1>7, PageKept

\* The bytes of a page of the image.
LEMMA PageOfImage ==
    ASSUME MemoryInv, next # Off, NEW k \in Nat, k < PageCount
    PROVE  LET s == SubSeq(bytes, 4 * k + 1, 4 * k + 4)
           IN  /\ s \in Seq(Nat) /\ Len(s) = 4 /\ 4 * k + 4 <= Len(mem)
               /\ \A i \in 1 .. 4 : s[i] = bytes[4 * k + i]
<1>1. bytes \in Seq(Nat) /\ Len(bytes) = 4 * PageCount /\ PageCount \in Nat /\ 4 * PageCount <= Len(mem)
  BY Going
<1> DEFINE e == 4 * k
<1>2. e \in Nat /\ 4 \in Nat /\ e + 4 <= Len(bytes) /\ e + 4 <= Len(mem)
  <2>1. Len(mem) \in Nat
    BY LenProperties DEF MemoryInv, MemTypeOK
  <2> QED
    BY <1>1, <2>1
<1> HIDE DEF e
<1>3. /\ SubSeq(bytes, e + 1, e + 4) \in Seq(Nat) /\ Len(SubSeq(bytes, e + 1, e + 4)) = 4
      /\ \A i \in 1 .. 4 : SubSeq(bytes, e + 1, e + 4)[i] = bytes[e + i]
  BY <1>1, <1>2, Slices
<1> QED
  BY <1>2, <1>3 DEF e

\* Then come the pages behind the message's first.
LEMMA MiddlePage == MemoryInv /\ WritePage /\ next # 0 /\ next # PageCount - Commit => MemoryInv'
<1> SUFFICES ASSUME MemoryInv, WritePage, next # 0, next # PageCount - Commit PROVE MemoryInv'
  OBVIOUS
<1>1. /\ userBytes \in Nat /\ userBytes >= 4 /\ Len(mem) = userBytes /\ next \in Nat
      /\ Starts(mem, prefix) /\ PageCount \in Nat /\ PageCount > Commit /\ 4 * PageCount <= userBytes
      /\ (prefix = 0 /\ Commit = 0) \/ (prefix = 5 /\ Commit = 1 /\ userBytes = 144)
      /\ next # Off
  <2>1. next # Off
    BY DEF WritePage
  <2> QED
    BY <2>1, Going
<1>2. next < PageCount - Commit /\ next >= 1 /\ Commit \in {0, 1}
  BY <1>1 DEF WritePage, done
<1> DEFINE p == next + Commit
           s == SubSeq(bytes, 4 * p + 1, 4 * p + 4)
<1>3. p \in Nat /\ p < PageCount /\ p > Commit
  BY <1>1, <1>2
<1>4. Page = <<p, s>>
  BY DEF Page, Image
<1> HIDE DEF p
<1>5. s \in Seq(Nat) /\ Len(s) = 4 /\ 4 * p + 4 <= Len(mem) /\ \A i \in 1 .. 4 : s[i] = bytes[4 * p + i]
  BY <1>1, <1>3, PageOfImage
<1> HIDE DEF s
<1>6. /\ mem' \in Seq(Nat) /\ Len(mem') = userBytes
      /\ \A i \in 1 .. 4 : mem'[4 * p + i] = s[i]
      /\ \A i \in 1 .. userBytes : i <= 4 * p \/ i > 4 * p + 4 => mem'[i] = mem[i]
  BY <1>3, <1>4, <1>5, PageWritten
<1>7. /\ mem[prefix + 1] = 3 /\ mem[prefix + 2] = 0 /\ mem[prefix + 3] = Terminator /\ Sent
  <2>1. next \in 1 .. PageCount - Commit
    BY <1>1, <1>2
  <2>2. mem[prefix + 2] = 0 /\ mem[prefix + 3] = Terminator /\ Sent
    BY <1>1, <1>2, <2>1 DEF MemoryInv, Underway
  <2>3. mem[prefix + 1] = 3
    BY <1>1 DEF Starts
  <2> QED
    BY <2>2, <2>3
<1>8. /\ mem'[prefix + 1] = 3 /\ mem'[prefix + 2] = 0 /\ mem'[prefix + 3] = Terminator
      /\ prefix + 3 <= userBytes /\ Starts(mem', prefix)
  <2>1. CASE prefix = 0 /\ Commit = 0
    <3>1. \A i \in 1 .. 3 : i \in 1 .. userBytes /\ i <= 4 * p
      BY <1>1, <1>3, <2>1
    <3>2. mem'[1] = mem[1] /\ mem'[2] = mem[2] /\ mem'[3] = mem[3]
      BY <1>6, <3>1
    <3> QED
      BY <1>1, <1>7, <2>1, <3>2 DEF Starts
  <2>2. CASE prefix = 5 /\ Commit = 1 /\ userBytes = 144
    <3>1. /\ mem'[1] = mem[1] /\ mem'[2] = mem[2] /\ mem'[3] = mem[3] /\ mem'[4] = mem[4]
          /\ mem'[5] = mem[5] /\ mem'[6] = mem[6] /\ mem'[7] = mem[7] /\ mem'[8] = mem[8]
      BY <1>3, <1>6, <2>2
    <3> QED
      BY <1>1, <1>7, <2>2, <3>1 DEF Starts
  <2> QED
    BY <1>1, <2>1, <2>2
<1>9. ASSUME NEW k \in Commit + 1 .. Commit + next, k < PageCount, NEW i \in 1 .. 4
      PROVE  mem'[4 * k + i] = bytes[4 * k + i]
  <2>1. CASE k = p
    BY <1>5, <1>6, <2>1
  <2>2. CASE k # p
    <3>1. k \in Nat /\ k < p /\ k \in Commit + 1 .. Commit + next - 1
      BY <1>1, <1>2, <1>9, <2>2 DEF p
    <3>2. 4 * k + i \in 1 .. userBytes /\ 4 * k + i <= 4 * p
      BY <1>1, <1>3, <1>9, <3>1
    <3>3. mem'[4 * k + i] = mem[4 * k + i]
      BY <1>6, <3>2
    <3>4. mem[4 * k + i] = bytes[4 * k + i]
      BY <1>7, <1>9, <3>1 DEF Sent
    <3> QED
      BY <3>3, <3>4
  <2> QED
    BY <2>1, <2>2
<1> QED
  BY <1>2, <1>6, <1>8, <1>9, PageKept

\* The message's own page, with its length, comes last.
LEMMA LastPage == MemoryInv /\ WritePage /\ next # 0 /\ next = PageCount - Commit => MemoryInv'
<1> SUFFICES ASSUME MemoryInv, WritePage, next # 0, next = PageCount - Commit PROVE MemoryInv'
  OBVIOUS
<1>1. /\ userBytes \in Nat /\ userBytes >= 4 /\ Len(mem) = userBytes /\ next \in Nat
      /\ Starts(mem, prefix) /\ PageCount \in Nat /\ PageCount > Commit /\ 4 * PageCount <= userBytes
      /\ (prefix = 0 /\ Commit = 0) \/ (prefix = 5 /\ Commit = 1 /\ userBytes = 144)
      /\ next # Off
  <2>1. next # Off
    BY DEF WritePage
  <2> QED
    BY <2>1, Going
<1>2. (\A i \in 1 .. prefix : bytes[i] = LockControl[i]) /\ bytes[prefix + 1] = 3
  BY <1>1, Going
<1>3. Commit \in Nat /\ Commit < PageCount
  BY <1>1
<1> DEFINE s == SubSeq(bytes, 4 * Commit + 1, 4 * Commit + 4)
<1>4. Page = <<Commit, s>>
  BY DEF Page, Image
<1>5. /\ s \in Seq(Nat) /\ Len(s) = 4 /\ 4 * Commit + 4 <= Len(mem)
      /\ \A i \in 1 .. 4 : s[i] = bytes[4 * Commit + i]
  BY <1>1, <1>3, PageOfImage
<1> HIDE DEF s
<1>6. /\ mem' \in Seq(Nat) /\ Len(mem') = userBytes
      /\ \A i \in 1 .. 4 : mem'[4 * Commit + i] = s[i]
      /\ \A i \in 1 .. userBytes : i <= 4 * Commit \/ i > 4 * Commit + 4 => mem'[i] = mem[i]
  BY <1>3, <1>4, <1>5, PageWritten
<1>7. Sent
  BY <1>1 DEF MemoryInv, Underway
<1>8. Starts(mem', prefix)
  <2>1. CASE prefix = 0 /\ Commit = 0
    <3>1. mem'[1] = bytes[1] /\ bytes[1] = 3
      BY <1>2, <1>5, <1>6, <2>1
    <3> QED
      BY <2>1, <3>1 DEF Starts
  <2>2. CASE prefix = 5 /\ Commit = 1 /\ userBytes = 144
    <3>1. /\ mem'[1] = mem[1] /\ mem'[2] = mem[2] /\ mem'[3] = mem[3] /\ mem'[4] = mem[4]
          /\ mem'[5] = bytes[5] /\ mem'[6] = bytes[6]
      <4>1. \A i \in 1 .. 4 : i \in 1 .. userBytes /\ i <= 4 * Commit
        BY <2>2
      <4>2. mem'[1] = mem[1] /\ mem'[2] = mem[2] /\ mem'[3] = mem[3] /\ mem'[4] = mem[4]
        BY <1>6, <4>1
      <4>3. \A i \in 1 .. 4 : mem'[4 * Commit + i] = bytes[4 * Commit + i]
        BY <1>5, <1>6
      <4>4. mem'[5] = bytes[5] /\ mem'[6] = bytes[6]
        BY <2>2, <4>3
      <4> QED
        BY <4>2, <4>4
    <3>2. bytes[5] = LockControl[5] /\ bytes[6] = 3 /\ LockControl[5] = 52
      BY <1>2, <2>2 DEF LockControl
    <3> QED
      BY <1>1, <2>2, <3>1, <3>2 DEF Starts
  <2> QED
    BY <1>1, <2>1, <2>2
<1>9. ASSUME NEW k \in Commit .. PageCount - 1, NEW i \in 1 .. 4
      PROVE  mem'[4 * k + i] = bytes[4 * k + i]
  <2>1. CASE k = Commit
    BY <1>5, <1>6, <2>1
  <2>2. CASE k # Commit
    <3>1. k \in Nat /\ k > Commit /\ k < PageCount /\ k \in Commit + 1 .. Commit + next - 1
      BY <1>1, <1>3, <1>9, <2>2
    <3>2. 4 * k + i \in 1 .. userBytes /\ 4 * k + i > 4 * Commit + 4
      BY <1>1, <1>3, <1>9, <3>1
    <3>3. mem'[4 * k + i] = mem[4 * k + i]
      BY <1>6, <3>2
    <3>4. mem[4 * k + i] = bytes[4 * k + i]
      BY <1>7, <1>9, <3>1 DEF Sent
    <3> QED
      BY <3>3, <3>4
  <2> QED
    BY <2>1, <2>2
<1> QED
  BY <1>6, <1>8, <1>9, PageKept

LEMMA EndKeeps == MemoryInv /\ (End \/ UNCHANGED ntagVars) => MemoryInv'
<1> SUFFICES ASSUME MemoryInv, End \/ UNCHANGED ntagVars PROVE MemoryInv'
  OBVIOUS
<1>1. UNCHANGED <<userBytes, mem, goal, bytes, prefix, writes, old>> /\ next' \in {Off, next}
  BY DEF End, ntagVars
<1>2. /\ Content(mem)' = Content(mem) /\ PrefixOf(mem)' = PrefixOf(mem)
      /\ Inspected(mem, prefix)' = Inspected(mem, prefix) /\ EndsThere(mem, prefix)' = EndsThere(mem, prefix)
      /\ Starts(mem, prefix)' = Starts(mem, prefix)
  BY <1>1 DEF Content, PrefixOf, Inspected, EndsThere, LengthBytes, MessageBytes, TerminatorAt, Starts
<1>3. MemTypeOK' /\ NeverMixed'
  BY <1>1, <1>2 DEF MemoryInv, MemTypeOK, NeverMixed
<1>4. StaysWritable'
  <2> DEFINE p == Len(PrefixOf(mem))
  <2>1. p' = p
    BY <1>2
  <2>2. Inspected(mem, p)' = Inspected(mem, p) /\ EndsThere(mem, p)' = EndsThere(mem, p)
    BY <1>1, <2>1 DEF Inspected, EndsThere, LengthBytes, MessageBytes, TerminatorAt
  <2>3. (userBytes = 144 /\ prefix # 0 => p = prefix) /\ Inspected(mem, p) /\ EndsThere(mem, p)
    BY DEF MemoryInv, StaysWritable
  <2>4. (userBytes' = 144 /\ prefix' # 0 => p' = prefix') /\ Inspected(mem, p)' /\ EndsThere(mem, p)'
    BY <1>1, <2>1, <2>2, <2>3
  <2> QED
    BY <2>4 DEF StaysWritable
<1>5. Underway'
  <2>1. CASE next' = Off
    BY <2>1 DEF Underway
  <2>2. CASE next' = next
    BY <1>1, <1>2, <2>2 DEF MemoryInv, Underway, Sent, Commit, PageCount, done
  <2> QED
    BY <1>1, <2>1, <2>2
<1> QED
  BY <1>3, <1>4, <1>5 DEF MemoryInv

LEMMA MemoryKeeps == MemoryInv /\ [MemoryNext]_ntagVars => MemoryInv'
BY BeginKeeps, FirstPage, MiddlePage, LastPage, EndKeeps DEF MemoryNext, NoMore

\* What is asked of a card's memory follows.
LEMMA MemoryIsSafe == MemoryInv => WritesAreSafe
<1> SUFFICES ASSUME MemoryInv, next # Off, done PROVE Content(mem) = Written(goal)
  BY DEF MemoryInv, WritesAreSafe, DoneIsWritten
<1>1. /\ mem \in Seq(Nat) /\ Len(mem) = userBytes /\ Starts(mem, prefix) /\ next \in Nat
      /\ PageCount \in Nat /\ PageCount > Commit /\ next <= PageCount - Commit + 1
      /\ (prefix = 0 /\ Commit = 0) \/ (prefix = 5 /\ Commit = 1 /\ userBytes = 144)
  BY Going
<1>2. next = PageCount - Commit + 1 /\ next # 0 /\ Commit \in Nat
  BY <1>1 DEF done
<1>3. Sent
  BY <1>2 DEF MemoryInv, Underway
<1>4. ASSUME NEW k \in Commit .. PageCount - 1, NEW i \in 1 .. 4
      PROVE  mem[4 * k + i] = bytes[4 * k + i]
  <2>1. k = Commit \/ (k \in Commit + 1 .. Commit + next - 1 /\ k < PageCount)
    BY <1>1, <1>2
  <2> QED
    BY <1>3, <2>1 DEF Sent
<1> QED
  BY <1>1, <1>4, Complete

\* Whatever card is written over whatever was found, and wherever the write is torn: the card
\* holds what it held, nothing, or the whole of the new text, the finished write leaves the new
\* text, and the next write finds where the message is and ends.
THEOREM MemoriesAreSafe == MemorySpec => []WritesAreSafe
<1>1. MemoryInv /\ [MemoryNext]_ntagVars => MemoryInv'
  BY MemoryKeeps
<1> QED
  BY <1>1, MemoryBegins, MemoryIsSafe, PTL DEF MemorySpec
===============================================================================

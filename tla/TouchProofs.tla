----------------------------- MODULE TouchProofs -----------------------------
(***************************************************************************)
(* The touch model for every list of rooms, queue and page size: a gesture *)
(* acts on what it was begun on, and on no screen but its own.             *)
(***************************************************************************)
EXTENDS Touch, TLAPS

-----------------------------------------------------------------------------
\* The values of the variables

RoomNames == {"None"} \cup UNION {{list[i] : i \in 1 .. Len(list)} : list \in RoomLists}
TrackNames == {"None"} \cup Tracks
RevisionNames == {"None"} \cup Revisions

PageType == [room : RoomNames, start : Int, total : Nat, rev : Revisions]
SeenType == [room : RoomNames, track : TrackNames, rev : RevisionNames, fresh : BOOLEAN,
             recovery : BOOLEAN, page : SUBSET PageType, error : BOOLEAN]
AppType == [seen : SeenType, rooms : RoomLists, job : {"None", "Page", "User"}, start : Nat,
            rendered : BOOLEAN, net : {"Ready", "Offline", "Recovering"}]

Kinds == {"None", "RoomHeader", "Play", "Volume", "Seek", "Queue", "Back", "Reload",
          "PageBack", "PageNext", "Row"}
Tops == {"Now", "Grouping", "Playground"}
Views == {"Now", "Rooms", "Queue"}
ControlType == [kind : Kinds, row : 0 .. PageSize - 1]
Meanings == [room : RoomNames, rev : SUBSET Revisions, index : Int]
BeganType == [top : Tops \cup {"None"}, screen : Views \cup {"None"}, control : ControlType,
              room : RoomNames, track : TrackNames, rev : RevisionNames,
              means : SUBSET Meanings]
UiType == [top : Tops, screen : Views, shown : Views, contact : ControlType,
           touching : BOOLEAN, cancelled : BOOLEAN, held : BOOLEAN,
           interaction : SUBSET [field : Kinds, room : RoomNames, of : TrackNames],
           began : BeganType, queueStart : Nat, roomStart : Nat,
           queueRequested : BOOLEAN, sawBusy : BOOLEAN, seen : SeenType,
           rooms : RoomLists \cup {<<>>}, busy : BOOLEAN, online : BOOLEAN]
EventType == [input : {"Intent", "QueuePage", "RoomSelect", "Refresh"},
              kind : Kinds \cup {"Page", "Rooms"}, target : RoomNames, track : TrackNames,
              rev : RevisionNames, means : SUBSET Meanings, start : Nat]

-----------------------------------------------------------------------------
\* The inductive invariant

\* There is one page at most, and it is of the revision that is shown with it.
PageOfRevision(s) ==
  /\ \A p, q \in s.page : p = q
  /\ \A p \in s.page : p.rev = s.rev /\ p.total = Length[p.rev]

\* InRangeNow, of a state of the touch model.
InRangeOf(u) ==
  /\ \A p \in Page(u) : u.queueStart = 0 \/ u.queueStart < p.total
  /\ u.roomStart = 0 \/ u.roomStart < Len(u.rooms)

Meant(u) == IF u.contact.kind = "Row" THEN RowMeans(u, u.contact.row) ELSE {}

\* What a finger that is down began on is still there, and so is its preview.
GestureKept(u) ==
  /\ u.touching =>
       /\ ~u.cancelled
       /\ u.began.room = u.seen.room /\ u.began.track = u.seen.track
       /\ u.began.rev = u.seen.rev
  /\ u.touching /\ u.contact # NoControl =>
       /\ u.began.top = u.top /\ u.began.screen = u.screen /\ u.began.control = u.contact
       /\ u.began.means = Meant(u)
  /\ \A i \in u.interaction :
       u.touching /\ ~u.cancelled /\ i.room = u.seen.room /\ i.of = u.seen.track

UiOK(u) == u \in UiType /\ PageOfRevision(u.seen) /\ InRangeOf(u) /\ GestureKept(u)

\* An event is of the gesture it ends.
Acts(b, e) ==
  e.input \in {"Intent", "RoomSelect"} =>
    /\ b.room = e.target /\ b.control.kind = e.kind /\ e.means = b.means
    /\ e.input = "Intent" => /\ e.track = b.track /\ e.rev = b.rev
                             /\ e.kind = "Row" => \A m \in b.means : m.rev = {e.rev}

AppOK == app \in AppType /\ PageOfRevision(app.seen)
OutOK == ActsOnWhatItBegan /\ AdmittedForWhatIsThere

IInv == AppOK /\ UiOK(ui) /\ OutOK

-----------------------------------------------------------------------------
\* Lists, pages and numbers

LEMMA ListsOK ==
  /\ <<>> \in Seq(RoomNames)
  /\ \A list \in RoomLists : list \in Seq(RoomNames) /\ Len(list) \in Nat /\ Len(list) > 0
<1> SUFFICES ASSUME NEW list \in RoomLists
             PROVE  list \in Seq(RoomNames) /\ Len(list) \in Nat /\ Len(list) > 0
  OBVIOUS
<1>1. list \in Seq({list[i] : i \in 1 .. Len(list)}) /\ Len(list) > 0
  BY TouchAssumption
<1>2. {list[i] : i \in 1 .. Len(list)} \subseteq RoomNames
  BY DEF RoomNames
<1> QED
  BY <1>1, <1>2

LEMMA RoomOfList ==
  ASSUME NEW list \in RoomLists \cup {<<>>}, NEW i \in 1 .. Len(list)
  PROVE  list[i] \in RoomNames
BY ListsOK DEF RoomNames

LEMMA Multiple ==
  ASSUME NEW a \in Nat
  PROVE  (a \div PageSize) * PageSize \in Nat /\ (a \div PageSize) * PageSize <= a
<1>1. PageSize \in Nat /\ PageSize > 0
  BY TouchAssumption
<1> QED
  BY <1>1, SMTT(20)

LEMMA ControlsOK ==
  /\ NoControl \in ControlType /\ RowControls \subseteq ControlType
  /\ \A k \in Kinds : Control(k) \in ControlType
  /\ NoGesture \in BeganType
<1>1. 0 \in 0 .. PageSize - 1
  BY TouchAssumption
<1> QED
  BY <1>1 DEF NoControl, Control, RowControls, ControlType, Kinds, NoGesture, BeganType,
              RoomNames, TrackNames, RevisionNames

\* What a row stands for is a room of the list or an item of the revision on display.
LEMMA RowMeansOK ==
  ASSUME NEW u \in UiType, PageOfRevision(u.seen), NEW i \in 0 .. PageSize - 1
  PROVE  /\ RowMeans(u, i) \subseteq Meanings
         /\ u.screen = "Queue" => \A m \in RowMeans(u, i) : m.rev = {u.seen.rev}
<1>1. i \in Nat /\ u.roomStart \in Nat /\ u.screen \in Views /\ u.rooms \in RoomLists \cup {<<>>}
  BY TouchAssumption DEF UiType
<1>2. CASE u.screen = "Rooms" /\ u.roomStart + i < Len(u.rooms)
  <2>1. u.roomStart + i + 1 \in 1 .. Len(u.rooms)
    BY <1>1, <1>2, ListsOK
  <2>2. u.rooms[u.roomStart + i + 1] \in RoomNames
    BY <1>1, <2>1, RoomOfList
  <2> QED
    BY <1>2, <2>2 DEF RowMeans, Meanings
<1>3. CASE u.screen = "Queue"
  <2>1. Page(u) \subseteq PageType /\ \A p \in Page(u) : p.rev = u.seen.rev
    BY DEF Page, UiType, SeenType, PageOfRevision
  <2> QED
    BY <1>1, <1>3, <2>1 DEF RowMeans, Meanings, PageType
<1>4. CASE u.screen # "Queue" /\ ~(u.screen = "Rooms" /\ u.roomStart + i < Len(u.rooms))
  BY <1>4 DEF RowMeans
<1> QED
  BY <1>2, <1>3, <1>4

\* A row stands for the same as long as its list stays.
LEMMA RowMeansSame ==
  ASSUME NEW u, NEW v, NEW i,
         v.screen = u.screen /\ v.seen.room = u.seen.room,
         u.screen = "Rooms" => v.rooms = u.rooms /\ v.roomStart = u.roomStart,
         u.screen = "Queue" => v.seen.page = u.seen.page /\ v.queueStart = u.queueStart
  PROVE  RowMeans(v, i) = RowMeans(u, i)
<1>1. CASE u.screen = "Queue"
  <2>1. Page(v) = Page(u)
    BY <1>1 DEF Page
  <2> QED
    BY <1>1, <2>1 DEF RowMeans
<1>2. CASE u.screen # "Queue"
  BY <1>2 DEF RowMeans
<1> QED
  BY <1>1, <1>2

-----------------------------------------------------------------------------
\* What the model does without a finger

Idle(u) == UiOK(u) /\ ~u.touching

\* A cancelled touch leaves nothing of its gesture.
LEMMA CancelOK ==
  ASSUME NEW u, UiOK(u)
  PROVE  /\ Idle(cancelTouch(u))
         /\ cancelTouch(u).seen = u.seen /\ cancelTouch(u).rooms = u.rooms
         /\ cancelTouch(u).queueStart = u.queueStart /\ cancelTouch(u).roomStart = u.roomStart
<1> DEFINE v == cancelTouch(u)
<1>1. v \in UiType
  BY ControlsOK DEF UiOK, UiType, cancelTouch
<1>2. /\ v.seen = u.seen /\ v.rooms = u.rooms /\ v.queueStart = u.queueStart
      /\ v.roomStart = u.roomStart /\ ~v.touching /\ v.interaction = {}
  BY DEF UiOK, UiType, cancelTouch
<1>3. InRangeOf(v)
  BY <1>2 DEF UiOK, InRangeOf, Page
<1> QED
  BY <1>1, <1>2, <1>3 DEF Idle, UiOK, GestureKept

\* Without a finger, a change of view or of a mark is of no consequence.
LEMMA IdleKept ==
  ASSUME NEW u, Idle(u), NEW v \in UiType,
         ~v.touching, v.interaction = {},
         v.seen = u.seen \/ v.seen = [u.seen EXCEPT !.page = {}, !.error = FALSE],
         v.rooms = u.rooms,
         v.roomStart \in {u.roomStart, 0} \/ v.roomStart < Len(v.rooms),
         \/ v.queueStart = u.queueStart \/ v.seen.page = {}
         \/ \A p \in v.seen.page : v.queueStart = 0 \/ v.queueStart < p.total
  PROVE  Idle(v)
<1>1. PageOfRevision(v.seen)
  BY DEF Idle, UiOK, PageOfRevision, UiType, SeenType
<1>2. InRangeOf(v)
  <2>1. \A p \in Page(v) : v.queueStart = 0 \/ v.queueStart < p.total
    BY DEF Idle, UiOK, UiType, SeenType, InRangeOf, Page
  <2>2. v.roomStart = 0 \/ v.roomStart < Len(v.rooms)
    BY DEF Idle, UiOK, InRangeOf
  <2> QED
    BY <2>1, <2>2 DEF InRangeOf
<1> QED
  BY <1>1, <1>2 DEF Idle, UiOK, GestureKept

-----------------------------------------------------------------------------
\* What a control does once its finger is up

\* The result of a control, for the gesture b that ends with it.
ResultOK(r, b) ==
  /\ Idle(r.ui) /\ r.event \subseteq EventType
  /\ \A e \in r.event : Acts(b, e) /\ (e.input = "RoomSelect" => e.means # {})

\* The gesture b was begun on the control chosen, with what u still shows.
BegunOn(b, u, chosen) ==
  /\ b.room = u.seen.room /\ b.track = u.seen.track /\ b.rev = u.seen.rev
  /\ b.control = chosen
  /\ b.means = IF chosen.kind = "Row" THEN RowMeans(u, chosen.row) ELSE {}

LEMMA EventOK ==
  ASSUME NEW u, UiOK(u), NEW input \in {"Intent", "QueuePage", "RoomSelect", "Refresh"},
         NEW kind \in Kinds \cup {"Page", "Rooms"}
  PROVE  /\ Event(u, input, kind) \in EventType
         /\ \A means \in SUBSET Meanings :
              [Event(u, input, kind) EXCEPT !.means = means] \in EventType
BY DEF UiOK, UiType, SeenType, Event, EventType

LEMMA NothingOK ==
  ASSUME NEW u, Idle(u), NEW b
  PROVE  ResultOK(Nothing(u), b)
BY DEF ResultOK, Nothing

LEMMA RequestOK ==
  ASSUME NEW u, Idle(u), NEW b
  PROVE  ResultOK(requestQueue(u), b)
<1> DEFINE v == [u EXCEPT !.queueRequested = TRUE, !.sawBusy = FALSE]
<1>1. UiOK(u) /\ u \in UiType /\ ~u.touching /\ u.interaction = {}
  BY DEF Idle, UiOK, UiType, GestureKept
<1>2. v \in UiType
  BY <1>1 DEF UiType
<1>3. /\ ~v.touching /\ v.interaction = {} /\ v.seen = u.seen /\ v.rooms = u.rooms
      /\ v.roomStart = u.roomStart /\ v.queueStart = u.queueStart
  BY <1>1 DEF UiType
<1>4. Idle(v)
  BY <1>2, <1>3, IdleKept
<1>5. Event(u, "QueuePage", "Page") \in EventType
  BY <1>1, EventOK
<1>6. Event(u, "QueuePage", "Page").input = "QueuePage"
  BY DEF Event
<1>7. ResultOK([ui |-> v, event |-> {Event(u, "QueuePage", "Page")}], b)
  BY <1>4, <1>5, <1>6 DEF ResultOK, Acts
<1> QED
  BY <1>7, NothingOK DEF requestQueue

LEMMA MutationOK ==
  ASSUME NEW u, Idle(u), NEW b, NEW e \in EventType, e.input = "Intent", Acts(b, e)
  PROVE  ResultOK(mutation(u, e), b)
BY DEF mutation, ResultOK

\* A forgotten page is asked for again.
LEMMA AfreshOK ==
  ASSUME NEW u, Idle(u), NEW start \in Nat
  PROVE  Idle(Afresh([u EXCEPT !.queueStart = start]))
<1> DEFINE v == Afresh([u EXCEPT !.queueStart = start])
<1>1. u \in UiType /\ ~u.touching /\ u.interaction = {}
  BY DEF Idle, UiOK, GestureKept, UiType
<1>2. /\ v \in UiType /\ ~v.touching /\ v.interaction = {}
      /\ v.seen = [u.seen EXCEPT !.page = {}, !.error = FALSE]
      /\ v.rooms = u.rooms /\ v.roomStart = u.roomStart
  BY <1>1 DEF UiType, SeenType, Afresh
<1>3. v.seen.page = {}
  BY <1>1, <1>2 DEF UiType, SeenType
<1> QED
  BY <1>2, <1>3, IdleKept

LEMMA PageByOK ==
  ASSUME NEW u, Idle(u), NEW forward \in BOOLEAN, NEW b
  PROVE  ResultOK(PageBy(u, forward), b)
<1> DEFINE step == IF forward THEN PageSize ELSE -PageSize
           more == IF u.screen = "Rooms" THEN u.roomStart + PageSize < Len(u.rooms)
                   ELSE \E p \in Page(u) : u.queueStart + PageSize < p.total
           start == IF u.screen = "Rooms" THEN u.roomStart ELSE u.queueStart
           can == IF forward THEN more ELSE start >= PageSize
<1>1. /\ u \in UiType /\ ~u.touching /\ u.interaction = {}
      /\ u.roomStart \in Nat /\ u.queueStart \in Nat /\ PageSize \in Nat /\ PageSize > 0
  BY TouchAssumption DEF Idle, UiOK, GestureKept, UiType
<1>2. CASE ~can
  BY <1>2, NothingOK DEF PageBy
<1>3. CASE can /\ u.screen = "Rooms"
  <2> DEFINE v == [u EXCEPT !.roomStart = u.roomStart + step]
  <2>1. u.roomStart + step \in Nat
    BY <1>1, <1>3
  <2>2. u.roomStart + step < Len(u.rooms) \/ u.roomStart + step = 0
    <3>1. Len(u.rooms) \in Nat
      BY <1>1, ListsOK DEF UiType
    <3>2. u.roomStart = 0 \/ u.roomStart < Len(u.rooms)
      BY DEF Idle, UiOK, InRangeOf
    <3> QED
      BY <1>1, <1>3, <3>1, <3>2
  <2>3. /\ v \in UiType /\ ~v.touching /\ v.interaction = {} /\ v.seen = u.seen
        /\ v.rooms = u.rooms /\ v.queueStart = u.queueStart /\ v.roomStart = u.roomStart + step
    BY <1>1, <2>1 DEF UiType
  <2>4. Idle(v)
    BY <2>2, <2>3, IdleKept
  <2>5. PageBy(u, forward) = Nothing(v)
    BY <1>3 DEF PageBy
  <2> QED
    BY <2>4, <2>5, NothingOK
<1>4. CASE can /\ u.screen # "Rooms"
  <2>1. u.queueStart + step \in Nat
    BY <1>1, <1>4
  <2>2. Idle(Afresh([u EXCEPT !.queueStart = u.queueStart + step]))
    BY <2>1, AfreshOK
  <2>3. PageBy(u, forward) = IF u.busy THEN Nothing(u) ELSE
          requestQueue(Afresh([u EXCEPT !.queueStart = u.queueStart + step]))
    BY <1>4 DEF PageBy
  <2> QED
    BY <2>2, <2>3, NothingOK, RequestOK
<1> QED
  BY <1>2, <1>3, <1>4

\* The items a queue may be opened at.
Indices(u) == {0} \cup (IF u.seen.rev = "None" THEN {} ELSE 0 .. Length[u.seen.rev] - 1)

LEMMA OnQueueOK ==
  ASSUME NEW u, Idle(u), NEW index \in Indices(u), NEW b
  PROVE  ResultOK(OnQueue(u, (index \div PageSize) * PageSize), b)
<1> DEFINE start == (index \div PageSize) * PageSize
           v == [u EXCEPT !.screen = "Queue", !.queueStart = start, !.queueRequested = FALSE]
<1>1. /\ u \in UiType /\ u.seen \in SeenType /\ PageOfRevision(u.seen)
      /\ ~u.touching /\ u.interaction = {}
  BY DEF Idle, UiOK, GestureKept, UiType
<1>2. index \in Nat
  BY <1>1, TouchAssumption DEF Indices, SeenType, RevisionNames
<1>3. start \in Nat /\ start <= index
  BY <1>2, Multiple
<1>4. /\ v \in UiType /\ ~v.touching /\ v.interaction = {} /\ v.seen = u.seen
      /\ v.rooms = u.rooms /\ v.roomStart = u.roomStart /\ v.queueStart = start
  BY <1>1, <1>3 DEF UiType, Views
<1>5. \A p \in v.seen.page : start = 0 \/ start < p.total
  <2> SUFFICES ASSUME NEW p \in u.seen.page PROVE start = 0 \/ start < p.total
    BY <1>4
  <2>1. p.rev = u.seen.rev /\ p.total = Length[u.seen.rev] /\ p.rev \in Revisions
    BY <1>1 DEF PageOfRevision, SeenType, PageType
  <2>2. Length[u.seen.rev] \in Nat
    BY <2>1, TouchAssumption
  <2>3. index = 0 \/ index <= Length[u.seen.rev] - 1
    BY <2>2 DEF Indices
  <2> HIDE DEF start
  <2> QED
    BY <1>2, <1>3, <2>1, <2>2, <2>3
<1>6. Idle(v)
  BY <1>4, <1>5, IdleKept
<1> QED
  BY <1>6, RequestOK DEF OnQueue

LEMMA OnReloadOK ==
  ASSUME NEW u, Idle(u), NEW b
  PROVE  ResultOK(OnReload(u), b)
<1>1. u \in UiType /\ UiOK(u) /\ u.queueStart \in Nat
  BY DEF Idle, UiOK, UiType
<1>2. Event(u, "Refresh", "Rooms") \in EventType /\ Event(u, "Refresh", "Rooms").input = "Refresh"
  BY <1>1, EventOK DEF Event
<1>3. ResultOK([ui |-> u, event |-> {Event(u, "Refresh", "Rooms")}], b)
  BY <1>2 DEF ResultOK, Acts
<1>4. [u EXCEPT !.queueStart = u.queueStart] = u
  BY <1>1 DEF UiType
<1>5. Idle(Afresh(u))
  BY <1>1, <1>4, AfreshOK
<1> QED
  BY <1>3, <1>5, NothingOK, RequestOK DEF OnReload

\* A row selects the room or plays the item its gesture was put on.
LEMMA OnRowOK ==
  ASSUME NEW u, Idle(u), NEW i \in 0 .. PageSize - 1, NEW b, NEW chosen \in ControlType,
         chosen.kind = "Row", chosen.row = i, BegunOn(b, u, chosen)
  PROVE  ResultOK(OnRow(u, i), b)
<1>1. /\ u \in UiType /\ UiOK(u) /\ PageOfRevision(u.seen) /\ ~u.touching /\ u.interaction = {}
      /\ RowMeans(u, i) \in SUBSET Meanings /\ u.screen \in Views
      /\ b.means = RowMeans(u, i)
  BY RowMeansOK DEF Idle, UiOK, GestureKept, UiType, BegunOn
<1>2. CASE RowMeans(u, i) = {}
  BY <1>2, NothingOK DEF OnRow
<1>3. CASE RowMeans(u, i) # {} /\ u.screen = "Rooms"
  <2> DEFINE e == [Event(u, "RoomSelect", "Row") EXCEPT !.means = RowMeans(u, i)]
             v == [u EXCEPT !.screen = "Now"]
  <2>1. e \in EventType
    BY <1>1, EventOK DEF Kinds
  <2>2. Acts(b, e) /\ e.means # {}
    BY <1>1, <1>3 DEF Acts, Event, BegunOn
  <2>3. /\ v \in UiType /\ ~v.touching /\ v.interaction = {} /\ v.seen = u.seen
        /\ v.rooms = u.rooms /\ v.roomStart = u.roomStart /\ v.queueStart = u.queueStart
    BY <1>1 DEF UiType, Views
  <2>4. Idle(v)
    BY <2>3, IdleKept
  <2>5. ResultOK([ui |-> v, event |-> {e}], b)
    BY <2>1, <2>2, <2>4 DEF ResultOK
  <2> QED
    BY <1>3, <2>5, NothingOK DEF OnRow
<1>4. CASE RowMeans(u, i) # {} /\ u.screen # "Rooms"
  <2> DEFINE e == [Event(u, "Intent", "Row") EXCEPT !.means = RowMeans(u, i)]
  <2>1. e \in EventType
    BY <1>1, EventOK DEF Kinds
  <2>2. u.screen = "Queue"
    BY <1>4 DEF RowMeans
  <2>3. \A m \in RowMeans(u, i) : m.rev = {u.seen.rev}
    BY <1>1, <2>2, RowMeansOK
  <2>4. /\ e.input = "Intent" /\ e.kind = "Row" /\ e.target = u.seen.room
        /\ e.track = u.seen.track /\ e.rev = u.seen.rev /\ e.means = RowMeans(u, i)
    BY DEF Event
  <2>5. Acts(b, e)
    BY <1>1, <2>3, <2>4 DEF Acts, BegunOn
  <2> HIDE DEF e
  <2>6. ResultOK(mutation(u, e), b)
    BY <2>1, <2>4, <2>5, MutationOK
  <2> QED
    BY <1>4, <2>6, NothingOK DEF OnRow, e
<1> QED
  BY <1>2, <1>3, <1>4

\* A control that is not a row submits its own kind, with nothing meant by a row.
LEMMA SubmitOK ==
  ASSUME NEW u, Idle(u), NEW b, NEW chosen \in ControlType, chosen.kind # "Row",
         BegunOn(b, u, chosen)
  PROVE  ResultOK(mutation(u, Event(u, "Intent", chosen.kind)), b)
<1> DEFINE e == Event(u, "Intent", chosen.kind)
<1>1. e \in EventType
  BY EventOK DEF Idle, ControlType
<1>2. e.input = "Intent" /\ Acts(b, e)
  BY DEF Event, Acts, BegunOn
<1> HIDE DEF e
<1> QED
  BY <1>1, <1>2, MutationOK DEF e

LEMMA OnSliderOK ==
  ASSUME NEW u, Idle(u), NEW b, NEW chosen \in ControlType, chosen.kind # "Row",
         BegunOn(b, u, chosen), NEW preview
  PROVE  ResultOK(OnSlider(u, chosen.kind, preview), b)
BY SubmitOK, NothingOK DEF OnSlider

LEMMA CompletedOK ==
  ASSUME NEW u, Idle(u), NEW b, NEW chosen \in ControlType,
         chosen # NoControl => BegunOn(b, u, chosen), NEW preview, NEW index \in Indices(u)
  PROVE  ResultOK(Completed(u, chosen, preview, index), b)
<1>1. u \in UiType /\ ~u.touching /\ u.interaction = {} /\ chosen.kind \in Kinds
  BY DEF Idle, UiOK, GestureKept, UiType, ControlType
<1>2. chosen.kind # "None" => BegunOn(b, u, chosen)
  BY DEF NoControl, Control
<1>3. CASE chosen.kind = "RoomHeader"
  <2> DEFINE v == [u EXCEPT !.screen = "Rooms", !.roomStart = 0]
  <2>1. /\ v \in UiType /\ ~v.touching /\ v.interaction = {} /\ v.seen = u.seen
        /\ v.rooms = u.rooms /\ v.roomStart = 0 /\ v.queueStart = u.queueStart
    BY <1>1 DEF UiType, Views
  <2> QED
    BY <1>3, <2>1, IdleKept, NothingOK DEF Completed, Slider
<1>4. CASE chosen.kind = "Back"
  <2> DEFINE v == [u EXCEPT !.screen = "Now"]
  <2>1. /\ v \in UiType /\ ~v.touching /\ v.interaction = {} /\ v.seen = u.seen
        /\ v.rooms = u.rooms /\ v.roomStart = u.roomStart /\ v.queueStart = u.queueStart
    BY <1>1 DEF UiType, Views
  <2> QED
    BY <1>4, <2>1, IdleKept, NothingOK DEF Completed, Slider
<1>5. CASE chosen.kind = "Queue"
  BY <1>5, OnQueueOK DEF Completed, Slider
<1>6. CASE chosen.kind = "Reload"
  BY <1>6, OnReloadOK DEF Completed, Slider
<1>7. CASE chosen.kind = "PageNext"
  BY <1>7, PageByOK DEF Completed, Slider
<1>8. CASE chosen.kind = "PageBack"
  BY <1>8, PageByOK DEF Completed, Slider
<1>9. CASE chosen.kind = "Play"
  BY <1>2, <1>9, SubmitOK DEF Completed, Slider
<1>10. CASE Slider(chosen)
  BY <1>2, <1>10, OnSliderOK DEF Completed, Slider
<1>11. CASE chosen.kind = "Row"
  BY <1>2, <1>11, OnRowOK DEF Completed, Slider, ControlType
<1>12. CASE chosen.kind = "None"
  BY <1>12, NothingOK DEF Completed, Slider
<1> QED
  BY <1>1, <1>3, <1>4, <1>5, <1>6, <1>7, <1>8, <1>9, <1>10, <1>11, <1>12 DEF Kinds, Slider

\* A release acts only for the gesture that began, on what it began on.
LEMMA ReleasedOK ==
  ASSUME NEW u, UiOK(u), NEW index \in Indices(u)
  PROVE  ResultOK(Released(u, index), u.began)
<1> DEFINE v == Lifted(u)
<1>1. u \in UiType /\ u.contact \in ControlType
  BY DEF UiOK, UiType
<1>2. /\ v \in UiType /\ ~v.touching /\ v.interaction = {} /\ v.seen = u.seen
      /\ v.rooms = u.rooms /\ v.roomStart = u.roomStart /\ v.queueStart = u.queueStart
      /\ v.screen = u.screen
  BY <1>1, ControlsOK DEF UiType, Lifted
<1>3. Idle(v)
  <2>1. InRangeOf(v) /\ PageOfRevision(v.seen)
    BY <1>2 DEF UiOK, InRangeOf, Page
  <2> QED
    BY <1>2, <2>1 DEF Idle, UiOK, GestureKept
<1>4. CASE u.touching /\ u.contact # NoControl
  <2>1. RowMeans(v, u.contact.row) = RowMeans(u, u.contact.row)
    BY <1>2, RowMeansSame
  <2>2. BegunOn(u.began, v, u.contact)
    BY <1>2, <1>4, <2>1 DEF UiOK, GestureKept, BegunOn, Meant
  <2> QED
    BY <1>1, <1>2, <1>3, <2>2, CompletedOK, NothingOK DEF Released, Indices
<1>5. CASE u.touching /\ u.contact = NoControl
  BY <1>1, <1>2, <1>3, <1>5, CompletedOK, NothingOK DEF Released, Indices
<1>6. CASE ~u.touching
  BY <1>3, <1>6, NothingOK DEF Released
<1> QED
  BY <1>4, <1>5, <1>6

-----------------------------------------------------------------------------
\* What a render does to the model

\* The list under a finger is as it was, and within its range.
HeldList(u) ==
  u.touching => /\ u.screen = "Rooms" => u.roomStart = 0 \/ u.roomStart < Len(u.rooms)
                /\ u.screen = "Queue" =>
                     \A p \in Page(u) : u.queueStart = 0 \/ u.queueStart < p.total

\* A gesture is kept with all it refers to.
LEMMA GestureSame ==
  ASSUME NEW u, GestureKept(u), NEW v,
         v.touching = u.touching, v.cancelled = u.cancelled, v.began = u.began,
         v.top = u.top, v.screen = u.screen, v.contact = u.contact,
         v.interaction = u.interaction, v.seen = u.seen,
         u.touching => /\ u.screen = "Rooms" => v.rooms = u.rooms /\ v.roomStart = u.roomStart
                       /\ u.screen = "Queue" => v.queueStart = u.queueStart
  PROVE  GestureKept(v)
<1>1. CASE u.touching
  <2>1. RowMeans(v, u.contact.row) = RowMeans(u, u.contact.row)
    BY <1>1, RowMeansSame
  <2> QED
    BY <1>1, <2>1 DEF GestureKept, Meant
<1>2. CASE ~u.touching
  BY <1>2 DEF GestureKept
<1> QED
  BY <1>1, <1>2

LEMMA InRangeOK ==
  ASSUME NEW u \in UiType, PageOfRevision(u.seen), GestureKept(u), HeldList(u)
  PROVE  UiOK(InRange(u))
<1> DEFINE shrunk == {p \in Page(u) : u.queueStart > 0 /\ u.queueStart >= p.total}
           v == IF shrunk = {} THEN u
                ELSE [u EXCEPT !.queueStart = LastStart((CHOOSE p \in shrunk : TRUE).total),
                               !.queueRequested = FALSE]
           w == IF v.roomStart >= Len(v.rooms) THEN [v EXCEPT !.roomStart = 0] ELSE v
<1>1. InRange(u) = w
  BY DEF InRange
<1>2. /\ u.queueStart \in Nat /\ u.roomStart \in Nat /\ Len(u.rooms) \in Nat
      /\ \A p \in Page(u) : p \in PageType /\ p.total \in Nat /\ p.start = u.queueStart
      /\ \A p, q \in Page(u) : p = q
  BY ListsOK DEF UiType, Page, SeenType, PageType, PageOfRevision
<1>3. /\ v \in UiType
      /\ \A p \in Page(v) : v.queueStart = 0 \/ v.queueStart < p.total
      /\ GestureKept(v)
      /\ v.roomStart = u.roomStart /\ v.rooms = u.rooms /\ v.seen = u.seen
      /\ v.touching = u.touching /\ v.screen = u.screen
  <2>1. CASE shrunk = {}
    <3>1. v = u
      BY <2>1
    <3>2. \A p \in Page(u) : u.queueStart = 0 \/ u.queueStart < p.total
      BY <1>2, <2>1
    <3> HIDE DEF v
    <3> QED
      BY <3>1, <3>2
  <2>2. CASE shrunk # {}
    <3> DEFINE p0 == CHOOSE p \in shrunk : TRUE
               last == LastStart(p0.total)
    <3>1. p0 \in shrunk
      BY <2>2
    <3>2. p0 \in Page(u) /\ p0.total \in Nat /\ u.queueStart > 0 /\ u.queueStart >= p0.total
      BY <1>2, <3>1
    <3> HIDE DEF p0
    <3>3. last \in Nat /\ last < u.queueStart
      <4>1. CASE p0.total = 0
        BY <1>2, <3>2, <4>1 DEF LastStart
      <4>2. CASE p0.total # 0
        <5> DEFINE most == p0.total - 1
        <5>1. most \in Nat /\ most < u.queueStart
          BY <1>2, <3>2, <4>2
        <5> HIDE DEF most
        <5>2. (most \div PageSize) * PageSize \in Nat /\ (most \div PageSize) * PageSize <= most
          BY <5>1, Multiple
        <5>3. LastStart(p0.total) = (most \div PageSize) * PageSize
          BY <4>2 DEF LastStart, most
        <5> QED
          BY <1>2, <5>1, <5>2, <5>3
      <4> QED
        BY <4>1, <4>2
    <3> HIDE DEF last
    <3>4. v = [u EXCEPT !.queueStart = last, !.queueRequested = FALSE]
      BY <2>2 DEF last, p0
    <3>5. /\ v \in UiType /\ v.queueStart = last /\ v.roomStart = u.roomStart
          /\ v.rooms = u.rooms /\ v.seen = u.seen /\ v.touching = u.touching
          /\ v.cancelled = u.cancelled /\ v.began = u.began /\ v.top = u.top
          /\ v.screen = u.screen /\ v.contact = u.contact /\ v.interaction = u.interaction
      BY ZenonT(30), <3>3, <3>4 DEF UiType
    <3> HIDE DEF v
    <3>6. Page(v) = {}
      <4>1. \A q \in u.seen.page : q = p0 /\ q.start = u.queueStart
        BY <1>2, <3>2 DEF Page, PageOfRevision
      <4> QED
        BY <3>3, <3>5, <4>1, <1>2 DEF Page
    <3>7. ~(u.touching /\ u.screen = "Queue")
      BY <1>2, <3>2 DEF HeldList
    <3>8. GestureKept(v)
      BY <3>5, <3>7, GestureSame
    <3> QED
      BY <3>5, <3>6, <3>8
  <2> QED
    BY <2>1, <2>2
<1> HIDE DEF v
<1>4. CASE v.roomStart >= Len(v.rooms)
  <2>1. /\ w \in UiType /\ w.roomStart = 0 /\ w.queueStart = v.queueStart
        /\ w.rooms = v.rooms /\ w.seen = v.seen /\ w.touching = v.touching
        /\ w.cancelled = v.cancelled /\ w.began = v.began /\ w.top = v.top
        /\ w.screen = v.screen /\ w.contact = v.contact /\ w.interaction = v.interaction
    BY <1>3, <1>4 DEF UiType
  <2>2. u.touching /\ u.screen = "Rooms" => u.roomStart = 0
    BY <1>2, <1>3, <1>4 DEF HeldList
  <2>3. GestureKept(w)
    BY <1>3, <2>1, <2>2, GestureSame
  <2>4. InRangeOf(w)
    BY <1>3, <2>1 DEF InRangeOf, Page
  <2>5. PageOfRevision(w.seen)
    BY <1>3, <2>1
  <2> QED
    BY <1>1, <2>1, <2>3, <2>4, <2>5 DEF UiOK
<1>5. CASE ~(v.roomStart >= Len(v.rooms))
  BY <1>1, <1>2, <1>3, <1>5 DEF UiOK, InRangeOf
<1> QED
  BY <1>4, <1>5

\* A finger that is still down after a render has before it what it had.
LEMMA UpdatedOK ==
  ASSUME AppOK, NEW u, UiOK(u)
  PROVE  UiOK(Updated(u))
<1> DEFINE a == CancelIf(ListGone(u), u)
           b == ForRoom(a)
           d == CancelIf(ContentGone(b), b)
           e == Copied(d)
           f == Settled(e)
<1>1. Updated(u) = InRange(f)
  BY DEF Updated
<1>2. UiOK(a) /\ (a.touching => a = u /\ ~ListGone(u))
  BY CancelOK DEF CancelIf, Idle
<1> HIDE DEF a
<1>3. UiOK(b) /\ (b.touching => b = a /\ ~RoomGone(a))
  <2>1. CASE RoomGone(a)
    <3> DEFINE g == cancelTouch(a)
    <3>1. Idle(g)
      BY <1>2, CancelOK
    <3>2. g \in UiType /\ ~g.touching /\ g.interaction = {}
      BY <3>1 DEF Idle, UiOK, GestureKept, UiType
    <3> HIDE DEF g
    <3>3. b = [g EXCEPT !.queueStart = 0, !.roomStart = 0, !.queueRequested = FALSE,
                        !.sawBusy = FALSE, !.screen = "Now"]
      BY <2>1 DEF ForRoom, g
    <3> HIDE DEF b
    <3>4. /\ b \in UiType /\ ~b.touching /\ b.interaction = {} /\ b.seen = g.seen
          /\ b.rooms = g.rooms /\ b.roomStart = 0 /\ b.queueStart = 0
      BY <3>2, <3>3 DEF UiType, Views
    <3>5. Idle(b)
      BY <3>1, <3>4, IdleKept
    <3> QED
      BY <3>5 DEF Idle
  <2>2. CASE ~RoomGone(a)
    BY <1>2, <2>2 DEF ForRoom
  <2> QED
    BY <2>1, <2>2
<1> HIDE DEF b
<1>4. UiOK(d) /\ (d.touching => d = b /\ ~ContentGone(b))
  BY <1>3, CancelOK DEF CancelIf, Idle
<1> HIDE DEF d
<1>5. d.touching => d = u /\ ~ListGone(u) /\ ~RoomGone(u) /\ ~ContentGone(u)
  BY <1>2, <1>3, <1>4
<1>6. /\ e \in UiType /\ e.seen = app.seen /\ e.rooms = app.rooms
      /\ e.touching = d.touching /\ e.cancelled = d.cancelled /\ e.began = d.began
      /\ e.top = d.top /\ e.screen = d.screen /\ e.contact = d.contact
      /\ e.interaction = d.interaction /\ e.queueStart = d.queueStart /\ e.roomStart = d.roomStart
  <2> DEFINE busy == app.job # "None"
             online == app.net # "Offline"
  <2>1. busy \in BOOLEAN /\ online \in BOOLEAN
    OBVIOUS
  <2>2. e = [d EXCEPT !.seen = app.seen, !.rooms = app.rooms, !.busy = busy, !.online = online]
    BY Zenon DEF Copied
  <2> HIDE DEF busy, online, e
  <2> QED
    BY ZenonT(30), <1>4, <2>1, <2>2 DEF UiOK, UiType, AppOK, AppType
<1> HIDE DEF e
<1>7. GestureKept(e) /\ HeldList(e)
  <2>1. CASE d.touching
    <3>1. /\ e.rooms = u.rooms \/ u.screen # "Rooms"
          /\ e.seen.page = u.seen.page \/ u.screen # "Queue"
          /\ e.seen.room = u.seen.room /\ e.seen.track = u.began.track /\ e.seen.rev = u.began.rev
      BY <1>5, <1>6, <2>1 DEF ListGone, RoomGone, ContentGone
    <3>2. RowMeans(e, u.contact.row) = RowMeans(u, u.contact.row)
      BY <1>5, <1>6, <2>1, <3>1, RowMeansSame
    <3>3. u.began.track = u.seen.track /\ u.began.rev = u.seen.rev
      BY <1>5, <2>1 DEF UiOK, GestureKept
    <3>4. GestureKept(e)
      BY <1>5, <1>6, <2>1, <3>1, <3>2, <3>3 DEF UiOK, GestureKept, Meant
    <3>5. u.screen = "Queue" => Page(e) = Page(u)
      BY <1>5, <1>6, <2>1, <3>1 DEF Page
    <3> QED
      BY <1>5, <1>6, <2>1, <3>1, <3>4, <3>5 DEF UiOK, InRangeOf, HeldList
  <2>2. CASE ~d.touching
    BY <1>4, <1>6, <2>2 DEF UiOK, GestureKept, HeldList
  <2> QED
    BY <2>1, <2>2
<1>8. /\ f \in UiType /\ f.seen = e.seen /\ f.rooms = e.rooms
      /\ f.touching = e.touching /\ f.cancelled = e.cancelled /\ f.began = e.began
      /\ f.top = e.top /\ f.screen = e.screen /\ f.contact = e.contact
      /\ f.interaction = e.interaction /\ f.queueStart = e.queueStart /\ f.roomStart = e.roomStart
  <2> DEFINE saw == e.sawBusy \/ (e.queueRequested /\ e.busy)
             done == e.queueRequested /\ ~e.busy /\ (saw \/ e.seen.page # {} \/ e.seen.error)
             requested == e.queueRequested /\ ~done
             marked == saw /\ ~done
  <2>1. requested \in BOOLEAN /\ marked \in BOOLEAN
    OBVIOUS
  <2>2. f = [e EXCEPT !.queueRequested = requested, !.sawBusy = marked]
    BY Zenon DEF Settled
  <2> HIDE DEF requested, marked, f
  <2> QED
    BY <1>6, <2>1, <2>2 DEF UiType
<1> HIDE DEF f
<1>9. GestureKept(f)
  BY <1>7, <1>8, GestureSame
<1>10. HeldList(f) /\ PageOfRevision(f.seen)
  BY <1>6, <1>7, <1>8 DEF HeldList, Page, AppOK
<1> QED
  BY <1>1, <1>8, <1>9, <1>10, InRangeOK

-----------------------------------------------------------------------------
\* The steps

LEMMA UnobservedOK ==
  ASSUME NEW room \in RoomNames
  PROVE  Unobserved(room) \in SeenType /\ PageOfRevision(Unobserved(room))
BY DEF Unobserved, SeenType, PageOfRevision, TrackNames, RevisionNames

\* An event at admission leaves the runtime in a state of its own.
LEMMA AcceptedOK ==
  ASSUME AppOK, NEW e \in EventType, e.input = "RoomSelect" => e.means # {}
  PROVE  Accepted(e) \in AppType /\ PageOfRevision(Accepted(e).seen)
<1>1. app \in AppType /\ e.start \in Nat /\ (~SlowReads) \in BOOLEAN
  BY TouchAssumption DEF AppOK, EventType
<1>2. CASE e.input = "QueuePage"
  <2>1. Accepted(e) = [app EXCEPT !.job = "Page", !.start = e.start, !.rendered = ~SlowReads]
    BY <1>2 DEF Accepted
  <2> DEFINE rendered == ~SlowReads
  <2>2. rendered \in BOOLEAN
    BY TouchAssumption
  <2> HIDE DEF rendered
  <2>3. /\ [app EXCEPT !.job = "Page", !.start = e.start, !.rendered = rendered] \in AppType
        /\ [app EXCEPT !.job = "Page", !.start = e.start, !.rendered = rendered].seen = app.seen
    BY <1>1, <2>2 DEF AppType
  <2> QED
    BY <2>1, <2>3 DEF AppOK, rendered
<1>3. CASE e.input = "RoomSelect"
  <2> DEFINE room == (CHOOSE m \in e.means : TRUE).room
             rendered == ~SlowReads
  <2>1. room \in RoomNames /\ rendered \in BOOLEAN
    BY <1>3, TouchAssumption DEF EventType, Meanings
  <2>2. Accepted(e) = [app EXCEPT !.job = "User", !.rendered = rendered,
                                  !.seen = Unobserved(room)]
    BY <1>3, Zenon DEF Accepted
  <2> HIDE DEF room, rendered
  <2>3. Unobserved(room) \in SeenType /\ PageOfRevision(Unobserved(room))
    BY <2>1, UnobservedOK
  <2> QED
    BY <1>1, <2>1, <2>2, <2>3 DEF AppType
<1>4. CASE e.input \notin {"QueuePage", "RoomSelect"}
  <2> DEFINE rendered == ~SlowReads
  <2>1. rendered \in BOOLEAN
    BY TouchAssumption
  <2>2. Accepted(e) = [app EXCEPT !.job = "User", !.rendered = rendered]
    BY <1>4 DEF Accepted
  <2> HIDE DEF rendered
  <2>3. Accepted(e) \in AppType /\ Accepted(e).seen = app.seen
    BY <1>1, <2>1, <2>2 DEF AppType
  <2> QED
    BY <2>3 DEF AppOK
<1> QED
  BY <1>2, <1>3, <1>4

\* A sample whose result is sound for the gesture it ends.
LEMMA SampledOK ==
  ASSUME IInv, NEW r, UiOK(r.ui), r.event \subseteq EventType,
         \A e \in r.event : Acts(ui.began, e) /\ (e.input = "RoomSelect" => e.means # {}),
         Sampled(r)
  PROVE  IInv'
<1>1. UiOK(ui)'
  BY DEF Sampled, UiOK, PageOfRevision, InRangeOf, GestureKept, Page, Meant, RowMeans, Items
<1>2. CASE r.event = {}
  <2>1. out' = {} /\ app' = app
    BY <1>2 DEF Sampled
  <2> QED
    BY <1>1, <2>1 DEF IInv, AppOK, OutOK, ActsOnWhatItBegan, AdmittedForWhatIsThere,
                      PageOfRevision
<1>3. CASE r.event # {}
  <2>1. PICK e \in r.event :
          /\ out' = {[event |-> e, began |-> ui.began, now |-> app.seen,
                      admitted |-> Admitted(e)]}
          /\ app' = IF Admitted(e) THEN Accepted(e) ELSE app
    BY <1>3 DEF Sampled
  <2>2. e \in EventType /\ Acts(ui.began, e) /\ (e.input = "RoomSelect" => e.means # {})
    BY <2>1
  <2>3. app' \in AppType /\ PageOfRevision(app'.seen)
    BY <2>1, <2>2, AcceptedOK DEF IInv, AppOK
  <2>4. AppOK'
    BY <2>3 DEF AppOK, PageOfRevision
  <2>5. ActsOnWhatItBegan'
    BY <2>1, <2>2 DEF ActsOnWhatItBegan, Acts
  <2>6. AdmittedForWhatIsThere'
    <3> SUFFICES ASSUME Admitted(e), e.input = "Intent"
                 PROVE  /\ ui.began.room = app.seen.room
                        /\ e.kind = "Seek" => ui.began.track = app.seen.track
                        /\ e.kind = "Row"  => \A m \in ui.began.means : m.rev = {app.seen.rev}
      BY <2>1 DEF AdmittedForWhatIsThere
    <3>1. runtimeUiMatches(e)
      BY DEF Admitted
    <3> QED
      BY <2>2, <3>1 DEF runtimeUiMatches, Acts
  <2> QED
    BY <1>1, <2>4, <2>5, <2>6 DEF IInv, OutOK
<1> QED
  BY <1>2, <1>3

\* A sample without an event.
LEMMA QuietOK ==
  ASSUME IInv, NEW u, UiOK(u), Sampled(Nothing(u))
  PROVE  IInv'
BY SampledOK DEF Nothing

\* The knob's preview is of the room and the track its finger is on.
LEMMA SlidOK ==
  ASSUME NEW u, UiOK(u), u.touching
  PROVE  UiOK(slid(u))
<1> DEFINE preview == [field |-> u.contact.kind, room |-> u.seen.room, of |-> u.seen.track]
           v == [u EXCEPT !.interaction = {preview}]
<1>1. u \in UiType /\ u.contact \in ControlType /\ u.seen \in SeenType
  BY DEF UiOK, UiType
<1>2. /\ v \in UiType /\ v.seen = u.seen /\ v.rooms = u.rooms
      /\ v.touching = u.touching /\ v.cancelled = u.cancelled /\ v.began = u.began
      /\ v.top = u.top /\ v.screen = u.screen /\ v.contact = u.contact
      /\ v.queueStart = u.queueStart /\ v.roomStart = u.roomStart
      /\ \A i \in v.interaction : i.room = u.seen.room /\ i.of = u.seen.track
  <2>1. /\ preview \in [field : Kinds, room : RoomNames, of : TrackNames]
        /\ preview.room = u.seen.room /\ preview.of = u.seen.track
    BY <1>1 DEF ControlType, SeenType
  <2> HIDE DEF preview
  <2>2. v \in UiType /\ v.interaction = {preview}
    BY <1>1, <2>1 DEF UiType
  <2> QED
    BY <1>1, <2>1, <2>2 DEF UiType
<1> HIDE DEF v
<1>3. InRangeOf(v) /\ Meant(v) = Meant(u)
  BY <1>2, RowMeansSame DEF UiOK, InRangeOf, Page, Meant
<1>4. UiOK(v)
  BY <1>2, <1>3 DEF UiOK, GestureKept
<1> QED
  BY <1>4 DEF slid, v

\* A press begins a gesture on what is there.
LEMMA PressedOK ==
  ASSUME NEW u, Idle(u), ~u.cancelled, NEW control \in ControlType
  PROVE  UiOK(Pressed(u, control)) /\ Pressed(u, control).touching
<1> DEFINE v == [u EXCEPT !.touching = TRUE, !.contact = control]
           w == Pressed(u, control)
<1>1. u \in UiType /\ PageOfRevision(u.seen) /\ u.interaction = {}
  BY DEF Idle, UiOK, GestureKept, UiType
<1>2. /\ v \in UiType /\ v.seen = u.seen /\ v.rooms = u.rooms /\ v.touching
      /\ v.cancelled = u.cancelled /\ v.top = u.top /\ v.screen = u.screen
      /\ v.contact = control /\ v.queueStart = u.queueStart /\ v.roomStart = u.roomStart
      /\ v.interaction = {}
  BY <1>1 DEF UiType
<1> HIDE DEF v
<1>3. RowMeans(v, control.row) \subseteq Meanings
  BY <1>1, <1>2, RowMeansOK DEF ControlType
<1>4. Began(v) \in BeganType
  BY <1>2, <1>3 DEF Began, BeganType, UiType, SeenType
<1>5. w = [v EXCEPT !.began = Began(v)]
  BY DEF Pressed, v
<1>6. /\ w \in UiType /\ w.seen = v.seen /\ w.rooms = v.rooms /\ w.touching
      /\ w.cancelled = v.cancelled /\ w.top = v.top /\ w.screen = v.screen
      /\ w.contact = control /\ w.queueStart = v.queueStart /\ w.roomStart = v.roomStart
      /\ w.interaction = {} /\ w.began = Began(v)
  BY <1>2, <1>4, <1>5 DEF UiType
<1> HIDE DEF w
<1>7. InRangeOf(w) /\ Meant(w) = Began(v).means
  BY <1>2, <1>6, RowMeansSame DEF Idle, UiOK, InRangeOf, Page, Meant, Began
<1>8. GestureKept(w)
  <2>1. /\ w.began.room = w.seen.room /\ w.began.track = w.seen.track
        /\ w.began.rev = w.seen.rev /\ w.began.top = w.top /\ w.began.screen = w.screen
        /\ w.began.control = w.contact /\ w.began.means = Meant(w)
    BY <1>2, <1>6, <1>7 DEF Began
  <2> QED
    BY <1>2, <1>6, <2>1 DEF GestureKept
<1> QED
  BY <1>1, <1>2, <1>6, <1>7, <1>8 DEF UiOK, w

LEMMA PressStep ==
  ASSUME IInv, Press PROVE IInv'
<1>1. PICK control \in Visible, knob \in BOOLEAN :
        Sampled(Nothing(IF knob THEN slid(Pressed(ui, control)) ELSE Pressed(ui, control)))
  BY DEF Press
<1>2. control \in ControlType
  BY ControlsOK DEF Visible, Kinds, NoControl
<1>3. UiOK(Pressed(ui, control)) /\ Pressed(ui, control).touching
  BY <1>2, PressedOK DEF Press, IInv, Idle
<1> QED
  BY <1>1, <1>3, SlidOK, QuietOK

LEMMA DragStep ==
  ASSUME IInv, Drag PROVE IInv'
<1>1. CASE Sampled(Nothing(slid(ui)))
  BY <1>1, SlidOK, QuietOK DEF Drag, IInv
<1>2. CASE Sampled(Nothing([ui EXCEPT !.contact = NoControl]))
  <2> DEFINE v == [ui EXCEPT !.contact = NoControl]
  <2>1. ui \in UiType
    BY DEF IInv, UiOK
  <2>2. /\ v \in UiType /\ v.seen = ui.seen /\ v.rooms = ui.rooms
        /\ v.touching = ui.touching /\ v.cancelled = ui.cancelled /\ v.began = ui.began
        /\ v.interaction = ui.interaction /\ v.contact = NoControl
        /\ v.queueStart = ui.queueStart /\ v.roomStart = ui.roomStart
    BY <2>1, ControlsOK DEF UiType
  <2> HIDE DEF v
  <2>3. UiOK(v)
    BY <2>2 DEF IInv, UiOK, InRangeOf, Page, GestureKept
  <2> QED
    BY <1>2, <2>3, QuietOK DEF v
<1> QED
  BY <1>1, <1>2 DEF Drag

\* A mark of the board that no property looks at.
LEMMA MarkOK ==
  ASSUME NEW u, UiOK(u), NEW held \in BOOLEAN, NEW shown \in Views
  PROVE  UiOK([u EXCEPT !.held = held]) /\ UiOK([u EXCEPT !.shown = shown])
<1>1. u \in UiType
  BY DEF UiOK
<1>2. ASSUME NEW v \in UiType,
             v.seen = u.seen /\ v.rooms = u.rooms
             /\ v.touching = u.touching /\ v.cancelled = u.cancelled /\ v.began = u.began
             /\ v.top = u.top /\ v.screen = u.screen /\ v.contact = u.contact
             /\ v.interaction = u.interaction
             /\ v.queueStart = u.queueStart /\ v.roomStart = u.roomStart
      PROVE  UiOK(v)
  BY <1>2, GestureSame DEF UiOK, InRangeOf, Page
<1> DEFINE a == [u EXCEPT !.held = held]
           b == [u EXCEPT !.shown = shown]
<1>3. /\ a \in UiType /\ a.seen = u.seen /\ a.rooms = u.rooms
      /\ a.touching = u.touching /\ a.cancelled = u.cancelled /\ a.began = u.began
      /\ a.top = u.top /\ a.screen = u.screen /\ a.contact = u.contact
      /\ a.interaction = u.interaction
      /\ a.queueStart = u.queueStart /\ a.roomStart = u.roomStart
  BY <1>1 DEF UiType
<1>4. /\ b \in UiType /\ b.seen = u.seen /\ b.rooms = u.rooms
      /\ b.touching = u.touching /\ b.cancelled = u.cancelled /\ b.began = u.began
      /\ b.top = u.top /\ b.screen = u.screen /\ b.contact = u.contact
      /\ b.interaction = u.interaction
      /\ b.queueStart = u.queueStart /\ b.roomStart = u.roomStart
  BY <1>1 DEF UiType
<1> HIDE DEF a, b
<1> QED
  BY <1>2, <1>3, <1>4 DEF a, b

\* Another screen, without a finger.
LEMMA ScreenOK ==
  ASSUME NEW u, Idle(u), NEW top \in Tops, NEW screen \in Views, NEW held \in BOOLEAN
  PROVE  /\ Idle([u EXCEPT !.screen = screen])
         /\ Idle([u EXCEPT !.top = top, !.held = held])
         /\ Idle([u EXCEPT !.top = top, !.screen = screen, !.held = held])
<1> DEFINE a == [u EXCEPT !.screen = screen]
           b == [u EXCEPT !.top = top, !.held = held]
           d == [u EXCEPT !.top = top, !.screen = screen, !.held = held]
<1>1. u \in UiType /\ ~u.touching /\ u.interaction = {}
  BY DEF Idle, UiOK, GestureKept, UiType
<1>2. /\ a \in UiType /\ ~a.touching /\ a.interaction = {} /\ a.seen = u.seen
      /\ a.rooms = u.rooms /\ a.roomStart = u.roomStart /\ a.queueStart = u.queueStart
  BY <1>1 DEF UiType
<1>3. /\ b \in UiType /\ ~b.touching /\ b.interaction = {} /\ b.seen = u.seen
      /\ b.rooms = u.rooms /\ b.roomStart = u.roomStart /\ b.queueStart = u.queueStart
  BY <1>1 DEF UiType
<1>4. /\ d \in UiType /\ ~d.touching /\ d.interaction = {} /\ d.seen = u.seen
      /\ d.rooms = u.rooms /\ d.roomStart = u.roomStart /\ d.queueStart = u.queueStart
  BY <1>1 DEF UiType
<1> HIDE DEF a, b, d
<1> QED
  BY <1>2, <1>3, <1>4, IdleKept DEF a, b, d

LEMMA LeaveOK ==
  ASSUME NEW u, UiOK(u)
  PROVE  Idle(leave(u))
<1>1. Idle(IF u.touching THEN cancelTouch(u) ELSE u)
  BY CancelOK DEF Idle
<1>2. "Now" \in Views /\ u.top \in Tops /\ TRUE \in BOOLEAN
  BY DEF Views, UiOK, UiType
<1> QED
  BY <1>1, <1>2, ScreenOK DEF leave

LEMMA ScreenSteps ==
  ASSUME IInv, Interrupt \/ BootPressed \/ Show PROVE IInv'
<1>1. UiOK(ui) /\ ui \in UiType /\ Idle(leave(ui)) /\ Idle(cancelTouch(ui))
  BY LeaveOK, CancelOK DEF IInv, UiOK
<1>2. ui.top \in Tops /\ ui.screen \in Views
  BY <1>1 DEF UiType
<1>3. CASE Interrupt
  <2>1. UiOK([cancelTouch(ui) EXCEPT !.held = TRUE])
        /\ UiOK([cancelTouch(ui) EXCEPT !.shown = ui.screen])
    BY <1>1, <1>2, MarkOK DEF Idle
  <2> QED
    BY <1>3, <2>1, QuietOK DEF Interrupt
<1>4. CASE BootPressed
  <2>1. nextSurfaceScreen[ui.top] \in Tops
    BY <1>2 DEF nextSurfaceScreen, Tops
  <2>2. Idle([leave(ui) EXCEPT !.top = nextSurfaceScreen[ui.top], !.held = TRUE])
    BY <1>1, <1>2, <2>1, ScreenOK
  <2> QED
    BY <1>4, <2>2, QuietOK DEF BootPressed, Idle
<1>5. CASE Show
  <2>1. PICK top \in DOMAIN nextSurfaceScreen, view \in {"Now", "Rooms", "Queue"} :
          Sampled(Nothing([cancelTouch(leave(ui)) EXCEPT !.top = top, !.screen = view,
                                                         !.held = TRUE]))
    BY <1>5 DEF Show
  <2>2. top \in Tops /\ view \in Views
    BY <2>1 DEF nextSurfaceScreen, Tops, Views
  <2>3. Idle(cancelTouch(leave(ui)))
    BY <1>1, CancelOK DEF Idle
  <2>4. Idle([cancelTouch(leave(ui)) EXCEPT !.top = top, !.screen = view, !.held = TRUE])
    BY <2>2, <2>3, ScreenOK
  <2> QED
    BY <2>1, <2>4, QuietOK DEF Idle
<1> QED
  BY <1>3, <1>4, <1>5

\* An answer is a user interface and its events, whatever control answered.
Answer(r) == r = [ui |-> r.ui, event |-> r.event]

LEMMA AnswersSimple ==
  ASSUME NEW u
  PROVE  Answer(Nothing(u)) /\ Answer(requestQueue(u)) /\ \A e : Answer(mutation(u, e))
<1>1. Answer(Nothing(u))
  BY DEF Answer, Nothing
<1>2. Answer(requestQueue(u))
  BY <1>1 DEF Answer, requestQueue
<1>3. \A e : Answer(mutation(u, e))
  BY DEF Answer, mutation
<1> QED
  BY <1>1, <1>2, <1>3

LEMMA AnswersOfControls ==
  ASSUME NEW u, NEW chosen, NEW preview, NEW index
  PROVE  Answer(Completed(u, chosen, preview, index))
<1>1. \A z : Answer(Nothing(z))
  BY AnswersSimple
<1>2. \A z : Answer(requestQueue(z))
  BY AnswersSimple
<1>3. \A z, e : Answer(mutation(z, e))
  BY AnswersSimple
<1>4. \A e : Answer([ui |-> u, event |-> e])
  BY DEF Answer
<1>5. \A forward : Answer(PageBy(u, forward))
  BY <1>1, <1>2, Zenon DEF PageBy
<1>6. \A start : Answer(OnQueue(u, start))
  BY <1>2, Zenon DEF OnQueue
<1>7. Answer(OnReload(u))
  BY <1>1, <1>2, <1>4, Zenon DEF OnReload
<1>8. Answer(OnRow(u, chosen.row))
  <2>1. \A v, e : Answer([ui |-> v, event |-> e])
    BY DEF Answer
  <2> QED
    BY <1>1, <1>3, <2>1, Zenon DEF OnRow
<1>9. Answer(OnSlider(u, chosen.kind, preview))
  BY <1>1, <1>3, Zenon DEF OnSlider
<1> QED
  BY <1>1, <1>3, <1>5, <1>6, <1>7, <1>8, <1>9, Zenon DEF Completed

LEMMA ReleasedAnswers ==
  ASSUME NEW u, NEW index
  PROVE  Answer(Released(u, index))
BY AnswersSimple, AnswersOfControls, Zenon DEF Released

LEMMA NoFingerStep ==
  ASSUME IInv, NoFinger PROVE IInv'
<1> DEFINE lifted == [ui EXCEPT !.held = FALSE]
<1>1. UiOK(lifted) /\ lifted.began = ui.began /\ lifted.seen = ui.seen
  <2>1. UiOK(ui) /\ ui \in UiType /\ "Now" \in Views
    BY DEF IInv, UiOK, Views
  <2>2. UiOK(lifted)
    BY <2>1, MarkOK
  <2> QED
    BY <2>1, <2>2 DEF UiType
<1> HIDE DEF lifted
<1>2. PICK index \in Indices(lifted) :
        LET result == Released(lifted, index)
            asked  == IF result.event = {} THEN requestQueue(result.ui) ELSE result
        IN  IF ui.top = "Grouping" THEN Sampled(Nothing(lifted))
            ELSE Sampled([asked EXCEPT !.ui.shown = asked.ui.screen])
  BY <1>1 DEF NoFinger, Indices, lifted
<1> DEFINE result == Released(lifted, index)
           asked  == IF result.event = {} THEN requestQueue(result.ui) ELSE result
           drawn  == [asked EXCEPT !.ui.shown = asked.ui.screen]
<1>3. ResultOK(result, ui.began)
  BY <1>1, <1>2, ReleasedOK
<1> HIDE DEF result
<1>4. ResultOK(asked, ui.began)
  BY <1>3, RequestOK DEF ResultOK
<1>5. CASE ui.top = "Grouping"
  BY <1>1, <1>2, <1>5, QuietOK
<1>6. CASE ui.top # "Grouping"
  <2>1. Sampled(drawn)
    BY <1>2, <1>6 DEF result
  <2>2. UiOK(asked.ui) /\ asked.ui.screen \in Views
    BY <1>4 DEF ResultOK, Idle, UiOK, UiType
  <2>3. UiOK([asked.ui EXCEPT !.shown = asked.ui.screen])
    BY <2>2, MarkOK
  <2>4. drawn.ui = [asked.ui EXCEPT !.shown = asked.ui.screen] /\ drawn.event = asked.event
    <3>1. Answer(result)
      BY ReleasedAnswers DEF result
    <3>2. asked = [ui |-> asked.ui, event |-> asked.event]
      BY <3>1, AnswersSimple DEF Answer
    <3> HIDE DEF asked
    <3> QED
      BY <3>2
  <2> HIDE DEF drawn, asked
  <2> QED
    BY <1>4, <2>1, <2>3, <2>4, SampledOK DEF ResultOK
<1> QED
  BY <1>5, <1>6

LEMMA RenderStep ==
  ASSUME IInv, Render PROVE IInv'
<1> DEFINE u == Updated(ui)
           drawn == [u EXCEPT !.shown = u.screen]
<1>1. UiOK(u)
  BY UpdatedOK DEF IInv
<1>2. ui' = drawn
  BY DEF Render
<1>3. UiOK(drawn)
  <2>1. u.screen \in Views
    BY <1>1 DEF UiOK, UiType
  <2> HIDE DEF u
  <2> QED
    BY <1>1, <2>1, MarkOK
<1> HIDE DEF u, drawn
<1>4. UiOK(ui)'
  BY <1>2, <1>3 DEF UiOK, PageOfRevision, InRangeOf, GestureKept, Page, Meant, RowMeans, Items
<1>5. AppOK'
  BY DEF Render, IInv, AppOK, AppType, PageOfRevision
<1>6. out' = {}
  BY DEF Render
<1> QED
  BY <1>4, <1>5, <1>6 DEF IInv, OutOK, ActsOnWhatItBegan, AdmittedForWhatIsThere

\* The runtime changes and the model does not look.
LEMMA UnseenOK ==
  ASSUME IInv, UNCHANGED ui, out' = {}, app' \in AppType, PageOfRevision(app'.seen)
  PROVE  IInv'
<1>1. UiOK(ui)'
  BY DEF IInv, UiOK, PageOfRevision, InRangeOf, GestureKept, Page, Meant, RowMeans, Items
<1>2. AppOK'
  BY DEF AppOK, PageOfRevision
<1> QED
  BY <1>1, <1>2 DEF IInv, OutOK, ActsOnWhatItBegan, AdmittedForWhatIsThere

LEMMA ObservedOK ==
  ASSUME AppOK, NEW track \in Tracks, NEW rev \in Revisions
  PROVE  Observed(track, rev) \in SeenType /\ PageOfRevision(Observed(track, rev))
BY DEF AppOK, AppType, Observed, SeenType, PageOfRevision, TrackNames, RevisionNames

LEMMA ChangeSteps ==
  ASSUME IInv, Poll \/ Discover \/ OtherRoom \/ Network \/ UsbJob PROVE IInv'
<1>1. AppOK /\ app \in AppType /\ app.seen \in SeenType /\ (~SlowReads) \in BOOLEAN
  BY TouchAssumption DEF IInv, AppOK, AppType
<1>2. ASSUME NEW next \in AppType, PageOfRevision(next.seen), Change(next) PROVE IInv'
  BY <1>2, UnseenOK DEF Change
<1>3. CASE Poll
  <2>1. ASSUME NEW track \in Tracks, NEW rev \in Revisions,
               Change([app EXCEPT !.seen = Observed(track, rev)])
        PROVE  IInv'
    <3>1. Observed(track, rev) \in SeenType /\ PageOfRevision(Observed(track, rev))
      BY <1>1, ObservedOK
    <3>2. /\ [app EXCEPT !.seen = Observed(track, rev)] \in AppType
          /\ [app EXCEPT !.seen = Observed(track, rev)].seen = Observed(track, rev)
      BY <1>1, <3>1 DEF AppType
    <3> QED
      BY <1>2, <2>1, <3>1, <3>2
  <2>2. CASE Change([app EXCEPT !.seen.fresh = FALSE, !.seen.page = {}])
    <3> DEFINE next == [app EXCEPT !.seen.fresh = FALSE, !.seen.page = {}]
    <3>1. next \in AppType /\ next.seen.page = {}
      BY <1>1 DEF AppType, SeenType
    <3> QED
      BY <1>2, <2>2, <3>1 DEF PageOfRevision
  <2> QED
    BY <1>3, <2>1, <2>2 DEF Poll
<1>4. CASE Discover
  <2>1. PICK list \in RoomLists : Change([app EXCEPT !.rooms = list])
    BY <1>4 DEF Discover
  <2>2. [app EXCEPT !.rooms = list] \in AppType /\ [app EXCEPT !.rooms = list].seen = app.seen
    BY <1>1 DEF AppType
  <2> QED
    BY <1>1, <1>2, <2>1, <2>2 DEF AppOK
<1>5. CASE OtherRoom
  <2> DEFINE rendered == ~SlowReads
  <2>1. PICK i \in 1 .. Len(app.rooms) :
          Change([app EXCEPT !.seen = Unobserved(app.rooms[i]), !.job = "User",
                             !.rendered = rendered])
    BY <1>5 DEF OtherRoom
  <2>2. rendered \in BOOLEAN
    BY <1>1
  <2> HIDE DEF rendered
  <2> DEFINE next == [app EXCEPT !.seen = Unobserved(app.rooms[i]), !.job = "User",
                                 !.rendered = rendered]
  <2>3. app.rooms[i] \in RoomNames
    BY <1>1, RoomOfList DEF AppType
  <2>4. Unobserved(app.rooms[i]) \in SeenType /\ PageOfRevision(Unobserved(app.rooms[i]))
    BY <2>3, UnobservedOK
  <2>5. next \in AppType /\ next.seen = Unobserved(app.rooms[i])
    BY <1>1, <2>2, <2>4 DEF AppType
  <2> QED
    BY <1>2, <2>1, <2>4, <2>5
<1>6. CASE Network
  <2>1. PICK net \in {"Ready", "Offline", "Recovering"} : Change([app EXCEPT !.net = net])
    BY <1>6 DEF Network
  <2>2. [app EXCEPT !.net = net] \in AppType /\ [app EXCEPT !.net = net].seen = app.seen
    BY <1>1 DEF AppType
  <2> QED
    BY <1>1, <1>2, <2>1, <2>2 DEF AppOK
<1>7. CASE UsbJob
  <2> DEFINE rendered == ~SlowReads
             next == [app EXCEPT !.job = "User", !.rendered = rendered]
  <2>1. Change(next)
    BY <1>7 DEF UsbJob
  <2>2. rendered \in BOOLEAN
    BY <1>1
  <2> HIDE DEF rendered
  <2>3. next \in AppType /\ next.seen = app.seen
    BY <1>1, <2>2 DEF AppType
  <2> QED
    BY <1>1, <1>2, <2>1, <2>3 DEF AppOK
<1> QED
  BY <1>3, <1>4, <1>5, <1>6, <1>7

\* A page comes with the revision it was read at.
LEMMA JobStep ==
  ASSUME IInv, JobEnds PROVE IInv'
<1>1. AppOK /\ app \in AppType /\ app.seen \in SeenType /\ app.start \in Nat
  BY DEF IInv, AppOK, AppType
<1>2. Ended \in AppType /\ Ended.seen = app.seen
  BY <1>1 DEF Ended, AppType
<1>3. PICK track \in Tracks, rev \in Revisions :
        app' \in {PageRead(rev), Failed, Discarded, [Ended EXCEPT !.seen = Observed(track, rev)]}
  BY DEF JobEnds
<1>4. CASE app' = PageRead(rev)
  <2> DEFINE page == [room |-> app.seen.room, start |-> app.start, total |-> Length[rev],
                      rev |-> rev]
             fresh1 == app.seen.fresh /\ rev = app.seen.rev
             seen1 == [app.seen EXCEPT !.page = {page}, !.fresh = fresh1, !.rev = rev,
                                       !.error = FALSE]
  <2>1. page \in PageType /\ page.rev = rev /\ page.total = Length[rev]
    BY <1>1, TouchAssumption DEF PageType, SeenType
  <2>2. fresh1 \in BOOLEAN
    BY <1>1 DEF SeenType
  <2>3. app' = [Ended EXCEPT !.seen = seen1]
    BY <1>1, <1>2, <1>4 DEF PageRead, AppType, SeenType
  <2> HIDE DEF page, fresh1
  <2>4. seen1 \in SeenType /\ seen1.page = {page} /\ seen1.rev = rev
    BY <1>1, <2>1, <2>2 DEF SeenType, RevisionNames
  <2> HIDE DEF seen1
  <2>5. app' \in AppType /\ app'.seen = seen1
    BY <1>2, <2>3, <2>4 DEF AppType
  <2>6. PageOfRevision(app'.seen)
    BY <2>1, <2>4, <2>5 DEF PageOfRevision
  <2> QED
    BY <2>5, <2>6, UnseenOK DEF JobEnds
<1>5. CASE app' = Failed
  <2>1. app' \in AppType /\ app'.seen.page = {}
    BY <1>1, <1>2, <1>5 DEF Failed, AppType, SeenType
  <2> QED
    BY <2>1, UnseenOK DEF JobEnds, PageOfRevision
<1>6. CASE app' = Discarded
  <2> DEFINE recovery == app.job = "User"
             seen1 == [app.seen EXCEPT !.fresh = FALSE, !.page = {}, !.error = FALSE,
                                       !.recovery = recovery]
  <2>1. recovery \in BOOLEAN
    OBVIOUS
  <2>2. app' = [Ended EXCEPT !.seen = seen1]
    BY <1>1, <1>2, <1>6 DEF Discarded, AppType, SeenType
  <2> HIDE DEF recovery
  <2>3. seen1 \in SeenType /\ seen1.page = {}
    BY <1>1, <2>1 DEF SeenType
  <2> HIDE DEF seen1
  <2>4. app' \in AppType /\ app'.seen = seen1
    BY <1>2, <2>2, <2>3 DEF AppType
  <2> QED
    BY <2>3, <2>4, UnseenOK DEF JobEnds, PageOfRevision
<1>7. CASE app' = [Ended EXCEPT !.seen = Observed(track, rev)]
  <2>1. Observed(track, rev) \in SeenType /\ PageOfRevision(Observed(track, rev))
    BY <1>1, ObservedOK
  <2>2. app' \in AppType /\ app'.seen = Observed(track, rev)
    BY <1>2, <1>7, <2>1 DEF AppType
  <2> QED
    BY <2>1, <2>2, UnseenOK DEF JobEnds
<1> QED
  BY <1>3, <1>4, <1>5, <1>6, <1>7

-----------------------------------------------------------------------------
\* The theorems

LEMMA InitInvariant == Init => IInv
<1> SUFFICES ASSUME Init PROVE IInv
  OBVIOUS
<1>1. PICK first \in First :
        app = [seen |-> [Unobserved(first.rooms[1]) EXCEPT
                           !.track = first.track, !.rev = first.rev, !.fresh = TRUE],
               rooms |-> first.rooms, job |-> "None", start |-> 0, rendered |-> TRUE,
               net |-> "Ready"]
  BY DEF Init
<1>2. first.rooms \in RoomLists /\ first.track \in Tracks /\ first.rev \in Revisions
  BY TouchAssumption
<1>3. 1 \in 1 .. Len(first.rooms)
  BY <1>2, ListsOK
<1>4. first.rooms[1] \in RoomNames
  BY <1>2, <1>3, RoomOfList
<1>5. AppOK
  BY <1>1, <1>2, <1>4 DEF AppOK, AppType, SeenType, Unobserved, TrackNames, RevisionNames,
                          PageOfRevision
<1>6. Unobserved("None") \in SeenType /\ PageOfRevision(Unobserved("None"))
  BY UnobservedOK DEF RoomNames
<1>7. /\ ui \in UiType /\ ui.seen = Unobserved("None") /\ ~ui.touching
      /\ ui.interaction = {} /\ ui.queueStart = 0 /\ ui.roomStart = 0
  BY <1>6, ControlsOK DEF Init, UiType, Tops, Views
<1>8. UiOK(ui)
  BY <1>6, <1>7 DEF UiOK, InRangeOf, GestureKept
<1>9. OutOK
  BY DEF Init, OutOK, ActsOnWhatItBegan, AdmittedForWhatIsThere
<1> QED
  BY <1>5, <1>8, <1>9 DEF IInv

LEMMA NextInvariant == IInv /\ [Next]_vars => IInv'
<1> SUFFICES ASSUME IInv, [Next]_vars PROVE IInv'
  OBVIOUS
<1>1. CASE Device
  BY <1>1, PressStep, DragStep, ScreenSteps, NoFingerStep, RenderStep DEF Device
<1>2. CASE Environment
  BY <1>2, ChangeSteps, JobStep DEF Environment
<1>3. CASE UNCHANGED vars
  BY <1>3 DEF vars, IInv, AppOK, UiOK, PageOfRevision, InRangeOf, GestureKept, Page, Meant,
              RowMeans, Items, OutOK, ActsOnWhatItBegan, AdmittedForWhatIsThere
<1> QED
  BY <1>1, <1>2, <1>3 DEF Next

\* The invariant of the touch model: every variable has its type, the page is of the
\* revision shown with it, lists are within their range, and a finger that is down has
\* before it what it began on (WaveshareUi::update and touch).
THEOREM Invariance == Spec => []IInv
BY InitInvariant, NextInvariant, PTL DEF Spec

\* An intent or a selection is of the room, the content and the row its gesture began on,
\* whatever renders came in between.
THEOREM EndsWhatItBegan == Spec => []ActsOnWhatItBegan
<1>1. IInv => ActsOnWhatItBegan
  BY DEF IInv, OutOK
<1> QED
  BY <1>1, Invariance, PTL

\* What admission accepts acts on the room, the track and the revision of the runtime at
\* that moment, not of the copy the finger saw.
THEOREM AdmittedIsCurrent == Spec => []AdmittedForWhatIsThere
<1>1. IInv => AdmittedForWhatIsThere
  BY DEF IInv, OutOK
<1> QED
  BY <1>1, Invariance, PTL

\* A control under a finger is of the active screen and view, and a preview lives only
\* under the finger, for the room and the track on display.
THEOREM GestureEndsWithScreen == Spec => []GestureOfThisScreen
<1>1. IInv => GestureOfThisScreen
  BY DEF IInv, UiOK, GestureKept, GestureOfThisScreen
<1> QED
  BY <1>1, Invariance, PTL

\* No render leaves a reader past the end of a list; the starts are in range in every
\* state, not only once the list is drawn.
THEOREM StartsInRange == Spec => []InRangeNow /\ PageInRange
<1>1. IInv => InRangeNow
  BY DEF IInv, UiOK, InRangeOf, InRangeNow
<1>2. IInv' => InRangeNow'
  BY <1>1, PTL
<1>3. IInv /\ [Next]_vars => [Render => InRangeNow']_vars
  BY <1>2, NextInvariant
<1> QED
  BY <1>1, <1>3, Invariance, PTL DEF Spec, PageInRange

=============================================================================

------------------------------- MODULE Touch -------------------------------
(***************************************************************************)
(* The Waveshare touch model: gestures of WaveshareUi, the top-level       *)
(* screens and touch ownership of WaveshareShell, and the sampling of      *)
(* pollInput.  The finger acts on a copy of the application state that a   *)
(* render takes every 100 ms, so what is shown, what the finger started on *)
(* and what the runtime believes may be three different things when the    *)
(* finger lifts.  An event the model returns meets the runtime's admission *)
(* in the same turn of the main loop.  A track stands for the track with   *)
(* its duration, and a page read again unchanged compares equal; toasts    *)
(* and the layout are left out.                                            *)
(***************************************************************************)
EXTENDS Integers, Sequences, FiniteSets

CONSTANTS
  Tracks,       \* the tracks a room may play
  Revisions,    \* the revisions a queue may have
  Length,       \* the length of the queue at each revision
  RoomLists,    \* the lists of rooms discovery may yield, as sequences
  First,        \* what the first read after boot may find: rooms, track and revision
  PageSize,     \* rows on a page, four in the code
  MaxMoves,     \* bound on the changes of the application state
  Refusals,     \* the runtime may refuse work while the network is up
  SlowReads     \* a job outlasts a render

ASSUME TouchAssumption ==
  /\ PageSize \in Nat \ {0} /\ MaxMoves \in Nat /\ Length \in [Revisions -> Nat]
  /\ Refusals \in BOOLEAN /\ SlowReads \in BOOLEAN
  /\ \A list \in RoomLists : list \in Seq({list[i] : i \in 1 .. Len(list)}) /\ Len(list) > 0
  /\ First \subseteq [rooms : RoomLists, track : Tracks, rev : Revisions]

VARIABLES
  app,    \* the runtime: the shared state, the rooms, the job, the network
  ui,     \* the touch model and what it last copied of app
  out,    \* the event of the last sample, what its gesture began on, its admission
  moves

vars == <<app, ui, out, moves>>

-----------------------------------------------------------------------------
\* Controls and what is displayed

Control(kind) == [kind |-> kind, row |-> 0]
NoControl     == Control("None")
RowControls   == [kind : {"Row"}, row : 0 .. PageSize - 1]

\* The controls a finger can land on: the widgets of the screen LVGL shows.
Visible ==
  CASE ui.top = "Grouping"   -> {NoControl}
    [] ui.top = "Playground" -> {NoControl, Control("Seek"), Control("Play")}
    [] ui.shown = "Now"      -> {NoControl} \cup
         {Control(k) : k \in {"RoomHeader", "Play", "Volume", "Seek", "Queue"}}
    [] OTHER                 -> {NoControl} \cup RowControls \cup
         {Control(k) : k \in {"Back", "Reload", "PageBack", "PageNext"}}

Slider(control) == control.kind \in {"Volume", "Seek"}

fresh(u) == u.online /\ u.seen.fresh
Page(u)  == {p \in u.seen.page : p.room = u.seen.room /\ p.start = u.queueStart}
matchingPage(u)   == Page(u) # {}
canSelectQueue(u) == fresh(u) /\ \E p \in Page(u) : p.rev = u.seen.rev
Items(p)          == {row \in 0 .. PageSize - 1 : p.start + row < p.total}

\* What row i stands for: a room of the list, an item of a queue revision.
RowMeans(u, i) ==
  CASE u.screen = "Rooms" /\ u.roomStart + i < Len(u.rooms) ->
         {[room |-> u.rooms[u.roomStart + i + 1], rev |-> {}, index |-> 0]}
    [] u.screen = "Queue" ->
         {[room |-> p.room, rev |-> {p.rev}, index |-> p.start + i] :
            p \in {q \in Page(u) : i \in Items(q)}}
    [] OTHER -> {}

\* What a new gesture looks at, kept to compare with what it does.
Began(u) == [top |-> u.top, screen |-> u.screen, control |-> u.contact,
             room |-> u.seen.room, track |-> u.seen.track, rev |-> u.seen.rev,
             means |-> IF u.contact.kind = "Row" THEN RowMeans(u, u.contact.row) ELSE {}]
NoGesture == [top |-> "None", screen |-> "None", control |-> NoControl, room |-> "None",
              track |-> "None", rev |-> "None", means |-> {}]

cancelTouch(u) == [u EXCEPT !.contact = NoControl, !.touching = FALSE, !.cancelled = TRUE,
                            !.interaction = {}, !.began = NoGesture]

-----------------------------------------------------------------------------
\* WaveshareUi::update: the state copy a render takes

\* Mutant: the queue page may change under a finger.
ListGoneRoomsOnly(u) == u.touching /\ u.screen = "Rooms" /\ app.rooms # u.rooms

\* A finger on a list that changed under it, or on content that was replaced.
ListGone(u) ==
  /\ u.touching
  /\ \/ u.screen = "Rooms" /\ app.rooms # u.rooms
     \/ u.screen = "Queue" /\ app.seen.page # u.seen.page
ContentGone(u) ==
  /\ u.touching
  /\ \/ app.seen.track # u.began.track \/ app.seen.rev # u.began.rev
     \/ ~app.seen.fresh \/ app.net = "Offline"
RoomGone(u) == app.seen.room # u.seen.room

ForRoom(u) ==
  IF RoomGone(u)
  THEN [cancelTouch(u) EXCEPT !.queueStart = 0, !.roomStart = 0, !.queueRequested = FALSE,
                              !.sawBusy = FALSE, !.screen = "Now"]
  ELSE u

Copied(u) == [u EXCEPT !.seen = app.seen, !.rooms = app.rooms,
                       !.busy = app.job # "None", !.online = app.net # "Offline"]

\* The request is over once its job was seen and has gone, or there is an answer.
Settled(u) ==
  LET saw == u.sawBusy \/ (u.queueRequested /\ u.busy)
      done == u.queueRequested /\ ~u.busy /\ (saw \/ u.seen.page # {} \/ u.seen.error)
  IN  [u EXCEPT !.queueRequested = @ /\ ~done, !.sawBusy = saw /\ ~done]

LastStart(total) == IF total = 0 THEN 0 ELSE ((total - 1) \div PageSize) * PageSize

\* Mutant: the starts stay.
Unclamped(u) == u

InRange(u) ==
  LET shrunk == {p \in Page(u) : u.queueStart > 0 /\ u.queueStart >= p.total}
      v == IF shrunk = {} THEN u
           ELSE [u EXCEPT !.queueStart = LastStart((CHOOSE p \in shrunk : TRUE).total),
                          !.queueRequested = FALSE]
  IN  IF v.roomStart >= Len(v.rooms) THEN [v EXCEPT !.roomStart = 0] ELSE v

CancelIf(gone, u) == IF gone THEN cancelTouch(u) ELSE u

Updated(u) ==
  LET listed == CancelIf(ListGone(u), u)
      roomed == ForRoom(listed)
  IN  InRange(Settled(Copied(CancelIf(ContentGone(roomed), roomed))))

-----------------------------------------------------------------------------
\* Events

Event(u, input, kind) ==
  [input |-> input, kind |-> kind, target |-> u.seen.room, track |-> u.seen.track,
   rev |-> u.seen.rev, means |-> {}, start |-> u.queueStart]

Nothing(u) == [ui |-> u, event |-> {}]

requestQueue(u) ==
  IF u.screen # "Queue" \/ u.busy \/ ~u.online \/ u.queueRequested
     \/ matchingPage(u) \/ u.seen.error
  THEN Nothing(u)
  ELSE [ui    |-> [u EXCEPT !.queueRequested = TRUE, !.sawBusy = FALSE],
        event |-> {Event(u, "QueuePage", "Page")}]

Afresh(u) == [u EXCEPT !.seen.page = {}, !.seen.error = FALSE, !.queueRequested = FALSE]

mutation(u, event) ==
  [ui |-> u, event |-> IF u.busy \/ ~fresh(u) \/ u.seen.recovery THEN {} ELSE {event}]

\* WaveshareUi::touch once the finger is up: the control it started on acts.
PageBy(u, forward) ==
  LET more == IF u.screen = "Rooms" THEN u.roomStart + PageSize < Len(u.rooms)
              ELSE \E p \in Page(u) : u.queueStart + PageSize < p.total
      step == IF forward THEN PageSize ELSE -PageSize
      start == IF u.screen = "Rooms" THEN u.roomStart ELSE u.queueStart
  IN  IF ~(IF forward THEN more ELSE start >= PageSize) THEN Nothing(u)
      ELSE IF u.screen = "Rooms" THEN Nothing([u EXCEPT !.roomStart = @ + step])
      ELSE IF u.busy THEN Nothing(u)
      ELSE requestQueue(Afresh([u EXCEPT !.queueStart = @ + step]))

OnQueue(u, start) ==
  requestQueue([u EXCEPT !.screen = "Queue", !.queueStart = start, !.queueRequested = FALSE])

OnReload(u) ==
  IF u.busy THEN Nothing(u)
  ELSE IF u.screen = "Rooms" THEN [ui |-> u, event |-> {Event(u, "Refresh", "Rooms")}]
  ELSE requestQueue(Afresh(u))

OnRow(u, i) ==
  IF RowMeans(u, i) = {} THEN Nothing(u)
  ELSE IF u.screen = "Rooms"
  THEN IF u.busy THEN Nothing(u)
       ELSE [ui |-> [u EXCEPT !.screen = "Now"],
             event |-> {[Event(u, "RoomSelect", "Row") EXCEPT !.means = RowMeans(u, i)]}]
  ELSE IF ~canSelectQueue(u) THEN Nothing(u)
  ELSE mutation(u, [Event(u, "Intent", "Row") EXCEPT !.means = RowMeans(u, i)])

\* The slider's preview ends with the finger and is submitted as one value.
OnSlider(u, kind, preview) ==
  IF \E i \in preview : i.field = kind /\ (kind = "Seek" => fresh(u))
  THEN mutation(u, Event(u, "Intent", kind)) ELSE Nothing(u)

Completed(u, chosen, preview, index) ==
  CASE chosen.kind = "RoomHeader" -> Nothing([u EXCEPT !.screen = "Rooms", !.roomStart = 0])
    [] chosen.kind = "Back"       -> Nothing([u EXCEPT !.screen = "Now"])
    [] chosen.kind = "Queue"      -> OnQueue(u, (index \div PageSize) * PageSize)
    [] chosen.kind = "Reload"     -> OnReload(u)
    [] chosen.kind = "PageNext"   -> PageBy(u, TRUE)
    [] chosen.kind = "PageBack"   -> PageBy(u, FALSE)
    [] chosen.kind = "Play"       -> mutation(u, Event(u, "Intent", "Play"))
    [] Slider(chosen)             -> OnSlider(u, chosen.kind, preview)
    [] chosen.kind = "Row"        -> OnRow(u, chosen.row)
    [] OTHER                      -> Nothing(u)

Lifted(u) == [u EXCEPT !.touching = FALSE, !.contact = NoControl, !.interaction = {},
                       !.cancelled = FALSE, !.began = NoGesture]

\* A sample without a finger: a release, the end of a cancelled touch, or idle.
Released(u, index) ==
  IF u.cancelled \/ ~u.touching \/ u.began.room # u.seen.room
  THEN Nothing(Lifted(u))
  ELSE Completed(Lifted(u), u.contact, u.interaction, index)

-----------------------------------------------------------------------------
\* The runtime's side of an event: runtimeUiMatches and admission

\* Mutant: only the room is compared.
MatchesRoomOnly(event) == event.target = app.seen.room

runtimeUiMatches(event) ==
  /\ event.target = app.seen.room
  /\ event.kind = "Seek" => event.track = app.seen.track /\ event.rev = app.seen.rev
  /\ event.kind = "Row"  => event.rev = app.seen.rev

Admitted(event) ==
  /\ app.net = "Ready" /\ app.job = "None"
  /\ event.input \in {"Intent", "QueuePage"} => runtimeUiMatches(event)
  /\ event.input = "RoomSelect" =>
       \A m \in event.means : \E i \in 1 .. Len(app.rooms) : app.rooms[i] = m.room

Unobserved(room) == [room |-> room, track |-> "None", rev |-> "None", fresh |-> FALSE,
                     recovery |-> FALSE, page |-> {}, error |-> FALSE]

Accepted(event) ==
  CASE event.input = "QueuePage"  -> [app EXCEPT !.job = "Page", !.start = event.start,
                                                 !.rendered = ~SlowReads]
    [] event.input = "RoomSelect" -> [app EXCEPT !.job = "User", !.rendered = ~SlowReads,
         !.seen = Unobserved((CHOOSE m \in event.means : TRUE).room)]
    [] OTHER                      -> [app EXCEPT !.job = "User", !.rendered = ~SlowReads]

\* One sample's result: the model's new state, and its event, if any, at admission.
Sampled(result) ==
  /\ ui' = result.ui
  /\ IF result.event = {} THEN out' = {} /\ UNCHANGED app
     ELSE \E event \in result.event :
            /\ out' = {[event |-> event, began |-> ui.began, now |-> app.seen,
                        admitted |-> Admitted(event)]}
            /\ app' = IF Admitted(event) THEN Accepted(event) ELSE app
  /\ UNCHANGED moves

-----------------------------------------------------------------------------
\* Samples of pollInput, and the other actions of the board

\* A sample with one finger whose press LVGL found on a control; a slider reports
\* its knob in the same sample.
Pressed(u, control) ==
  LET started == [u EXCEPT !.touching = TRUE, !.contact = control]
  IN  [started EXCEPT !.began = Began(started)]

slid(u) ==
  IF /\ fresh(u) /\ Slider(u.contact) /\ ~u.cancelled
  THEN [u EXCEPT !.interaction = {[field |-> u.contact.kind, room |-> u.seen.room,
                                   of |-> u.seen.track]}]
  ELSE u

Press ==
  /\ ~ui.held /\ ~ui.touching /\ ~ui.cancelled /\ ui.top # "Grouping"
  /\ \E control \in Visible, knob \in BOOLEAN :
       LET u == Pressed(ui, control)
       IN  Sampled(Nothing(IF knob THEN slid(u) ELSE u))

\* A further sample: the knob moves, or the finger leaves its control.
Drag ==
  /\ ui.touching /\ ~ui.held
  /\ \/ Slider(ui.contact) /\ Sampled(Nothing(slid(ui)))
     \/ Sampled(Nothing([ui EXCEPT !.contact = NoControl]))

\* Two fingers, invalid coordinates, a failed read, calibration or recovery.
Interrupt ==
  \/ Sampled(Nothing([cancelTouch(ui) EXCEPT !.held = TRUE]))
  \/ ui.top # "Grouping" /\ Sampled(Nothing([cancelTouch(ui) EXCEPT !.shown = ui.screen]))

\* No finger.  Grouping passes no sample on; elsewhere an idle or empty release
\* asks for the queue page.
NoFinger ==
  \E index \in {0} \cup (IF ui.seen.rev = "None" THEN {} ELSE 0 .. Length[ui.seen.rev] - 1) :
    LET lifted == [ui EXCEPT !.held = FALSE]
        result == Released(lifted, index)
        asked  == IF result.event = {} THEN requestQueue(result.ui) ELSE result
    IN  IF ui.top = "Grouping" THEN Sampled(Nothing(lifted))
        ELSE Sampled([asked EXCEPT !.ui.shown = asked.ui.screen])

\* Mutant: the finger keeps its control.
LeaveTouching(u) == [u EXCEPT !.screen = "Now"]

\* BOOT, ui-nav and ui-screen: the screen left cancels its touch.
leave(u) == [(IF u.touching THEN cancelTouch(u) ELSE u) EXCEPT !.screen = "Now"]

nextSurfaceScreen == [Now |-> "Grouping", Grouping |-> "Playground", Playground |-> "Now"]
BootPressed == Sampled(Nothing([leave(ui) EXCEPT !.top = nextSurfaceScreen[ui.top], !.held = TRUE]))

Show ==
  \E top \in DOMAIN nextSurfaceScreen, view \in {"Now", "Rooms", "Queue"} :
    /\ top = "Now" \/ view = "Now"
    /\ Sampled(Nothing([cancelTouch(leave(ui)) EXCEPT !.top = top, !.screen = view,
                                                      !.held = TRUE]))

\* boardRender: the model takes the copy and the widgets follow.
Render ==
  /\ ui' = LET u == Updated(ui) IN [u EXCEPT !.shown = u.screen]
  /\ app' = [app EXCEPT !.rendered = TRUE]
  /\ out' = {} /\ UNCHANGED moves

-----------------------------------------------------------------------------
\* The rest of the device

Change(next) == /\ moves < MaxMoves /\ moves' = moves + 1
                /\ app' = next /\ out' = {} /\ UNCHANGED ui

Observed(track, rev) ==
  [app.seen EXCEPT !.track = track, !.rev = rev, !.fresh = TRUE, !.recovery = FALSE,
                   !.page = {}]

\* An automatic read, good or failed; both drop the page.
Poll ==
  \/ \E track \in Tracks, rev \in Revisions :
       Change([app EXCEPT !.seen = Observed(track, rev)])
  \/ Change([app EXCEPT !.seen.fresh = FALSE, !.seen.page = {}])

Discover == \E list \in RoomLists \ {app.rooms} : Change([app EXCEPT !.rooms = list])

OtherRoom ==
  \E i \in 1 .. Len(app.rooms) :
    /\ app.rooms[i] # app.seen.room /\ app.job = "None"
    /\ Change([app EXCEPT !.seen = Unobserved(app.rooms[i]), !.job = "User",
                          !.rendered = ~SlowReads])

Network ==
  \E net \in {"Ready", "Offline"} \cup (IF Refusals THEN {"Recovering"} ELSE {}) :
    net # app.net /\ Change([app EXCEPT !.net = net])

\* A command or a read asked for over USB.
UsbJob == Refusals /\ app.job = "None" /\ Change([app EXCEPT !.job = "User", !.rendered = ~SlowReads])

Ended == [app EXCEPT !.job = "None"]
PageRead(rev) ==
  [Ended EXCEPT
     !.seen.page = {[room |-> app.seen.room, start |-> app.start, total |-> Length[rev],
                     rev |-> rev]},
     !.seen.fresh = @ /\ rev = app.seen.rev, !.seen.rev = rev,
     !.seen.error = FALSE]
Failed    == [Ended EXCEPT !.seen.page = {}, !.seen.error = TRUE]
Discarded == [Ended EXCEPT !.seen.fresh = FALSE, !.seen.page = {}, !.seen.error = FALSE,
                           !.seen.recovery = app.job = "User"]

\* A job of a user ends: the page it read with its own revision, an error, an
\* observation of its own, or nothing when it was cancelled.
JobEnds ==
  /\ app.job # "None" /\ app.rendered
  /\ out' = {} /\ UNCHANGED ui
  /\ \E track \in Tracks, rev \in Revisions :
       app' \in IF app.job = "Page" THEN {PageRead(rev), Failed, Discarded}
               ELSE {[Ended EXCEPT !.seen = Observed(track, rev)], Discarded}
  /\ LET told == app'.seen.track = app.seen.track /\ app'.seen.rev = app.seen.rev
                 /\ app'.seen.fresh /\ ~app'.seen.error
     IN  moves' = (IF told THEN moves ELSE moves + 1) /\ moves' <= MaxMoves

-----------------------------------------------------------------------------
Init ==
  /\ \E first \in First :
       app = [seen |-> [Unobserved(first.rooms[1]) EXCEPT
                          !.track = first.track, !.rev = first.rev, !.fresh = TRUE],
              rooms |-> first.rooms, job |-> "None", start |-> 0, rendered |-> TRUE,
              net |-> "Ready"]
  /\ ui = [top |-> "Now", screen |-> "Now", shown |-> "Now",
           contact |-> NoControl, touching |-> FALSE, cancelled |-> TRUE, held |-> TRUE,
           interaction |-> {}, began |-> NoGesture,
           queueStart |-> 0, roomStart |-> 0, queueRequested |-> FALSE, sawBusy |-> FALSE,
           seen |-> Unobserved("None"), rooms |-> <<>>, busy |-> FALSE, online |-> FALSE]
  /\ out = {} /\ moves = 0

Device == Press \/ Drag \/ Interrupt \/ NoFinger \/ BootPressed \/ Show \/ Render
Environment == Poll \/ Discover \/ OtherRoom \/ Network \/ UsbJob \/ JobEnds
Next == Device \/ Environment

Spec == Init /\ [][Next]_vars

\* The main loop samples and renders, and a job ends by its deadline.
Fairness == WF_vars(NoFinger) /\ WF_vars(Render) /\ WF_vars(JobEnds)

-----------------------------------------------------------------------------
\* Properties

\* What a finger does is what it was put on: an intent or a selection is of the room, the
\* content and the row the gesture began on, whatever renders came in between.
ActsOnWhatItBegan ==
  \A o \in out : o.event.input \in {"Intent", "RoomSelect"} =>
    /\ o.began.room = o.event.target /\ o.began.control.kind = o.event.kind
    /\ o.event.means = o.began.means
    /\ o.event.input = "Intent" =>
         o.event.track = o.began.track /\ o.event.rev = o.began.rev

\* Admission closes the gap between the copy and the runtime: a gesture that is accepted
\* acts on the room the runtime has selected, a seek on the track it has observed, and a
\* queue row on an item of the revision it has observed.
AdmittedForWhatIsThere ==
  \A o \in out : o.admitted /\ o.event.input = "Intent" =>
    /\ o.began.room = o.now.room
    /\ o.event.kind = "Seek" => o.began.track = o.now.track
    /\ o.event.kind = "Row"  => \A m \in o.began.means : m.rev = {o.now.rev}

\* A gesture ends with its screen: a control still under a finger is of the screen and the
\* view that are active, so nothing pressed on one completes on another; and a slider shows
\* a preview only while its finger is down, of the room and the track on display.
GestureOfThisScreen ==
  /\ ui.touching /\ ui.contact # NoControl =>
       ui.began.top = ui.top /\ ui.began.screen = ui.screen
  /\ \A i \in ui.interaction :
       /\ ui.touching /\ ~ui.cancelled
       /\ i.room = ui.seen.room /\ i.of = ui.seen.track

\* A list that shrank does not leave its reader past its end once it is drawn.
InRangeNow ==
  /\ \A p \in Page(ui) : ui.queueStart = 0 \/ ui.queueStart < p.total
  /\ ui.roomStart = 0 \/ ui.roomStart < Len(ui.rooms)
PageInRange == [][Render => InRangeNow']_vars

\* The Queue screen has neither a page nor an error and nobody is reading one, while the
\* speaker could be asked.
Loading ==
  /\ ui.screen = "Queue" /\ ui.online /\ ~matchingPage(ui) /\ ~ui.seen.error
  /\ app.net = "Ready" /\ app.job = "None"

\* "The queue screen requests its visible page again after invalidation": it does not
\* stay at "Loading queue..." with no request under way.
PageIsAskedFor == Loading ~> ~Loading

=============================================================================

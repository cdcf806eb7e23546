# Sonos Surface: a TLA+ model of the device runtime

Sonos Surface is firmware for a small touch or button controller that reads and
commands Sonos rooms over a home network, plays NFC cards and writes them. This
directory specifies its logic: how the device decides what it may do while the
network, the household, the subscriptions and the two tasks of the firmware come
and go; what a command does to a speaker that others use too; what an
observation of that speaker means; which room is selected; what a touch is
about; and how cards are written. The modules are written from the code under
`src/libraries`; `PROJECT.json` maps every definition to the lines it models.

## 1. The system

| part | source | state | operations |
|---|---|---|---|
| WorkerLifecycle | `WorkerLifecycle.h` | the one admitted job: identity, origin, deadline | submit, result, deadline, network loss, shutdown, preempt |
| WifiLifecycle | `WifiLifecycle.h` | connection state, deadline, backoff | config, connected, disconnected, tick, shutdown |
| SonosHealth | `SonosHealth.h` | discovery generation, recovery, session failure streak | network up and down, refresh, discovery and session results, tick |
| SubscriptionLifecycle | `SubscriptionLifecycle.h` | one lease at one publisher, one request in flight | publisher, request results, NOTIFY, tick, revoke |
| RuntimeCoordinator | `RuntimeCoordinator.h`, `RuntimeAdmission.h` | the four machines, the facts their effects record, the display, the schedule, the preempted jobs | admission, enqueue, bind, discovery result, finish, publish, service, shutdown |
| Runtime | `Runtime.cpp` | job queue (2), the worker's job, one session per room, the room selection | `begin`, `loop`, `worker`, `TopologyEvents` |
| Application | `SurfaceCore.cpp` | a room's last observation, command status, uncertainty | reconcile, invalidate, submit, discard |
| RoomSelection | `Rooms.cpp` | eligible rooms, the selected one, the preferred one | update, cycle |
| SurfaceSonos | `SurfaceSonos.cpp` | prepared command, confirmed topology | topology, refresh, prepare, execute, verify |
| intent, policy, plan | `SurfaceCore.cpp` | none (pure) | parse, resolve, plan |
| CardWriter, NtagWriter, writer server | `CardWriter.cpp`, `NtagWriter.h`, `Writer*.{h,cpp}` | draft, arming, write and verify progress | arm, present, write, verify, cancel, time out |
| artwork | `ArtworkState.h`, `WaveshareArtwork.cpp` | generation of the cover, retry time, two queues | select, complete, load, stop |
| socket deadlines | `DeadlineClient.h`, `JobNetworkClient.h` | bytes left to read, closed | connect, read, write, stop |
| power, buttons | `DevicePower.h`, `StickButtons.h`, `WaveshareButton.h` | last activity, click state | poll |
| boards and views | `Stick*.{h,cpp}`, `Waveshare*.{h,cpp}`, `ViewModel.*` | widgets | draw, touch |
| tooling | `scripts/*.ts` | none on the device | build, flash, test |

**How they interact.** Two FreeRTOS tasks share one mutex. The main task
(`loop`) ticks the machines, admits input and enqueues automatic reads; the
worker task executes one job at a time: it binds the job to a discovery
generation, reads the household topology, then reads or commands the target
room through that room's session, and finishes the job. Between jobs the worker
task also sends SUBSCRIBE requests and receives NOTIFYs. The four lifecycle
machines never call one another: their effects record facts, and the
coordinator delivers these as events once the machine has settled. Network work
happens without the mutex; every HTTP request passes a dispatch fence
(`runtimeDispatchAllowed`) under it. The touch model acts on a copy of the shared
state that it takes every 100 ms, and the events it returns meet the runtime's
admission. On the board with a card reader, the main loop also serves the
browser's requests, polls the reader and runs one step of the card writer at a
time; while the writer is active, cards are not played.

**What is hard.** A job can end under the task that executes it (deadline, lost
network, shutdown, or preemption by a user's input), and the task goes on until
its request returns; its late results, publications and session changes meet a
newer job. A topology generation can outlive the job that opened it. A lease
runs on two clocks. Facts are delivered by code that records new facts. A command
is several exchanges with a speaker, any of whose replies may be lost, while
another controller changes it; an observation is ten exchanges. A render replaces
what a finger has been put on. A card leaves the field between two pages, and the
device sleeps while the browser's page lives on.
`PROJECT.json` lists each such hazard at its line, with the properties that
watch it.

**What makes the parts correct.**

- worker: at most one believed job, which the task really holds, and every job
  ends even if its task hangs;
- Wi-Fi, Sonos, subscription: the snapshot invariants of their headers, backoffs
  that grow and end, one authoritative read for each lost session;
- coordinator: facts delivered, peers agreeing, preemption that is not a
  failure, no orphaned generation, optimistic values owned by a running job;
- runtime: an ended job is inert, a mutation relies only on its own topology
  read, the display shows the selected room, a stopping device stays stopped;
- Application and transport: an uncertain command is settled by an admitted read
  and by nothing else; a success is true of the speaker; a failure changed
  nothing; no other player is touched, but by a mutation that was under way when
  the address moved; what an observation says was true at one moment;
- policy and plan: a frozen request stays as it was admitted, and its operations
  together are what was asked, quietly;
- rooms: the selection may be played and stays the user's, over restarts too, and
  nothing but a choice moves it from a room that is there;
- touch: a gesture is about what it began on, and is admitted only for what the
  runtime still has;
- artwork: a cover is of the track on display, and is tried again if it failed;
- sockets: an exchange ends with its job or its deadline, whatever the peer does;
- cards: a torn card reads as nothing, no text is overwritten that was not read,
  nor, by a page of this start, one that was not shown; a card that was used is not
  used again while it lies there, but once after a start; and the writer always
  lets go;
- web server: an answer reaches only who asked, and no client holds the server,
  whether it stalls or leaves.

## 2. The modules

| module | models | kind |
|---|---|---|
| `Lifecycle` | identities, timers, attempt counters, the capped exponential backoff the machines share | operators |
| `WorkerLifecycle`, `WifiLifecycle`, `SonosHealth`, `SubscriptionLifecycle` | the four transition tables; a handler is an operator from a machine and an event to the machine after it and the effects it raised | operators |
| `RuntimeCoordinator` | the class: one record, one operator for each method | operators |
| `Runtime` | both tasks around the coordinator: the state machine, its fairness and its properties | specification |
| `PreemptedRead` | `Runtime` with one history variable, for a sentence of the documentation | specification |
| `Household` | `SonosHealth` under an arbitrary caller, with backoffs that really grow | specification |
| `TopologyLease` | `SubscriptionLifecycle` against publishers with leases of their own | specification |
| `Intent` | `validateIntent`, `resolvePolicy`, `makePlan`, `combineMode` | operators |
| `Speaker` | what an operation of a plan does to a player, and what a request means for one (external) | operators |
| `Planning` | a request from admission to the last operation of its plan, with nobody else at the speaker | specification |
| `CommandOutcome` | what the outcome of a command promises | abstract specification |
| `Executor` | `Application` and `DirectSonos`, exchange by exchange, against a speaker that others use; implements `CommandOutcome` | specification |
| `Snapshot` | `DirectSonos::refresh`, what `Application` keeps of it, and the queue page | specification |
| `Rooms` | `RoomSelection`, the automatic read of a room and its publication, the preferred room in flash, restarts | specification |
| `DeadlineClient` | one HTTP exchange over the job's socket, call by call of the library | specification |
| `Artwork` | `ArtworkState`, the main task's `artworkUpdate`, the loader task and the queues | specification |
| `Touch` | `WaveshareUi`, `WaveshareShell`, `pollInput` and `runtimeUiMatches` | specification |
| `NtagPages` | `NtagWriter.h` and `cardNdef`: the memory of one tag, byte for byte | specification |
| `CardWriter` | the class `CardWriter`, the reader's loop of `Stick.cpp`, the browser's editor, cards, buttons and restarts | specification |
| `WriterServer` | the listener, its one connection, and the drafts | specification |
| `MCRuntime`, `MCTouch`, `MCRooms`, `MCPlanning` | views, constraints and instances for TLC | model checking |
| `MCTimed` | `Household`, `TopologyLease` (twice), `DeadlineClient` and `Artwork` | model checking |
| `MCCommands` | `Planning` and `Executor` | model checking |
| `MCObservations` | `Rooms` and `Snapshot` | model checking |
| `MCCards` | `CardWriter`, `NtagPages` and `WriterServer` | model checking |
| `LifecycleProofs` | backoffs and identities; each machine's handlers | proofs |
| `RuntimeProofs`, `JobProofs` | the coordinator's methods, the invariant of both tasks; jobs, generations and what a step may never do | proofs |
| `TimedProofs` | recovery and backoff of the household, the lease and its publisher, an exchange, a cover | proofs |
| `TouchProofs` | the invariant of a gesture | proofs |
| `CommandProofs` | plans lead to what was asked; a room's session, and that it implements `CommandOutcome` | proofs |
| `ObservationProofs` | what an accepted read says was true at one moment; a sound selection, which is the user's | proofs |
| `CardProofs` | the writer with its board and its page; the server's answers and drafts; a tag's memory between any two page writes | proofs |

`MCTimed`, `MCCommands`, `MCObservations` and `MCCards` explore several
specifications in one run: the variable `part` is chosen in the initial state and
says which of them a behaviour belongs to, while the others stay in one initial
state of theirs. A property of a part holds trivially in the initial state the
others rest in. Fairness on a part is conditional on `part`, so that a resting
part does not make a behaviour unfair.

### Runtime

The variables of `Runtime` are `c` (the coordinator and the display), `queue`
(`jobs`), `hand` (the job in the worker task's local variables, with a program
counter `pc`), `sessions` (the worker task's map of `Application` states),
`rooms` and `selected` (`RoomSelection`) and `main`. One action is one section
under the mutex, or one stretch of network work between two of them:

| action | code |
|---|---|
| `Boot`, `MainService`, `MainServiceWifi`, `UserInput`, `AutomaticJob`, `Maintenance`, `PowerOff`, `MainShutdown` | the main task: `begin`, and the sections of `loop` |
| `TakeRequest`, `RequestAnswered`, `NotifyArrives` | `TopologyEvents` on the worker task |
| `Receive`, `Pickup`, `ReadTopology`, `ApplyTopology` | `worker`, up to the choice of the session |
| `PublishUnavailable`, `Invalidate`, `Loading`, `ReadRoom`, `PublishRead` | a read |
| `Submit`, `Prepare`, `Execute`, `Verify`, `Conclude` | a command: `Application::submit`, cut wherever it publishes or waits |
| `Finish` | `finishJob` and `discardJobResult` |
| `Time` | one unit of time for one timer |

- Deadlines are what is left of them. In `Runtime` each timer elapses by
  itself, so that any order of two deadlines occurs; in `Household` and
  `TopologyLease`, where proportions matter, time is common to all.
- Identities come from finite pools; `FreshIn` takes the least that nobody
  holds. The code counts up in 64 bits, so that identities in use differ there
  too (`PoolsSuffice` shows that the pool never runs dry).
- An observation is fresh or stale; a command status is one of five values
  (`partial` counts as failed); an error text is nothing. A network call has an
  outcome chosen freely, success only if the dispatch fence was open. What
  commands and observations really are is in `Executor` and `Snapshot`.
- Left out: attempt ids of Wi-Fi (always the current one), counters and
  `lastError`, notices, logs, the cached discovery host, `configRemoved` and
  `WorkerUnavailable` (no caller), the retry of task creation (the task exists
  after `Boot`).
- A restart (`Maintenance`) or deep sleep ends a behaviour with `main = "down"`.
  What survives a boot is in `Rooms` and `CardWriter`, where `Restart` is an
  action.

### Commands: Intent, Speaker, Planning, Executor, CommandOutcome

A request is a record of optional fields (a set of at most one value each).
`Planning` admits a request under a configuration that may be replaced at once,
takes the baseline, and applies the plan's operations to the speaker one by one;
`PlanAchieves` compares the result with `AsAsked`, which is written from what a
request means and not from the plan. What callers may put together is `Wishes`,
before any check; `Intents` is what passes validation and fits the wire.
`PlanningAssumption` and `ExecutorAssumption` say what the constants may be: any
wishes, any policies the parser accepts, any valid requests, any speakers.

In `Executor` an action is one exchange with the speaker, or one section between
two: `Toggle`, `ToggleRead`, `Submit` (admission), `PrepareRead`,
`PrepareCheck` (the baseline), `Check` (already so?), `Guard` and `Dispatch` (who is
there, then the operation), `Wait`, `Mute`, `Guard` and `SetMute` (what follows an
operation), `Verify` with its polling, `Settle` and `Conclude` (the status and the
final read), `Finish` (what `Runtime` keeps or discards of the session), `Cancel`
and `Expire`. `Guard` is the identity GET that `GuardedHttp::request` makes before
each mutation, an exchange of its own: between it and the mutation (`Sending`) the
address may move. What is sent after that reaches whoever is there (`Sent`), and
what is then asked without a guard is answered by them (`Answers`). `Dispatch` and
`SetMute` may lose their request, or the reply to one that was carried out. `Tamper`
is another controller: it may change content, queue, transport, volume or mute,
regroup the player, or another player may take over its address.

`CommandOutcome` says what the caller may conclude: a failed command changed
nothing, only an uncertain one may have done something unknown, and such a one
blocks the next until an authoritative read. `Executor!ImplementsOutcome` is that
`Executor` implements it, with `busy` while the job is a command, `effect` what
its requests did to the speaker, by the history, and `outcome` and `blocked` what
`Application` says, or said before a job that is under way.

### Observations: Snapshot and Rooms

`Snapshot` goes through the exchanges of `DirectSonos::refresh` (identity,
transport, position, media, browse, position and media again) while the player
is changed in between, composes the replies or refuses, and keeps the queue page
beside the observation. `trace` lists the places the player was in during
the read, one more with every change. A player may leave the position out of a
reply; `Anchor` is what the code makes of two readings of which one has none.

`Rooms` has one action for a discovery (`Discover`: `update` on the worker's
topology), one for an explicit selection, one for a publication of the bound
room, one for the main task's write to flash, which may fail, and one for a
restart with any configuration. `Resolved` gives the players a configured name
stands for, `eligible` those that may be played. `choosing` says whether the last
step was a user's choice; no action reads it.

### Touch

A sample is `Press`, `Drag`, `Interrupt` or `NoFinger` (the finger lifts, or
nothing); `BootPressed` and `Show` change the top-level screen or the view;
`Render` copies the application state (`update`); the runtime changes by polling,
discovery, other input and the ends of jobs. An event that a sample returns goes
through `runtimeUiMatches` and admission in the same step, as in `loop`. `out`
remembers what the gesture began on.

### Cards: NtagPages, CardWriter, WriterServer

`NtagPages` holds a tag's user memory as bytes, with the factory prefix of one
type; a write goes one page at a time in the order of the transaction (the length
voided first, the page that completes the message last) and may stop after any
page; `Content` reads the tag as the NDEF reader would.

In `CardWriter` a step of the loop is `PollNfc` (the reader, the misses, the
board's session and playback) or `WriterStep` (`Detect`, `Read`, `StorePage`,
`Verify`), `Tick` the deadlines, `ArmRead`, `ArmWrite`, `NewCard` and `Cancel` the
browser's requests, `PagePoll` the page's view of the state, `Put` and `TakeAway` a
card, `Press` and `LetGo` a button, and `Restart` the device's deep sleep, which
forgets everything but the cards, where they lie, and the browser's page. `page` is
that page: the editor it shows (`doc`), the number it sends with a write (`editId`)
and the number it takes for loaded (`loadedId`), updated by `show` alone, whose
reply may be lost. `hist` is read by no action: what the device read since its start
(`read`), what the page showed when a write was asked for (`shown`) and whether that
was an editor of before the last start (`outdated`), what was asked for, the cards
used since they were put down (`used`), and those that were there when the device
started and wait for their first detection (`waiting`). A card that lies in the
field may miss polls, at most two in a row: three in a row count as its removal
in the code, and a reader that misses a card more often is outside what it is
written for.

`WriterServer` takes one connection at a time, reads its request and writes its
answer a piece per turn, gives up after a limit that counts from its acceptance,
and stops when the device's address goes or changes. A client may leave at any point
of this (`Leave`); the server takes the next one, or nobody (`Forget`), when it finds
the connection `Gone`. A share request leaves a
draft, and the list of drafts is bounded and expires.

### Exchanges and covers: DeadlineClient, Artwork

In `DeadlineClient` a call of the HTTP library is cut in two, the check of clock,
job and limit (`Check`) and what is then done to the socket (`Connect`, `Write`,
`ReadHead`, `ReadBody`), because the clock goes on and the job may end between
them. `ReadHead` is the library's byte by byte read, which tries again by itself
until the stream's timeout; that is why `stop` sets it to zero.

In `Artwork`, `Update` is one turn of the main task: selection, a completion, a
request. `Receive`, `Load` and `Send` are the loader's, `Stop` the device's. The
observation changes at any time, back to what it was too.

## 3. The runs

| run | parts | question | distinct states |
|---|---|---|---|
| `jobs` | Runtime | do job, generation, pending values and authority stay together, with a radio that comes and goes? | 0.6 M |
| `rooms` | Runtime | does the display follow the selection, is an ended job inert, does an uncertain command wait for a read of its room? | 0.7 M |
| `subscription` | Runtime | are all facts delivered, with leases and NOTIFYs, and does a sleeping device stay stopped? | 0.3 M |
| `progress` | Runtime | do jobs end and reads go on? (liveness) | 0.2 M |
| `timed` | Household, TopologyLease, DeadlineClient, Artwork | backoff growth, recovery, a lease that is backed and renewed in time, an exchange that ends, a cover of its track | 0.2 M |
| `commands` | Planning, Executor | do plans achieve what is asked, and do outcomes mean what they say? | 2.4 M |
| `observations` | Rooms, Snapshot | is the selection the user's, and an observation of one moment? | 1.1 M |
| `cards` | CardWriter, NtagPages, WriterServer | is what is written what was asked and shown, and does everybody let go? | 0.7 M |
| `touch` | Touch | is a gesture about what it began on? | 0.9 M |
| `preempted_read` | PreemptedRead | does a preempted read publish nothing? (violated) | |
| `touch_refused` | Touch | is a page that is awaited asked for? (violated) | |
| `writer_sleep` | CardWriter | is a card that was read loaded into the page? (violated) | |

**Bounds of Runtime.** The code's constants are 45 s for a read and for a
discovery, 90 s for a mutation, 15 s for a connection, 5 s for a SUBSCRIBE, a
lease cap of 300 s, backoffs from 1 to 30 s, a rate limit of 1 s and a poll every
10 s. In these runs a budget is one unit: since timers elapse independently, only
"running" and "elapsed" differ. `PollInterval` and `RateLimit` are 0 in the safety
runs, which lets an automatic read start at any time (more behaviours than the
code has), and 1 in `progress`.

- `jobs` has one room that stays eligible, refresh and mutation, and a radio that
  comes and goes; sleep is in `subscription`. A household without an
  eligible room is in `subscription`.
- `rooms` has two rooms, of which one comes and goes, and which distinguish the
  selected from the other: all the code does. It offers two job identities, so that
  two jobs are about at a time; the preempted job and the one behind it are what
  its properties need. Its constraint `HealthyHousehold` cuts off backoffs (jobs
  still expire and are preempted): failures of the network with commands are in
  `jobs`.
- `jobs` and `subscription` have four job identities: one in the hand, two in the
  queue, one believed (`PoolsSuffice`). Three generations can be held (machine,
  worker, hand), and three request identities.
- `subscription` has automatic and requested reads, one publisher, leases of 0 and of
  3 where 2 is the cap, and sleep, with one job in the queue at most
  (`QueueOfOne`; `jobs` fills it). `progress` has one room and refreshes.

`MCRuntime!View` names identities by the place that holds them and drops fields
that are written before they are next read. Identities are compared for equality
only, and so a state and its renaming satisfy the same properties. `progress`
does without the view.

**Bounds of the others.**

- `timed`: backoffs from 1 to 5 with a counter up to 5, which reaches the cap; two
  publishers of one SID each, or one publisher of two; grants that are invalid (0),
  shorter than a request, as long as one, at the cap (6) and above it, so that a
  lease lasts three requests and a renewal may be granted for much less than the
  lease it renews. In the behaviours with `prompt` a publisher grants and answers
  before time passes, and for more than one unit: a
  lease of a single unit is renewed in the unit in which it expires. An exchange
  with a deadline of 4, an inactivity limit of 2 and at most 4 bytes of a response
  that may be endless. Two tracks that may share the address of their cover, two
  changes (away and back), a retry after 1 on a clock that wraps at 4.
- `commands`: for `Planning`, every combination of source, transport, modes and
  volume, every place in and out of a range of 0 to 2 (`MaxU32`), three policies
  for the device and the target each, and eight speakers. For `Executor`, five
  requests (a source with modes, a station, a move with a relative volume, a seek,
  a queue item), a toggle and reads; two jobs, so that what a first one leaves
  meets a second; and one act of another controller at any point, between a guard
  and its mutation too, since a guard reads the speaker once and one change after it
  is what it can miss.
- `observations`: every configuration of two names, three players (a player, one
  that may answer to the same name, be in its group or be hidden, and one more; all
  come and go); two changes of the player within one read of a queue of up to three
  items, in which a song may occur twice.
- `cards`: two cards, which tell the card shown from another; two URLs; five acts
  of people, a card that lies there at first included; writes of two pages, so that there is a moment between them; deadlines
  of one unit. Either nothing is on the reader at first and the page was just
  opened, or a card lies on it as the device starts and the page still shows the
  other one, with the number the next read will get. Tags of 144 and 504 bytes, texts on both sides of what fits and of
  each limit of the short forms, two writes, the second on what the first left.
  Three clients, of which one may leave (`Leavers`), and two drafts, one client more
  than fills the list.
- `touch`: one page more in one queue revision than in the other, two rooms on a
  page of one row, one change of the application between two samples, refusals.

`CHECK_DEADLOCK` stays on everywhere; where a behaviour may end (a sleeping
device, a bound that is reached) it stutters in an action of its own (`Asleep`,
`Rest`, `NoMore`).

**The properties.** Each has a comment in its module. Where one is a conjunction,
its parts are named in the module of the part. The deeper ones:

- `JobRecordsHeld`: a believed job is really held by the task or the queue
  (`RunningJobHeld`), so is each preempted one (`PreemptedJobsHeld`), and
  optimistic values and the word "pending" belong to a running mutation
  (`PendingValuesOwned`, `PendingStatusOwned`).
- `EndedJobIsInert`: while a newer job runs in time, nothing the task still does
  for an ended one changes the coordinator or the display, except the removal of
  its own preemption record. At most the lifecycles are serviced.
- `NoOrphanGeneration`: a discovery in progress is bound to the running job, or
  offered to the next one. Without it the device waits 45 s.
- `MutationUnderOwnTopology`: the dispatch fence opens for a mutation only in the
  generation that this job's own topology read made Ready.
- `PreemptionIsNotFailure`: the step that preempts leaves observation, command
  status, failure streak and reconciliation schedule alone.
- `UncertainUntilRead`: no cancelled or preempted job settles a command.
- `StoppingIsFinal`: after the stopping flag is set, no admission, no authority,
  no fresh observation, although the task may be anywhere.
- `ServiceSettles`: servicing twice in one millisecond is servicing once; input is
  admitted two or three times under one lock.
- `SessionBackoffGrows`: although each retry reads the topology successfully and
  thereby resets the discovery attempts.
- `ReconcileExactlyWhenOwed`: `owed` is kept by an observer, independently of the
  flag `recovering` in the code.
- `BelievedLeaseBacked`: the believed lease exceeds the publisher's by less than
  the time of one request, for late answers and former publishers too. There is
  one exception, in which the device is not deaf for longer either: a renewal
  granted for less than is left of the lease takes effect at the publisher at once
  and at the device with the answer, and without an answer the device gives the
  lease up at the deadline of the request.
- `RenewedInTime`: while its publisher is prompt a device loses its lease only by
  going over to another one, or with the discovery.
- `RequestIsBounded`: after the deadline or the end of the job the socket is
  touched at most once more, by a call that was checked before, and the exchange
  fails within three steps, although the library's reader asks again by itself.
- `CoverIsOfTheTrack`: over every order of changes, downloads and completions; and
  a request in flight is in exactly one place.
- `NothingHangs`: backoffs and discoveries end, so does each exchange, and a
  wanted cover is tried again.
- `SuccessIsTrue`: if nobody else acted, a reported success is what `AsAsked` says
  of the speaker as it was when the job began, and a toggle reverses what the
  speaker did then, not what the display said.
- `OnlyTheTarget`: of a job's mutations none is sent to a player that took over the
  target's address, but for the one whose own identity answer had come when the
  address moved (`docs/planner-executor.md` says that check and mutation cannot be
  made one); and nothing of the plan follows that one there (`OnlyTheSlipped`).
- `PlaceIsTheOneChosen`: a seek that succeeded moved within the content it was
  chosen in, although others may put another in its place at any exchange.
- `ObservationIsCoherent`: if no more than two changes of the player fell into an
  accepted read, its source, track and song were true together at one moment of it
  (`Coherent`); the index is one of the revision beside it
  (`IndexIsOfItsRevision`), progress counts from the reply that brought it
  (`PositionIsAnchored`), and a queue page agrees with the observation
  (`PageAgrees`).
- `SelectionIsTheUsers`: only a choice moves the selection away from a room that
  can still be selected (`NothingSteals`), so that a preferred room which returns
  does not take it back from a fallback that is still listed; and after a boot the
  room in flash is selected if it is there.
- `SessionsMatch`: an operation has its card and its board session; and a card that
  was read, written or played since it was put down is not played again. The one
  exception is stated in it: a card that is on the reader when the device starts is
  played at its first detection, since the latch is not kept.
- `WritesAreSafe`: in every memory that a torn write can leave, the tag reads as
  nothing; after a finished write it reads as the new text; and it can always be
  written again.
- `WritesAsAsked`: a write only replaces a text that the device read from that very
  card since it started and that was on the page when the write was asked for, and
  what is reported as done is what was asked. The exception to the second is a page
  that outlived a start of the device and still has an editor of before it: see
  `writer_sleep` below.
- `AnswersAreOwn`: every answer reaches the client whose request it is for, once,
  although connections are cut off, time out or are left with part of an answer
  unsent.
- `ActsOnWhatItBegan`, `AdmittedForWhatIsThere`: from the row under the finger at
  contact to the room, track and revision the runtime has at admission.

**Fairness.** In `Runtime`, `HungTaskSpec` is fair to the main loop (`service` is
called when it has something to do) and to the worker's deadline, and to nothing
of the worker task: that is what "tasks are never forcibly deleted" leaves, and
`JobsEnd` holds under it. `ReadsGoOn` has `TaskFairness` as its hypothesis: the
radio is sampled, the other timers run, and every request the worker task waits
for ends, since `DeadlineClient` bounds it (`RequestIsBounded`). It is also
strongly fair to `AutomaticJob`: a turn of the loop takes milliseconds and a
discovery stays open for 45 s, so that a turn that keeps falling due is taken. The
conditions are written out (`TaskDue`, `ServiceDue`, ...) in place of `ENABLED`,
which TLC evaluates by enumerating every successor. No fairness is assumed of user
input, of discoveries succeeding or of the network.

`timed` is fair to the household's clock and to its caller's tick, to the client of
an exchange and its clock, not to the peer; and for the cover to the loader task,
whose download has a deadline, to the clock, and strongly to the main task's
update, which runs ten times a second while a retry stays due for weeks.
`observations`
is fair to `Save`, which the main task attempts at every turn. `cards` is fair to
the board's loop (`LoopFairness`), the writer's clock and the server's loop, not
to any client, card, button or page: `NobodyHoldsForEver` is that an operation
ends, and a connection too, whatever they do. A button that is held keeps the loop
from the reader and from `WriterStep`, but not from the deadline (`Tick`): the writer
ends its operation even if the button is never let go, and only the board's session
with the card waits until no finger rests on it. `touch_refused` is fair to renders and to the ends of jobs.

**The violated runs.**

- `docs/runtime-lifecycles.md` says that "a Preempted job never publishes". A read
  publishes while it is active and takes the mutex again for `finishJob`; a user
  job admitted between the two preempts a read that has published. The session is
  then restored to what it was before the read, and the display keeps the newer
  observation. `preempted_read` finds this.
- `docs/waveshare-frontend.md` says that the queue screen requests its page again
  after invalidation. A request that is refused at admission leaves
  `queueRequested` set, with no page, no error and no busy edge that would clear
  it: `touch_refused` ends in "Loading queue..." for good.
- `docs/tag-writer.md` says that reading a card loads its fields. The page loads
  them when the operation number differs from the one it loaded last, and numbers
  start again with the device: `writer_sleep` finds a card that is read as the
  first operation after a restart and not loaded. A write with the fields on the
  page then goes through: the page sends its old number, which is the new editor's
  too, and `checkEdit` compares the card with what the device read. So a text is
  overwritten that the page never showed. `WritesAsAsked` names this case
  (`hist.outdated`) and is violated in `cards` without the exception.

Four more divergences were met and have no run of their own. With three changes
within one read, back to the first source in between, first and last replies are
equal and the observation pairs what was never together, although the comment at
`SurfaceSonos.cpp:652` rules this out. This is why `Coherent` has a hypothesis;
with `MaxChanges <- 3` and without the hypothesis TLC shows such a read. And a
selected player that is renamed to another configured name keeps the selection,
although the comment at `Rooms.cpp:90` says that no saved identity survives a
rename; the room in flash is not affected. A card that lies on the reader while the
device sleeps or restarts is played when it starts, although it was played, read or
written before and never removed: `docs/product.md:40` says that "one continuous
card presentation creates one request", `docs/hardware.md:25` that only removal
permits another, and `docs/tag-writer.md:44` that the latch prevents a card from
"playing after verification", but the latch (`Stick.cpp:45`) starts anew. The board
hands that payload to the runtime, which may still refuse it. `SessionsMatch` is
violated in `cards` without `hist.waiting`. Finally, where the first reading of a
position has one and the second has none, the first one's value is kept with the
second one's time, which the comment at `SurfaceSonos.cpp:657` rules out; both are of
the same content, and `PositionIsAnchored` is about readings that have one.

## 4. The proofs

TLAPS checks the following for every value of the constants that the named
assumptions allow: any set of rooms, of publishers and of identities, any
budgets, backoffs and leases, any requests, policies and speakers, any topologies,
queues and browsers, any tags and texts. TLC evaluates the assumptions in the runs.

### Runtime

`RuntimeProofs`: `Spec => []TypeOK` (`TypeCorrect`), which includes the snapshot
invariants of the three headers, and `FactsDelivered`, `PeersAgree` and
`DisplayShowsSelection` as invariants (`FactsAlwaysDelivered`, `PeersAlwaysAgree`,
`DisplayFollowsSelection`). They rest on
`IInv == CoordinatorOK(c) /\ TasksOK /\ DisplayShowsSelection`. `CoordinatorOK` is
`Consistent` (types and shapes), `Peers` and `Delivered`. The strengthening is
needed for two reasons. Types alone are not inductive: a machine has its shape
after a timeout only if it had it before. And agreement between the machines holds
only when their facts are delivered: inside a method, between an event and its
delivery, Wi-Fi may already be down while Sonos still believes in it, and the
recorded fact is what makes up the difference. `LifecycleProofs` proves that each
handler keeps its machine's shape and reports what it did. `RuntimeProofs` then shows
that events keep `Consistent`, that delivery empties the facts and restores
agreement (`ApplyFactsDelivers`), and that each method is sound from it, and
takes the actions of `Next` one at a time.

`JobProofs` strengthens this to `JInv == IInv /\ JobsHeld`, which ties what the
coordinator believes to what the worker task's program counter, its hand and the
queue hold. The job the coordinator runs is the last one admitted (`LastJobRuns`);
a job is told the generation it is bound to, and its read is reported once
(`BoundAsTold`); identities in hand and queue differ, and only user jobs are
mutations (`QueuedOK`, `InHandOK`); preempted identities are held by somebody
(`PreemptedOK`); "pending" is said only while the mutation in hand is the last job
and stands between its submission and its end (`PendingStatusOK`); and a doubt
survives a job unless its read was good (`DoubtKept`). The properties alone are not
inductive: that a preempted record is removed by the job it names, for instance,
needs that no other job has its identity, and that the fence of a mutation closes
with its generation needs what the job was told at `Pickup`.
From `JInv`:

- `JobRecordsAlwaysHeld`, `GenerationsAreNotOrphaned`,
  `MutationsAreUnderOwnTopology`: `JobRecordsHeld`, `NoOrphanGeneration` and
  `MutationUnderOwnTopology` are invariants. The first has a hypothesis,
  `LargePools`: each pool keeps an identity beyond any three numbers, because
  one part of the property says that identities never run out. The code counts
  up and does not.
- `ServiceAlwaysSettles`: servicing twice is servicing once, machine by machine.
- `DoubtEndsWithARead`, `NothingRevivesAStoppingDevice`, `EndedJobsAreInert`,
  `PreemptionCostsNothing`: the action properties `UncertainUntilRead`,
  `StoppingIsFinal`, `EndedJobIsInert` and `PreemptionIsNotFailure`.

### Touch

`TouchProofs`, under `TouchAssumption` (a page has rows, lists of rooms are not
empty): the invariant `IInv == AppOK /\ UiOK(ui) /\ OutOK` ties a page to the
revision and length it was cut from, a press to the screen it began on, and the
last event to what was on that screen then. `EndsWhatItBegan`,
`AdmittedIsCurrent`, `GestureEndsWithScreen` and `StartsInRange` follow: the three
invariants of the run for every list, page size and number of pages. It has to say
that a finger which is down and not cancelled is still on the room, track and
revision it began on: the row under it means the same only as long as no render
has replaced the copy.

### Household, lease, exchange and cover

`TimedProofs` has the four parts of `timed`, each with an inductive invariant of its
own.

- `HouseholdInv`: what the observer `owed` says follows from the machine. A read
  is owed in `Offline` and `Backoff`, not in `Ready`, and while a discovery is on
  its way exactly if the machine calls it a recovery. From it
  `ReconciledExactlyWhenOwed` (`ReconcileExactlyWhenOwed`) and, with the row of
  failures counted by the machine (`RowInv`), `SessionsBackOff`
  (`SessionBackoffGrows`). The latter needs that `RetryDelay` never decreases
  (`RetryDelayGrows`): the prover knows nothing of powers, but the library says
  that a set of n elements has 2^n subsets, and an interval has those of a shorter
  one.
- `LeaseInv`: a request that is waited for is for the machine's publisher and SID
  (`RequestsAreOwn`), and a grant that can still be used, together with what is
  left of the request, is covered by the publisher's lease and one request. The
  latter is what makes a late answer harmless. `LeasesAreBacked` is
  `BelievedLeaseBacked`, given that the pool keeps an identity beyond any three
  numbers (`ManyRequestIds`); the believed lease is bounded for every cap and
  every grant. With `Renews`, which holds under a prompt publisher,
  `RenewalsComeInTime` is `RenewedInTime`, for a cap of more than one unit (the
  code's is 300 s).
- `ClientInv`: where the loop of an exchange stands says how much it may have done
  since it lapsed. `RequestsAreBounded` is `RequestIsBounded`.
- `CoverInv`: where the request is, what it is for, and that what is on display
  was accepted for what is still wanted. `CoversAreOfTheTrack` is
  `CoverIsOfTheTrack`.

The attempt to prove the lease corrected the property. It used to say that the
believed lease never exceeds the publisher's by more than a request, without the
exception for a renewal granted for less. That holds only where the last fifth of a
lease, in which it is renewed, is no longer than a request, as in the bounds the run
had then; the code's are 60 s and 5 s.

### Commands

`CommandProofs` begins with lemmas about `Intent` and `Speaker` that both parts need.
`Plans`: the plan of a valid request is not empty, holds every operation the
request needs and none other, clears a queue only before adding to it, and
settles the transport last. `ModesMean`: `combineMode` writes the name that
`refresh` reads back as what was asked, and keeps the rest. `OperationsMove` and
`OperationsMake`: what each operation changes and what it leaves.

Its second part is about `Planning`, under `PlanningAssumption`: `FreezingIsValid`
(no accepted policy makes a valid request invalid), and the inductive invariant
`PlanInv`, of which `Ahead(q, i, b, s)` is the heart: for content, place,
transport, volume and mode, the operation that brings it about is still in the
rest `q` of the plan, or it is done and nothing in `q` undoes it. A plan has
everything ahead of it (`AheadAtFirst`), an operation does its part
(`AheadGoesOn`), and with nothing left the speaker is `AsAsked` (`AheadAtLast`).
`PlansAreFaithful` and `PoliciesAreKept` are `PlanIsFaithful` and
`PolicyAsAdmitted`.

Its third part is about `Executor`, under `ExecutorAssumption`, with the inductive
invariant `EInv`. Its parts are `Typed`; `PlanOK`, where a job stands in its plan
by its program counter; `EffectOK`, what the history, the job's flags and
`Application` say of the effect together; `PlaceOK`, which content the last seek
moved in; `UntouchedOK`, how far the plan has brought a speaker that nobody else
touches, up to `AsAsked` when `Verify` has compared the rest. Beside it stands
`StrayOK`, where the mutations went: an identity answer was the target's, so that a
mutation is about to go elsewhere only if the address moved since that answer, and
once one has gone there, no guard lets another one through. From them:

- `SuccessHolds`, `PlacesHold`, `TargetHolds`: `SuccessIsTrue`,
  `PlaceIsTheOneChosen` and `OnlyTheTarget`;
- `OutcomesImplemented`: `Spec => ImplementsOutcome`, the refinement of
  `CommandOutcome`. Initial states map to initial states, and each action maps
  to a step of the abstract command or to a stutter; lost replies, cancellation,
  deadlines and preemption are each a case of their own.

### Observations

`ObservationProofs` has both parts of the run `observations`.

- `SnapshotInv`, under no assumption but the types: the exchanges of a read follow
  one another, and after each of them a claim says what the replies so far are
  worth. After the first position the player is where it said, or was changed
  since. After the media reply the two replies were true together at some place of
  the trace, or the player has the source of that reply and was changed once, or
  it was changed twice; and so on for the second position and the second media
  reply (`TraceOK`). Equal replies at the beginning and the end then leave three
  changes as the only way to be deceived, which is the exact bound of the two
  comparisons in the code. Queue revisions only grow, so that a revision that is
  still the player's was its revision at the last position reply too
  (`RevisionOK`); a position ages with the player while nobody touches it
  (`AnchorOK`). `ObservationsAreCoherent` is `ObservationIsCoherent`.
- `RoomsInv`, under `RoomsAssumption` and `TopologiesAssumption` (a topology has
  finitely many players, at least one, each of a known shape): until the first
  topology after a boot nothing is selected and what is preferred is what flash
  had (`Untouched`); after it the selection was made from the topology last seen
  (`MadeFrom`). `InOrderLists` shows that the sorted list has every room once, for
  which the order on names and UUIDs must be total. `SelectionsAreSound` and
  `SelectionsAreTheUsers` are `SelectionIsSound` and `SelectionIsTheUsers`.

### Cards

`CardProofs` has the three parts of the run `cards`.

- `CardInv`, under `CardWriterAssumption`: operations have their owner, session
  and card (`SessionIsItsOperations`, `OwnersOK`), a card that something was done
  with is latched as long as it lies there, or waits for its first detection since
  the device started (`UsedIsLatched`), the text to edit is the one read last
  (`EditorWasRead`), a write is the one asked for
  (`AskedIsIntended`), and before its first page the card is what `checkEdit`
  compared, after it the card reads as nothing (`CheckedOrBlank`). `SessionsMatch`
  alone is not inductive: that a card is not played needs the latch, and a button
  may delay the release while the browser arms the next operation. From it
  `SessionsAreMatched` (`SessionsMatch`). `PageInv` adds the browser's page: numbers
  of a page that loaded its editor since the device started are numbers already
  given, so that a page with the editor's number has the editor's text (`EditorOK`),
  and a write under way edits what the page showed, unless it is `outdated`
  (`EditIsShown`). From it `WritesAreAsAsked` (`WritesAsAsked`).
- `ServerInv`, under `ServerAssumption` (at least one draft fits, and there are
  more numbers than drafts in the list): who is connected waits for its answer or
  has left, and what is to be sent is for it (`OpenIsServed`), no request is carried out twice
  (`DoneOnce`), and the list of drafts is the end of all that were ever made,
  those before it having expired or given way (`TheLastMade`). The last needs that
  drafts expire in the order in which they were made (`InTheirOrder`), as the list
  is cut from its front. `AnswersAreTheirs` is `AnswersAreOwn`.
- `MemoryInv`, under `NtagAssumption` (sizes are whole pages, a URI of a card
  begins with https://, and a text found on a tag fits there): while a write is
  under way the message begins where `PrefixOf` says and has no length, every page
  the write has sent holds what was to be sent, and the page with the length comes
  last (`Underway`, `Sent`). The lemmas before it are about bytes: `ReadBack` says
  that what `cardNdef` encodes, padded and with or without the factory's prefix,
  is read back as the same card, in the short and in the long forms of both
  headers; `Voided` that a message without its length is read as nothing.
  `MemoriesAreSafe` is `WritesAreSafe`, for every tag size and every length of a
  text.

### Only model-checked

- Liveness: `JobsEnd`, `ReadsGoOn`, `NothingHangs`, `NobodyHoldsForEver` and
  `ChoiceIsSaved` are out of the prover's reach. Every invariant and every action
  property of the runs that hold is stated by a theorem.
- `PreemptedReadPublishesNothing`, `PageIsAskedFor` and `ReadIsLoaded` are violated.
- `RetryDelay` is given in closed form; the loop it stands for is compared with it
  by reading. So is `InOrder`, which stands for `std::sort`.
- That the runs' instances satisfy `PlanningAssumption`, `ExecutorAssumption` and
  the others is what TLC evaluates; that the code's callers do is read from
  `validateIntent`, `parseModePolicy`, `parseSourcePolicy` and `authorCard`.

## 5. Not modelled

- Parsing and formatting: intents and configuration as JSON, XML, SOAP and DIDL,
  HTTP, URLs of sources, display IDs as strings. They are pure functions over
  strings, whose interesting inputs are character by character; the models begin
  where the parsed value is used. What was refused by a parser is not an input.
- Drawing: LVGL, layout, `ViewModel`, status texts, toasts.
- `DevicePower` (the inactivity boundary; `Runtime` lets the device sleep whenever
  it may), the button recognisers, USB injection: small sequential machines, whose
  properties would restate their conditions.
- The contents of covers: download format, JPEG decoding, scaling.
- The 30 s retry of task creation, diagnostic counters, the cached discovery host.
- Host scripts and tests.

`PROJECT.json` gives the status of each component and the reason.

## 6. Plan

1. *Done*: lifecycles, coordinator and both tasks; `Household`, `TopologyLease`;
   `Executor` implementing `CommandOutcome`, `Planning`, `Snapshot`, `Rooms`,
   `Touch`, `CardWriter`, `NtagPages`, `WriterServer`, `DeadlineClient`, `Artwork`.
2. *Done*: a theorem for every invariant and every action property of the runs that
   hold, and the refinement of `CommandOutcome`.
3. Open: `JobGate`, an abstract specification of the worker's promise (one job at a
   time, a single outcome for each, user over automatic, nothing after the
   end), and `Runtime` shown to implement it.

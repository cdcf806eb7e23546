------------------------------ MODULE Artwork -------------------------------
(***************************************************************************)
(* The cover on the Waveshare: ArtworkState on the main task, and the task *)
(* that downloads and decodes, with a queue of one request and one of one  *)
(* completion between them.  The observation changes while a cover is on   *)
(* its way, memory runs out, the network goes, and the device stops.       *)
(*   observed  what boardRender passes on         now   millis, modulo Wrap*)
(*   art       ArtworkState, and which cover it is about                   *)
(*   visible   the pixels on the screen, if any: what they are a cover of  *)
(*   io        the queues, `wanted', running, started, startRetry, stopping*)
(*   task      the other task: where it is, its request and its pixels     *)
(*   changes   of the observation so far                                   *)
(***************************************************************************)
EXTENDS Integers, Sequences

CONSTANTS
    Tracks, Urls,       \* what a room may play, and where covers may be
    Retry,              \* between two attempts, 30 s
    Wrap,               \* where millis wraps, 2^32
    MaxChanges

ASSUME ArtworkAssumption == Wrap \in Nat \ {0} /\ Retry \in Nat /\ MaxChanges \in Nat

VARIABLES observed, now, art, visible, io, task, changes
artVars == <<observed, now, art, visible, io, task, changes>>

NoUrl == "none"
Observations == [track : Tracks, url : Urls \cup {NoUrl}, usable : BOOLEAN]

\* int32_t(now - t) >= 0
Reached(t) == (now - t) % Wrap < Wrap \div 2
In(time) == (now + time) % Wrap

Request(a) == [token |-> a.generation, track |-> a.track, url |-> a.url]
NoPicture == [track |-> "", url |-> NoUrl, generation |-> 0, ready |-> FALSE, failed |-> FALSE,
              retryAt |-> 0]
Waiting == [at |-> "wait", request |-> Request(NoPicture), pixels |-> {}]

CoverInit ==
    /\ observed \in Observations /\ now \in 0 .. Wrap - 1
    /\ art = NoPicture
    /\ visible = {}
    /\ io = [requests |-> <<>>, completions |-> <<>>, wanted |-> 0, running |-> FALSE,
             started |-> FALSE, startRetry |-> 0, stopping |-> FALSE]
    /\ task = Waiting
    /\ changes = 0

\* ArtworkState::select: another track or another cover is another generation.
selected ==
    IF art.track = observed.track /\ art.url = observed.url THEN art
    ELSE [track |-> observed.track, url |-> observed.url, generation |-> art.generation + 1,
          ready |-> FALSE, failed |-> FALSE, retryAt |-> 0]

wantsLoad(a) ==
    observed.usable /\ ~a.ready /\ a.url # NoUrl /\ (a.failed => Reached(a.retryAt))

\* Mutant: any result will do while one is awaited.
AcceptsAwaited(a, done) == ~a.ready

\* ArtworkState::complete: a result of another generation changes nothing.
Accepts(a, done) == done.token = a.generation
complete(a, success) ==
    [a EXCEPT !.ready = success, !.failed = ~success, !.retryAt = In(Retry)]

\* What the main task receives in this turn: at most one completion.
Arrived == IF io.started /\ io.completions # <<>> THEN {Head(io.completions)} ELSE {}

\* artworkUpdate, one turn of the main task: the selection, a completion, and a
\* request, for which the task may have to be created.
Update ==
    /\ ~io.stopping
    /\ \E created \in BOOLEAN :
        LET changed == selected.generation # art.generation
            own     == {d \in Arrived : Accepts(selected, d)}
            pixels  == UNION {d.pixels : d \in own}
            after   == IF own = {} THEN selected ELSE complete(selected, pixels # {})
            running == io.running /\ Arrived = {}
            wants   == ~running /\ wantsLoad(after)
            begins  == wants /\ ~io.started /\ Reached(io.startRetry)
            started == io.started \/ (begins /\ created)
            sends   == wants /\ started
            full    == io.requests # <<>>
        IN  /\ created => begins
            /\ art' = IF sends /\ full
                      THEN complete(after, FALSE)
                      ELSE after
            /\ visible' = IF own # {} THEN pixels ELSE IF changed THEN {} ELSE visible
            /\ io' = [io EXCEPT
                        !.wanted = selected.generation,
                        !.completions = IF Arrived = {} THEN @ ELSE <<>>,
                        !.running = running \/ (sends /\ ~full),
                        !.started = started,
                        !.startRetry = IF begins THEN In(Retry) ELSE @,
                        !.requests = IF sends /\ ~full
                                     THEN <<Request(after)>> ELSE @]
    /\ UNCHANGED <<observed, now, task, changes>>

\* current(): still the generation the main task wants.
Current == ~io.stopping /\ io.wanted = task.request.token

\* The task may have been waiting since before the device stopped.
Receive ==
    /\ task.at = "wait" /\ io.requests # <<>>
    /\ task' = [at |-> "load", request |-> Head(io.requests), pixels |-> {}]
    /\ io' = [io EXCEPT !.requests = <<>>]
    /\ UNCHANGED <<observed, now, art, visible, changes>>

\* load: it may fail at any point, and succeeds only if it is current after the
\* decoding; the thumbnail is made after that.
Load ==
    /\ task.at = "load"
    /\ \/ Current /\ task' = [task EXCEPT !.at = "send", !.pixels = {task.request}]
       \/ task' = [task EXCEPT !.at = "send"]
    /\ UNCHANGED <<observed, now, art, visible, io, changes>>

\* A completion for which there is no room is freed, and nobody told.
SendCompletion ==
    /\ task.at = "send"
    /\ io' = IF io.completions # <<>> THEN io
             ELSE [io EXCEPT !.completions = <<[token |-> task.request.token, pixels |-> task.pixels]>>]
    /\ task' = Waiting
    /\ UNCHANGED <<observed, now, art, visible, changes>>

\* artworkStop: the device is about to sleep.
Stop ==
    /\ ~io.stopping
    /\ io' = [io EXCEPT !.stopping = TRUE]
    /\ UNCHANGED <<observed, now, art, visible, task, changes>>

\* The room, the track or its cover change, or whether the room can be reached.
Observe ==
    /\ changes < MaxChanges
    /\ observed' \in Observations \ {observed} /\ changes' = changes + 1
    /\ UNCHANGED <<now, art, visible, io, task>>

CoverTick == now' = In(1) /\ UNCHANGED <<observed, art, visible, io, task, changes>>

Work == Receive \/ Load \/ SendCompletion

CoverNext == Update \/ Work \/ Stop \/ Observe \/ CoverTick
CoverSpec == CoverInit /\ [][CoverNext]_artVars

\* The main task renders ten times a second, and a retry that keeps falling due is
\* taken; the download has a deadline, and time passes.
CoverFairness == SF_artVars(Update) /\ WF_artVars(Work) /\ WF_artVars(CoverTick)

\* What is shown is the cover of the track the state is about, from the address
\* it has now, although a download of an earlier one may end at any time; and no
\* buffer is lost on the way: a running request is in one place.
InFlight == Len(io.requests) + Len(io.completions) + (IF task.at = "wait" THEN 0 ELSE 1)
CoverIsOfTheTrack ==
    /\ \A p \in visible : art.ready /\ p.track = art.track /\ p.url = art.url
    /\ InFlight = (IF io.running THEN 1 ELSE 0)

\* Liveness: once the task exists, a cover that is wanted is shown or tried again,
\* wherever the clock wraps.
Wanted == io.started /\ ~io.stopping /\ observed.usable /\ selected.url # NoUrl /\ ~selected.ready
CoverIsTriedAgain == Wanted ~> (~Wanted \/ io.running)
=============================================================================

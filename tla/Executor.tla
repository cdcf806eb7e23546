------------------------------ MODULE Executor ------------------------------
(***************************************************************************)
(* One room's session: Application and the DirectSonos transport under it, *)
(* on the worker task, against a speaker that other controllers use too.   *)
(* An action is one exchange with the speaker, or one section between two. *)
(*   spk       the speaker; the device sees it only by reading             *)
(*   app       Application: last observation, status, recoveryRequired     *)
(*   sonos     DirectSonos: prepared request, baseline, proven address     *)
(*   job       the call under way, `pc' where it stands                    *)
(*   retained  the session before the job (Runtime keeps it)               *)
(*   hist      for the properties: the speaker at the job's start, what the*)
(*             job did to it, whether others acted since, how many of its  *)
(*             mutations strayed to another player, and whether the address*)
(*             slipped away while a mutation was on its way to be sent     *)
(***************************************************************************)
EXTENDS Speaker, FiniteSets

CONSTANTS Requests, Speakers, MaxTampers, MaxJobs

\* Requests come from validateIntent; nobody has moved within the content yet.
ASSUME ExecutorAssumption ==
    /\ \A i \in Requests : i \in Intents /\ validateIntent(i)
    /\ \A s \in Speakers : s \in SpeakerType /\ s.moved = "no" /\ s.content >= 0

VARIABLES spk, app, sonos, job, retained, tampers, jobs, hist
executorVars == <<spk, app, sonos, job, retained, tampers, jobs, hist>>

Mutations == {"submit", "toggle"}
NoJob == [kind |-> "none", pc |-> "idle", intent |-> EmptyIntent, todo |-> <<>>,
          completed |-> FALSE, result |-> "ok", cancelled |-> FALSE, preempted |-> FALSE,
          late |-> FALSE, again |-> FALSE]

\* What a read of the player reports; another player at the address reports its own.
View(s) == [s EXCEPT !.grouped = FALSE, !.here = TRUE,
                     !.content = IF s.here THEN @ ELSE -1, !.volume = IF s.here THEN @ ELSE 0]

Init ==
    /\ spk \in Speakers
    /\ app = [seen |-> {}, stale |-> TRUE, status |-> "idle", recovery |-> FALSE]
    /\ sonos = [prepared |-> FALSE, base |-> {}, proven |-> FALSE]
    /\ job = NoJob /\ retained = app
    /\ tampers = 0 /\ jobs = 0
    /\ hist = [start |-> spk, effect |-> "none", touched |-> FALSE, movedOn |-> 0,
               strays |-> 0, slipped |-> FALSE]

At(pc) == job.pc = pc
Goto(pc) == job' = [job EXCEPT !.pc = pc]
GiveUp == job' = [job EXCEPT !.pc = "finish", !.result = "failed"]
Fails(uncertain) ==
    job' = [job EXCEPT !.pc = "settle", !.result = IF uncertain THEN "uncertain" ELSE "failed"]
Base == The(sonos.base)
Op == IF Head(job.todo) = "RestoreTransport"
      THEN IF Base.transport = "PLAYING" THEN "Play" ELSE "Pause" ELSE Head(job.todo)
Proceed ==
    job' = [job EXCEPT !.todo = Tail(@), !.completed = TRUE,
                       !.pc = IF Len(job.todo) = 1 THEN "verify" ELSE "check"]

\* The requests of a job that has ended fail at the dispatch fence.
Open == ~job.cancelled /\ ~job.preempted
\* identity(): the device description names the player at the address.
Identified == Open /\ spk.here
\* readIdentity(): reads trust an address whose identity this session has proven.
Readable == Open /\ (spk.here \/ sonos.proven)
Keep == UNCHANGED <<retained, tampers, jobs>>

----------------------------------------------------------------------------
(* A job begins once its topology read has shown the room on its own, at an*)
(* address the session now uses.                                           *)
BeginJob(kind, pc, i) ==
    /\ At("idle") /\ jobs < MaxJobs /\ ~spk.grouped
    /\ job' = [NoJob EXCEPT !.kind = kind, !.pc = pc, !.intent = i]
    /\ retained' = app
    /\ jobs' = jobs + 1
    /\ spk' = [spk EXCEPT !.here = TRUE]
    /\ sonos' = [sonos EXCEPT !.proven = @ /\ spk.here]
    /\ hist' = [hist EXCEPT !.start = spk', !.touched = FALSE, !.strays = 0, !.slipped = FALSE,
                            !.effect = IF kind = "read" THEN @ ELSE "none"]
    /\ UNCHANGED tampers

Read == BeginJob("read", "reconcile", EmptyIntent) /\ UNCHANGED app

Toggle ==
    /\ ~app.recovery
    /\ BeginJob("toggle", "toggleRead", EmptyIntent)
    /\ UNCHANGED app

Submit ==
    /\ ~app.recovery
    /\ \E i \in Requests : BeginJob("submit", "prepareRead", i)
    /\ app' = [app EXCEPT !.status = "pending"]

Observed(a, v) == [a EXCEPT !.seen = {v}, !.stale = FALSE]

\* reconcile: recovery can never resume the operations of an old plan.
Retired(s) == [s EXCEPT !.prepared = FALSE, !.base = {}]

\* Application::reconcile, which retires whatever was prepared, and the read
\* that a toggle starts with.
ReadObservation(kind) ==
    /\ sonos' = [(IF kind = "read" THEN Retired(sonos) ELSE sonos) EXCEPT
                    !.proven = @ \/ Readable]
    /\ UNCHANGED <<spk, hist>> /\ Keep

Reconcile ==
    /\ At("reconcile") /\ ReadObservation("read")
    /\ \/ /\ Readable
          /\ app' = [Observed(app, View(spk)) EXCEPT !.recovery = FALSE]
          /\ Goto("finish")
       \/ app' = [app EXCEPT !.stale = TRUE] /\ GiveUp

\* Mutant: the display decides.
ToggledAgainstDisplay(a, v) == IF a.seen # {} THEN The(a.seen).transport ELSE v.transport

\* submitToggle resolves against the observation it has just made.
Toggled(a, v) == v.transport

SubmitOpposite(transport) ==
    IF transport \in {"PLAYING", "PAUSED", "STOPPED"}
    THEN /\ job' = [job EXCEPT !.pc = "prepareRead", !.intent =
                        [EmptyIntent EXCEPT !.transport =
                            {IF transport = "PLAYING" THEN "pause" ELSE "play"}]]
         /\ app' = [Observed(app, View(spk)) EXCEPT !.status = "pending"]
    ELSE /\ app' = [Observed(app, View(spk)) EXCEPT !.status = "failed"]
         /\ GiveUp

ToggleRead ==
    /\ At("toggleRead") /\ ReadObservation("toggle")
    /\ \/ Readable /\ SubmitOpposite(Toggled(app, View(spk)))
       \/ app' = [app EXCEPT !.stale = TRUE] /\ GiveUp

----------------------------------------------------------------------------
(* DirectSonos::prepare.                                                   *)
PrepareRead ==
    /\ At("prepareRead")
    /\ \/ /\ Readable
          /\ sonos' = [prepared |-> FALSE, base |-> {View(spk)}, proven |-> TRUE]
          /\ job' = [job EXCEPT !.pc = "prepareCheck", !.todo = makePlan(job.intent)]
       \/ sonos' = [sonos EXCEPT !.prepared = FALSE] /\ Fails(FALSE)
    /\ UNCHANGED <<spk, app, hist>> /\ Keep

Steady(s) == s.transport \in {"PLAYING", "PAUSED", "STOPPED"}

\* validatePositionRequest, and what prepare refuses on its own.
Supported(i, s) ==
    /\ Placed(i) \/ i.source # {} => i.transport # {} \/ Steady(s)
    /\ i.queueIndex # {} => s.playing = "queue"
    /\ i.seek # {} => s.playing # "station"
    /\ i.source = {} /\ (i.shuffle # {} \/ i.repeat # {}) => s.playing # "station"

PrepareCheck ==
    /\ At("prepareCheck")
    /\ \/ /\ Open /\ ~spk.grouped /\ Supported(job.intent, Base)
          /\ sonos' = [sonos EXCEPT !.prepared = TRUE, !.base = {[Base EXCEPT !.mute = spk.mute]}]
          /\ Goto("check")
       \/ UNCHANGED sonos /\ Fails(FALSE)
    /\ UNCHANGED <<spk, app, hist>> /\ Keep

----------------------------------------------------------------------------
(* DirectSonos::execute: guards and fresh reads, then the mutation.        *)
AtBaseline(v) ==
    /\ Supported(job.intent, v) /\ v.playing = Base.playing /\ v.rev = Base.rev
    /\ Op = "Seek" => v.content = Base.content

NothingToDo ==
    \/ Op = "Stop" /\ spk.transport = "STOPPED"
    \/ Op = "Pause" /\ spk.transport \in {"STOPPED", "PAUSED"}
    \/ Op = "SetVolume" /\ DesiredVolume(job.intent, Base.volume) = {Base.volume}

Check ==
    /\ At("check")
    /\ \/ /\ sonos.prepared /\ ~job.late /\ Identified /\ ~spk.grouped
          /\ Op \in {"Seek", "SelectQueueItem"} => AtBaseline(View(spk))
          /\ sonos' = [sonos EXCEPT !.proven = TRUE]
          /\ IF NothingToDo THEN Proceed ELSE Goto("dispatch")
       \/ sonos' \in {sonos, [sonos EXCEPT !.proven = FALSE]} /\ Fails(FALSE)
    /\ UNCHANGED <<spk, app, hist>> /\ Keep

\* Mutant: the address is trusted.
GuardedByAddress == Open

\* GuardedHttp::request asks the player at the address who it is.
Guarded == Identified

\* The identity answer of a mutation, an exchange of its own before the mutation's.
Guard ==
    /\ At("dispatch") \/ At("setMute")
    /\ \/ Guarded /\ Goto(IF At("dispatch") THEN "send" ELSE "sendMute")
       \/ Fails(FALSE)
    /\ UNCHANGED <<spk, app, sonos, hist>> /\ Keep

AfterReply == CASE Op \in {"ClearQueue", "AddSource"} -> "wait"
                [] Op = "ApplyMode" /\ job.intent.source # {} -> "mute"
                [] OTHER -> "proceed"

\* The player at the address carries a request out, whoever it is by now.
Sent(s) == IF spk.here THEN s ELSE spk
Carried == Sent(Applied(Op, job.intent, Base, spk))
Unmuted == Sent([spk EXCEPT !.mute = Base.mute])
Note(effect) == [hist EXCEPT !.effect = effect, !.strays = IF spk.here THEN @ ELSE @ + 1,
                             !.movedOn = IF Op \in {"Seek", "SelectQueueItem"}
                                         THEN spk.content ELSE @]

\* Mutant: a lost reply is a failure.
LostIsFailure == FALSE

\* soap: a mutation that was sent and not answered by its own response, or by
\* a numbered Sonos error, may have been carried out.
LostIsUncertain == TRUE

Dispatch ==
    /\ At("send")
    /\ \/ /\ Open /\ spk' = Carried
          /\ hist' = Note("some")
          /\ IF AfterReply = "proceed" THEN Proceed ELSE Goto(AfterReply)
       \/ /\ Open /\ spk' \in {spk, Carried}
          /\ hist' = Note("unknown")
          /\ Fails(LostIsUncertain)
       \/ UNCHANGED <<spk, hist>> /\ Fails(FALSE)
    /\ UNCHANGED <<app, sonos>> /\ Keep

\* A readiness poll is repeated for as long as its budget lasts.
Patient == ~job.late
Again ==
    \/ Patient /\ job' = [job EXCEPT !.again = ~@]
    \/ ~Patient /\ Fails(TRUE)

\* What the player at the address may answer to a question that does not ask who
\* it is; another player may answer anything.
Answers(answer) == IF spk.here THEN {answer} ELSE BOOLEAN

\* waitQueue: polls the queue until it is empty, or not.
Wait ==
    /\ At("wait")
    /\ \/ Open /\ (Op = "ClearQueue") \in Answers(spk.queue = "empty") /\ Proceed
       \/ Open /\ (Op # "ClearQueue") \in Answers(spk.queue = "empty") /\ Again
       \/ Fails(TRUE)
    /\ UNCHANGED <<spk, app, sonos, hist>> /\ Keep

\* ApplyMode of a source restores the mute it may have disturbed.
Mute ==
    /\ At("mute")
    /\ \/ Open /\ TRUE \in Answers(spk.mute = Base.mute) /\ Proceed
       \/ Open /\ FALSE \in Answers(spk.mute = Base.mute) /\ Goto("setMute")
       \/ Fails(FALSE)
    /\ UNCHANGED <<spk, app, sonos, hist>> /\ Keep

SetMute ==
    /\ At("sendMute")
    /\ \/ Open /\ spk' = Unmuted /\ hist' = Note("some") /\ Proceed
       \/ /\ Open /\ spk' \in {spk, Unmuted}
          /\ hist' = Note("unknown") /\ Fails(LostIsUncertain)
       \/ UNCHANGED <<spk, hist>> /\ Fails(FALSE)
    /\ UNCHANGED <<app, sonos>> /\ Keep

----------------------------------------------------------------------------
(* DirectSonos::verify.                                                    *)

\* Mutant: any content will do.
MatchesAnywhere(i, b, v) == i.seek # {} => v.moved = "sought"

\* A position was reached where it was asked for: the same content and queue.
MatchesPlace(i, b, v) ==
    /\ i.seek # {} => v.moved = "sought" /\ v.playing = b.playing /\ v.content = b.content
                        /\ v.rev = b.rev
    /\ i.queueIndex # {} => v.moved = "selected" /\ v.playing = "queue" /\ v.rev = b.rev

MatchesTransport(i, b, v) ==
    /\ i.transport = {"play"} => v.transport = "PLAYING"
    /\ i.transport = {"pause"} => v.transport \in {"PAUSED", "STOPPED"}
    /\ i.transport = {} /\ (Placed(i) \/ i.source # {}) =>
        v.transport \in IF b.transport = "PLAYING" THEN {"PLAYING"} ELSE {"PAUSED", "STOPPED"}

MatchesSettings(i, b, v) ==
    /\ OfQueue(i) \/ i.shuffle # {} \/ i.repeat # {} =>
        v.mode = combineMode(b.mode, i.shuffle, i.repeat)
    /\ v.volume = IF i.volume # {} THEN The(DesiredVolume(i, b.volume)) ELSE b.volume
    /\ i.source # {} => /\ v.playing = IF OfQueue(i) THEN "queue" ELSE "station"
                        /\ v.mute = b.mute

Matches(i, b, v) == MatchesPlace(i, b, v) /\ MatchesTransport(i, b, v) /\ MatchesSettings(i, b, v)

Verify ==
    /\ At("verify")
    /\ \/ /\ Readable /\ app' = Observed(app, View(spk))
          /\ \/ Matches(job.intent, Base, View(spk)) /\ Goto("conclude")
             \/ ~Matches(job.intent, Base, View(spk)) /\ Again
       \/ UNCHANGED app /\ Fails(TRUE)
    /\ UNCHANGED <<spk, sonos, hist>> /\ Keep

\* After a failure Application reads once more what there is.
Settle ==
    /\ At("settle")
    /\ \/ Readable /\ app' = Observed(app, View(spk))
       \/ app' = [app EXCEPT !.stale = TRUE]
    /\ Goto("conclude")
    /\ UNCHANGED <<spk, sonos, hist>> /\ Keep

Status == CASE job.result = "ok" -> "succeeded"
            [] job.result = "uncertain" -> "uncertain"
            [] job.result = "failed" -> IF job.completed THEN "partial" ELSE "failed"

Conclude ==
    /\ At("conclude")
    /\ app' = [app EXCEPT !.status = Status, !.recovery = (job.result = "uncertain")]
    /\ Goto("finish")
    /\ UNCHANGED <<spk, sonos, hist>> /\ Keep

\* discardCancelledResult: nothing of a cancelled job counts, except that a
\* command may have done anything.
Discarded(mutation) ==
    IF mutation THEN [retained EXCEPT !.stale = TRUE, !.status = "uncertain", !.recovery = TRUE]
    ELSE [retained EXCEPT !.stale = TRUE]

\* The runtime decides whether the job was still admitted, and discards otherwise.
Finish ==
    /\ At("finish")
    /\ app' = IF job.cancelled THEN Discarded(job.kind \in Mutations)
              ELSE IF job.preempted THEN retained ELSE app
    /\ job' = NoJob
    /\ retained' = app'
    /\ UNCHANGED <<spk, sonos, tampers, jobs, hist>>

----------------------------------------------------------------------------
(* The world: the job ends under the worker, its budget runs out, and other*)
(* controllers use the speaker.                                            *)
Cancel ==
    /\ ~At("idle") /\ Open
    /\ \/ job' = [job EXCEPT !.cancelled = TRUE]
       \/ job.kind = "read" /\ job' = [job EXCEPT !.preempted = TRUE]
    /\ UNCHANGED <<spk, app, sonos, hist>> /\ Keep

Expire ==
    /\ job.kind \in Mutations /\ ~job.late
    /\ job' = [job EXCEPT !.late = TRUE]
    /\ UNCHANGED <<spk, app, sonos, hist>> /\ Keep

\* Content, queue, transport, volume and mute change at another controller's
\* will; the player joins a group; its address passes to another player.
Tampered ==
    {[spk EXCEPT !.content = @ + 1, !.moved = "no"],
     [spk EXCEPT !.rev = @ + 1, !.queue = "other"],
     [spk EXCEPT !.transport = IF @ = "PLAYING" THEN "PAUSED" ELSE "PLAYING"],
     [spk EXCEPT !.transport = "TRANSITIONING"],
     [spk EXCEPT !.volume = 50], [spk EXCEPT !.mute = ~@],
     [spk EXCEPT !.grouped = ~@], [spk EXCEPT !.here = FALSE]}

\* Between a mutation's identity answer and the mutation.
Sending == {"send", "sendMute"}

Tamper ==
    /\ tampers < MaxTampers
    /\ tampers' = tampers + 1
    /\ spk' \in Tampered
    /\ hist' = [hist EXCEPT !.touched = TRUE,
                            !.slipped = @ \/ (spk.here /\ ~spk'.here /\ job.pc \in Sending)]
    /\ UNCHANGED <<app, sonos, job, retained, jobs>>

Rest == At("idle") /\ UNCHANGED executorVars

Calls == Reconcile \/ ToggleRead \/ PrepareRead \/ PrepareCheck \/ Check \/ Guard \/ Dispatch \/ Wait
           \/ Mute \/ SetMute \/ Verify \/ Settle \/ Conclude \/ Finish
Next == Read \/ Toggle \/ Submit \/ Calls \/ Cancel \/ Expire \/ Tamper \/ Rest

Spec == Init /\ [][Next]_executorVars

----------------------------------------------------------------------------
Succeeded == At("finish") /\ job.result = "ok"
Commanding == job.kind \in Mutations

Outcome == INSTANCE CommandOutcome WITH
    busy <- Commanding,
    effect <- hist.effect,
    outcome <- IF Commanding THEN retained.status ELSE app.status,
    blocked <- IF At("idle") THEN app.recovery ELSE retained.recovery

\* Refinement: whatever is lost, late, cancelled or preempted, "failed" means
\* that nothing was changed, an effect the device does not know of leaves the
\* outcome "uncertain", nothing is sent after such an effect until a read that
\* was not itself cancelled has reconciled the room, and a read changes no outcome.
ImplementsOutcome == Outcome!Spec

\* Types, and: a request is prepared only on a baseline of its own.
Shape ==
    /\ Cardinality(sonos.base) <= 1 /\ Cardinality(app.seen) <= 1
    /\ app.status \in Outcome!Outcomes \cup {"idle", "pending"}
    /\ sonos.prepared => sonos.base # {}
    /\ job.todo # <<>> => \A n \in DOMAIN job.todo : job.todo[n] \in Operations

\* A command that succeeds, and a toggle.
CommandAsAsked ==
    Succeeded /\ job.kind = "submit" /\ ~hist.touched =>
        /\ AsAsked(job.intent, hist.start, spk)
        /\ spk.mute = hist.start.mute
ToggleReverses ==
    Succeeded /\ job.kind = "toggle" /\ ~hist.touched =>
        (spk.transport = "PLAYING") = (hist.start.transport # "PLAYING")

\* A success is true: if nobody else acted since the job began, the speaker is
\* exactly as asked, and everything not asked for is as it was; and a toggle has
\* reversed what the room was doing when its job began, even if the display was
\* out of date when the button was pressed.
SuccessIsTrue == CommandAsAsked /\ ToggleReverses

\* A position reported as reached was reached in the content and the queue it
\* was chosen in, although either may change between the last check, the
\* dispatch and the verification.
PlaceIsTheOneChosen ==
    Succeeded /\ job.intent.seek # {} =>
        hist.movedOn = Base.content

\* Wherever the address passes to another player while a job is under way, none of
\* the job's mutations reaches that player, but for the one whose own identity
\* answer had come and which was still to be sent: identity and mutation are two
\* exchanges, and docs/planner-executor.md:37 says that they cannot be made atomic.
\* And that one is the last: nothing else of the plan follows it there.
OnlyTheSlipped == hist.strays <= IF hist.slipped THEN 1 ELSE 0

\* That, and a session keeps its shape.
OnlyTheTarget == OnlyTheSlipped /\ Shape
=============================================================================

------------------------------ MODULE Speaker -------------------------------
(***************************************************************************)
(* A Sonos player as SurfaceSonos uses it: what an operation of a plan does*)
(* to it, and what a request means for it.  The player itself is outside   *)
(* the repository.                                                         *)
(*   playing    "queue", "station" or "other": what CurrentURI names       *)
(*   queue      what is in it: "requested" what a request put there        *)
(*   moved      the last move within the content, "no" at first            *)
(***************************************************************************)
EXTENDS Intent

\* A player with the content and revision of its queue numbered as others change
\* them; one that stands in its place, here = FALSE, reports the content -1.
SpeakerType ==
    [playing : {"queue", "station", "other"}, queue : {"old", "empty", "requested", "other"},
     moved : {"no", "skipped", "sought", "selected"},
     transport : {"PLAYING", "PAUSED", "STOPPED", "TRANSITIONING"},
     mode : PlayModes, volume : 0 .. 100, mute : BOOLEAN,
     content : Int, rev : Nat, grouped : BOOLEAN, here : BOOLEAN]

\* Mutant: what plays when the operation is sent decides.
ResumesNow(b, s) == s.transport = "PLAYING"

\* RestoreTransport plays if the speaker played at preflight (desiredPlaying_).
Resumes(b, s) == b.transport = "PLAYING"

Resumed(transport, playing) ==
    IF playing THEN "PLAYING" ELSE IF transport = "STOPPED" THEN "STOPPED" ELSE "PAUSED"

\* What an operation that was carried out does to the speaker; i is the
\* request and b the speaker at preflight.
Applied(op, i, b, s) ==
    CASE op = "RestoreTransport" -> [s EXCEPT !.transport = Resumed(@, Resumes(b, s))]
      [] op = "ApplyMode" -> [s EXCEPT !.mode = combineMode(b.mode, i.shuffle, i.repeat)]
      [] op = "Stop" -> [s EXCEPT !.transport = "STOPPED"]
      [] op = "ClearQueue" -> [s EXCEPT !.queue = "empty"]
      [] op = "AddSource" -> [s EXCEPT !.queue = "requested"]
      [] op = "SelectQueue" -> [s EXCEPT !.playing = "queue"]
      [] op = "SelectStation" -> [s EXCEPT !.playing = "station"]
      [] op = "SetVolume" -> [s EXCEPT !.volume = The(DesiredVolume(i, b.volume))]
      [] op = "Play" -> [s EXCEPT !.transport = "PLAYING"]
      [] op = "Pause" -> [s EXCEPT !.transport = Resumed(@, FALSE)]
      [] op \in {"Next", "Previous"} -> [s EXCEPT !.moved = "skipped"]
      [] op = "Seek" -> [s EXCEPT !.moved = "sought"]
      [] op = "SelectQueueItem" -> [s EXCEPT !.moved = "selected"]

OfQueue(i) == i.source # {} /\ i.source # {"station"}
Placed(i) == i.seek \cup i.queueIndex # {}

\* The reference: content, place, transport and volume as a request asks for
\* them, and everything it does not mention as it was before.
AsAsked(i, b, s) ==
    /\ s.playing = (IF OfQueue(i) THEN "queue" ELSE IF i.source # {} THEN "station" ELSE b.playing)
    /\ s.queue = (IF OfQueue(i) THEN "requested" ELSE b.queue)
    /\ s.moved = (CASE i.seek # {} -> "sought" [] i.queueIndex # {} -> "selected"
                    [] i.transport \cap Advances # {} -> "skipped" [] OTHER -> b.moved)
    /\ s.transport = "PLAYING" <=> IF i.transport \cap {"play", "pause"} # {}
                                   THEN i.transport = {"play"} ELSE b.transport = "PLAYING"
    /\ IF i.volume = {} THEN s.volume = b.volume
       ELSE \E v \in i.volume :
                LET to == IF v.relative THEN b.volume + v.value ELSE v.value
                IN  /\ s.volume \in 0 .. 100
                    /\ \/ s.volume = to
                       \/ s.volume = 0 /\ to < 0
                       \/ s.volume = 100 /\ to > 100
=============================================================================

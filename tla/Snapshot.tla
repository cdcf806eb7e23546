------------------------------ MODULE Snapshot ------------------------------
(***************************************************************************)
(* One observation of a player is ten exchanges with it, and other         *)
(* controllers change it between any two.  DirectSonos::refresh composes   *)
(* the replies into one PlaybackState or refuses to; Application keeps the *)
(* result beside a page of the queue read at another time.                 *)
(*   spk    the player: source, queue, place in it, and how far it played  *)
(*   got    the replies of the read under way, `pc' the next exchange      *)
(*   app    Application: observed, stale, queue page                       *)
(*   now    exchanges made: the clock                                      *)
(*   trace  the places the player was in during the read, touched whether  *)
(*          it was changed since the second position reading (for the      *)
(*          properties)                                                    *)
(* The readings of settings, volume and mute, each about a value of its    *)
(* own, are not told apart from the exchange that follows them.            *)
(***************************************************************************)
EXTENDS Integers, Sequences

CONSTANTS Songs, MaxChanges, MaxTime, MaxQueue
VARIABLES spk, got, pc, app, now, trace, touched, changes
snapshotVars == <<spk, got, pc, app, now, trace, touched, changes>>

Exchanges == <<"identity", "transport", "position", "media", "browse", "finalPosition",
               "finalMedia">>
Idle == 0
Live == "live"

Song(s) == IF s.source = "queue" THEN s.queue[s.number] ELSE Live
Number(s) == IF s.source = "queue" THEN s.number ELSE 1

Place(s) == [source |-> s.source, number |-> Number(s), song |-> Song(s), rev |-> s.rev]

\* What the player answers in each exchange.  A stream has no position, and a song's may be
\* left out (`told').
Report(name, s, told) ==
    CASE name \in {"position", "finalPosition"} ->
            [track |-> Number(s), song |-> Song(s), at |-> now + 1,
             position |-> IF told /\ s.source = "queue" THEN {s.position} ELSE {}]
      [] name \in {"media", "finalMedia"} -> [uri |-> s.source, total |-> Len(s.queue)]
      [] name = "browse" -> [revision |-> s.rev, total |-> Len(s.queue)]
      [] name = "transport" -> s.playing
      [] OTHER -> TRUE

SnapshotInit ==
    /\ \E q \in [1 .. 2 -> Songs] :
            spk = [source |-> "queue", queue |-> q, number |-> 1, rev |-> 0, position |-> 0,
                   playing |-> TRUE]
    /\ got = [e \in {} |-> TRUE] /\ pc = Idle
    /\ app = [observed |-> {}, stale |-> TRUE, page |-> {}]
    /\ now = 0 /\ trace = <<>> /\ touched = FALSE /\ changes = 0

Begin ==
    /\ pc = Idle /\ now + Len(Exchanges) <= MaxTime
    /\ pc' = 1 /\ got' = [e \in {} |-> TRUE] /\ trace' = <<Place(spk)>>
    /\ UNCHANGED <<spk, app, now, touched, changes>>

\* An exchange takes time; a player that plays has gone on when it is over.
Elapse ==
    /\ now' = now + 1
    /\ spk' = [spk EXCEPT !.position = IF spk.playing THEN @ + 1 ELSE @]

Exchange ==
    /\ pc \in DOMAIN Exchanges
    /\ Elapse
    /\ \E told \in BOOLEAN :
          got' = [e \in DOMAIN got \cup {Exchanges[pc]} |->
                    IF e = Exchanges[pc] THEN Report(e, spk', told) ELSE got[e]]
    /\ pc' = pc + 1
    /\ touched' = (touched /\ Exchanges[pc] # "finalPosition")
    /\ UNCHANGED <<app, trace, changes>>

\* Every failure ends the read but that of the queue summary.
Fail ==
    /\ pc \in DOMAIN Exchanges
    /\ IF Exchanges[pc] = "browse" THEN pc' = pc + 1 /\ UNCHANGED app
       ELSE pc' = Idle /\ app' = [app EXCEPT !.stale = TRUE, !.page = {}]
    /\ UNCHANGED <<spk, got, now, trace, touched, changes>>

\* Mutant: only the source is compared.
UnchangedSource(g) == g["media"].uri = g["finalMedia"].uri

\* The content is what it was when the read began.
UnchangedContent(g) ==
    /\ g["media"].uri = g["finalMedia"].uri
    /\ g["position"].track = g["finalPosition"].track
    /\ g["position"].song = g["finalPosition"].song

\* Where the first reading has a position: the second reading's if that has one as well, the
\* first one's otherwise, in both cases at the time of the second reading.
Anchor(g) ==
    LET last == g["finalPosition"]
        first == g["position"].position
    IN  {[position |-> p, at |-> last.at] : p \in IF last.position = {} \/ first = {} THEN first
                                                 ELSE last.position}

Summary(g) == IF "browse" \in DOMAIN g THEN {g["browse"]} ELSE {}
Total(g) == IF Summary(g) # {} THEN g["browse"].total ELSE g["media"].total

\* Only a queue has an index, and only content with a duration a position.
Compose(g) ==
    [uri |-> g["media"].uri, track |-> g["position"].track, song |-> g["position"].song,
     playing |-> g["transport"],
     anchor |-> IF g["media"].uri = Live THEN {} ELSE Anchor(g),
     index |-> IF g["media"].uri = "queue" /\ g["position"].track <= Total(g)
               THEN {g["position"].track} ELSE {},
     revision |-> {b.revision : b \in Summary(g)}]

Accept ==
    /\ pc = Len(Exchanges) + 1
    /\ app' = IF UnchangedContent(got)
              THEN [observed |-> {Compose(got)}, stale |-> FALSE, page |-> {}]
              ELSE [app EXCEPT !.stale = TRUE, !.page = {}]
    /\ pc' = Idle
    /\ UNCHANGED <<spk, got, now, trace, touched, changes>>

\* Application::queue: a page of another revision than the observation's
\* makes that stale and takes its index away.
WithPage(a, rev) ==
    [a EXCEPT !.page = {rev},
              !.observed = {[o EXCEPT !.revision = {rev}, !.index = IF o.revision = {rev} THEN @ ELSE {}] :
                                o \in @},
              !.stale = @ \/ \E o \in a.observed : o.revision # {rev}]

ReadPage ==
    /\ pc = Idle /\ now < MaxTime
    /\ Elapse
    /\ \/ app' = WithPage(app, spk'.rev)
       \/ app' = [app EXCEPT !.page = {}]
    /\ UNCHANGED <<got, pc, trace, touched, changes>>

----------------------------------------------------------------------------
(* Other controllers: another track, another source, an insertion before or*)
(* after the current track, a removal of another one, play and pause.      *)
Without(q, n) == [m \in 1 .. Len(q) - 1 |-> q[IF m < n THEN m ELSE m + 1]]
With(q, n, x) == [m \in 1 .. Len(q) + 1 |-> IF m < n THEN q[m] ELSE IF m = n THEN x ELSE q[m - 1]]
Shifted(number, n, by) == IF n <= number THEN number + by ELSE number

Skipped(s, n) == [s EXCEPT !.number = n, !.position = 0]
Switched(s) == [s EXCEPT !.source = IF @ = "queue" THEN Live ELSE "queue", !.position = 0]
Inserted(s, n, x) ==
    [s EXCEPT !.queue = With(@, n, x), !.rev = @ + 1, !.number = Shifted(@, n, 1)]
Removed(s, n) == [s EXCEPT !.queue = Without(@, n), !.rev = @ + 1, !.number = Shifted(@, n, -1)]

Changed(s) ==
    {Skipped(s, n) : n \in 1 .. Len(s.queue)}
    \cup (UNION {{Inserted(s, n, x) : x \in Songs} : n \in 1 .. Len(s.queue) + 1})
    \cup {Removed(s, n) : n \in (1 .. Len(s.queue)) \ {s.number}}
    \cup {Switched(s), [s EXCEPT !.playing = ~@]}

Change ==
    /\ changes < MaxChanges
    /\ changes' = changes + 1
    /\ spk' \in {s \in Changed(spk) : Len(s.queue) <= MaxQueue}
    /\ trace' = IF pc = Idle THEN trace ELSE Append(trace, Place(spk'))
    /\ touched' = TRUE
    /\ UNCHANGED <<got, pc, app, now>>

Rest == pc = Idle /\ UNCHANGED snapshotVars

SnapshotNext == Begin \/ Exchange \/ Fail \/ Accept \/ ReadPage \/ Change \/ Rest
SnapshotSpec == SnapshotInit /\ [][SnapshotNext]_snapshotVars

----------------------------------------------------------------------------
\* The read that Accept ends, if it accepts.
Accepting == pc = Len(Exchanges) + 1 /\ UnchangedContent(got)

\* What is observed is one thing: the source, the track and the song of an
\* accepted observation were the player's together at a moment of the read, if
\* no more than two changes fell into it.
Coherent ==
    Accepting /\ Len(trace) <= 3 =>
        \E k \in DOMAIN trace : /\ trace[k].source = got["media"].uri
                                /\ trace[k].number = got["position"].track
                                /\ trace[k].song = got["position"].song

\* The index of an observation is one in the queue revision beside it, or that
\* revision has already gone and a selection by it will be refused.
IndexIsOfItsRevision ==
    Accepting => LET o == Compose(got)
                 IN  \A n \in o.index, r \in o.revision :
                        spk.rev # r \/ \E k \in DOMAIN trace : trace[k].rev = r /\ trace[k].number = n

\* Progress drawn from an observation is the player's: if nobody has touched it
\* since the second position reading, position and elapsed time give its place.
\* Only where that reading has no position is the first one's shown, as if it were of then.
PositionIsAnchored ==
    Accepting /\ ~touched /\ spk.playing /\ got["finalPosition"].position # {} =>
        \A a \in Compose(got).anchor : a.position + (now - a.at) = spk.position

\* A page on the display is of the revision that the observation claims, and
\* an index shown next to it is one of that revision.
PageAgrees ==
    \A r \in app.page, o \in app.observed : o.revision = {r}

\* What an accepted read says was true at one moment of the read, and the page of
\* the queue beside it agrees with it.
ObservationIsCoherent ==
    Coherent /\ IndexIsOfItsRevision /\ PositionIsAnchored /\ PageAgrees
=============================================================================

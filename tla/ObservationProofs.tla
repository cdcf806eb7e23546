-------------------------- MODULE ObservationProofs --------------------------
(***************************************************************************)
(* Theorems about what the display says of a room.  An accepted            *)
(* observation was true at one moment of its read (Snapshot): the proof    *)
(* follows a read from exchange to exchange and counts the changes that    *)
(* are needed to deceive it.  The room selected may be played, and is the  *)
(* user's choice (Rooms): the proof needs that the list of rooms, which    *)
(* the code sorts, holds every room there is, once.                        *)
(***************************************************************************)
EXTENDS Rooms, Snapshot, FiniteSetTheorems, FunctionTheorems, SequenceTheorems, TLAPS

------------------------------------------------------------------------------
(* Snapshot: types *)

Sources == {"queue", Live}
Played == Songs \cup {Live}
PlayerType ==
    [source : Sources, queue : Seq(Songs), number : Nat, rev : Nat, position : Nat, playing : BOOLEAN]
PlaceType == [source : Sources, number : Nat, song : Played, rev : Nat]

PositionReply == [track : Nat, song : Played, position : SUBSET Nat, at : Nat]
MediaReply == [uri : Sources, total : Nat]
BrowseReply == [revision : Nat, total : Nat]
Observation ==
    [uri : Sources, track : Nat, song : Played, playing : BOOLEAN,
     anchor : SUBSET [position : Nat, at : Nat], index : SUBSET Nat, revision : SUBSET Nat]

\* What has been read by now: every reply but that of the queue summary is there.
Has(e) == e \in DOMAIN got
GotOK ==
    /\ pc > 2 => Has("transport") /\ got["transport"] \in BOOLEAN
    /\ pc > 3 => Has("position") /\ got["position"] \in PositionReply
    /\ pc > 4 => Has("media") /\ got["media"] \in MediaReply
    /\ Has("browse") => got["browse"] \in BrowseReply
    /\ pc > 6 => Has("finalPosition") /\ got["finalPosition"] \in PositionReply
    /\ pc > 7 => Has("finalMedia") /\ got["finalMedia"] \in MediaReply

PlayerOK(s) == s \in PlayerType /\ s.number \in 1 .. Len(s.queue)

SnapshotTypeOK ==
    /\ PlayerOK(spk)
    /\ pc \in 0 .. 8 /\ now \in Nat /\ touched \in BOOLEAN
    /\ app \in [observed : SUBSET Observation, stale : BOOLEAN, page : SUBSET Nat]
    /\ trace \in Seq(PlaceType)
    /\ GotOK

------------------------------------------------------------------------------
(* Snapshot: the invariant of a read *)

\* The player is now where the replies of one kind say.
PositionNow == Number(spk) = got["position"].track /\ Song(spk) = got["position"].song
SourceNow == spk.source = got["media"].uri
SamePosition ==
    /\ got["position"].track = got["finalPosition"].track
    /\ got["position"].song = got["finalPosition"].song

\* Some place of the read is what the replies say together.
WasSo ==
    \E k \in DOMAIN trace : /\ trace[k].source = got["media"].uri
                            /\ trace[k].number = got["position"].track
                            /\ trace[k].song = got["position"].song

\* How many changes a read that agrees with no place must have met by now.
Deceived(n) == Len(trace) > n
TraceOK ==
    /\ pc > 0 => trace # <<>> /\ trace[Len(trace)] = Place(spk)
    /\ pc = 4 => PositionNow \/ Deceived(1)
    /\ pc \in {5, 6} => WasSo \/ (SourceNow /\ Deceived(1)) \/ Deceived(2)
    /\ pc = 7 /\ SamePosition => WasSo \/ (PositionNow /\ Deceived(2)) \/ Deceived(3)
    /\ pc = 8 /\ SamePosition /\ got["media"].uri = got["finalMedia"].uri => WasSo \/ Deceived(3)

\* Queue revisions only grow: one that is still there was there all the time.
RevisionOK ==
    /\ Has("browse") => got["browse"].revision <= spk.rev
    /\ pc > 6 /\ Has("browse") /\ got["browse"].revision = spk.rev =>
        \E k \in DOMAIN trace : /\ trace[k].rev = spk.rev
                                /\ trace[k].number = got["finalPosition"].track

AnchorOK ==
    pc > 6 /\ ~touched /\ spk.playing =>
        \A p \in got["finalPosition"].position : p + (now - got["finalPosition"].at) = spk.position

SnapshotInv == SnapshotTypeOK /\ TraceOK /\ RevisionOK /\ AnchorOK /\ PageAgrees

\* A function on an initial interval is a sequence of that length.
LEMMA FunctionIsSeq ==
    ASSUME NEW S, NEW n \in Nat, NEW f \in [1 .. n -> S]
    PROVE  f \in Seq(S) /\ Len(f) = n
<1>1. f \in Seq(S)
  BY SeqDef
<1>2. Len(f) \in Nat /\ DOMAIN f = 1 .. Len(f) /\ DOMAIN f = 1 .. n
  BY <1>1, LenProperties
<1> QED
  BY <1>1, <1>2

\* A player is at a place, and reports what it is.
LEMMA PlaceOfPlayer ==
    ASSUME NEW s, PlayerOK(s)
    PROVE  /\ Song(s) \in Played /\ Number(s) \in Nat
           /\ Place(s) \in PlaceType
           /\ Place(s).source = s.source /\ Place(s).number = Number(s)
           /\ Place(s).song = Song(s) /\ Place(s).rev = s.rev
<1>1. Song(s) \in Played /\ Number(s) \in Nat
  BY DEF PlayerOK, PlayerType, Song, Number, Played
<1> QED
  BY <1>1 DEF PlayerOK, PlayerType, Place, PlaceType

\* Time changes how far the player is and nothing else.
LEMMA Elapsing ==
    ASSUME SnapshotTypeOK, Elapse
    PROVE  /\ PlayerOK(spk') /\ now' \in Nat /\ now' = now + 1
           /\ spk'.source = spk.source /\ spk'.rev = spk.rev /\ spk'.playing = spk.playing
           /\ Number(spk') = Number(spk) /\ Song(spk') = Song(spk) /\ Place(spk') = Place(spk)
           /\ spk.playing => spk'.position = spk.position + 1
<1>1. /\ spk' \in PlayerType /\ spk'.source = spk.source /\ spk'.rev = spk.rev
      /\ spk'.playing = spk.playing /\ spk'.number = spk.number /\ spk'.queue = spk.queue
      /\ spk.playing => spk'.position = spk.position + 1
      /\ now \in Nat /\ now' = now + 1 /\ PlayerOK(spk)
  BY DEF SnapshotTypeOK, Elapse, PlayerOK, PlayerType
<1> QED
  BY <1>1 DEF PlayerOK, Number, Song, Place

\* Whatever other controllers do leaves a player, and never takes a revision back.
LEMMA Changing ==
    ASSUME NEW s, PlayerOK(s), NEW d \in Changed(s)
    PROVE  PlayerOK(d) /\ d.rev >= s.rev
<1>1. s \in PlayerType /\ s.number \in 1 .. Len(s.queue) /\ s.queue \in Seq(Songs) /\ s.rev \in Nat
      /\ Len(s.queue) \in Nat
  BY DEF PlayerOK, PlayerType
<1>2. ASSUME NEW n \in 1 .. Len(s.queue)
      PROVE  PlayerOK(Skipped(s, n)) /\ Skipped(s, n).rev = s.rev
  <2>1. n \in Nat
    BY <1>1
  <2> QED
    BY <1>1, <2>1 DEF Skipped, PlayerOK, PlayerType
<1>3. PlayerOK(Switched(s)) /\ Switched(s).rev = s.rev
  BY <1>1 DEF Switched, PlayerOK, PlayerType, Sources
<1>4. ASSUME NEW n \in 1 .. Len(s.queue) + 1, NEW x \in Songs
      PROVE  PlayerOK(Inserted(s, n, x)) /\ Inserted(s, n, x).rev = s.rev + 1
  <2> DEFINE q == With(s.queue, n, x)
             m == Shifted(s.number, n, 1)
  <2>1. q \in Seq(Songs) /\ Len(q) = Len(s.queue) + 1
    <3>1. ASSUME NEW k \in 1 .. Len(s.queue) + 1
          PROVE  (IF k < n THEN s.queue[k] ELSE IF k = n THEN x ELSE s.queue[k - 1]) \in Songs
      BY <1>1, <3>1, ElementOfSeq
    <3>2. q \in [1 .. Len(s.queue) + 1 -> Songs]
      BY <3>1 DEF With
    <3>3. Len(s.queue) + 1 \in Nat
      BY <1>1
    <3> HIDE DEF q
    <3> QED
      BY <3>2, <3>3, FunctionIsSeq
  <2>2. m \in 1 .. Len(s.queue) + 1 /\ m \in Nat
    BY <1>1 DEF Shifted
  <2>3. Inserted(s, n, x) = [s EXCEPT !.queue = q, !.rev = @ + 1, !.number = m]
    BY DEF Inserted
  <2> HIDE DEF q, m
  <2> DEFINE e == Inserted(s, n, x)
  <2>4. e \in PlayerType /\ e.queue = q /\ e.number = m /\ e.rev = s.rev + 1
    <3>1. s \in PlayerType /\ q \in Seq(Songs) /\ m \in Nat /\ s.rev + 1 \in Nat
      BY <1>1, <2>1, <2>2
    <3> QED
      BY <2>3, <3>1 DEF PlayerType
  <2> HIDE DEF e
  <2>5. PlayerOK(e)
    BY <2>1, <2>2, <2>4, <1>1 DEF PlayerOK
  <2> QED
    BY <2>4, <2>5 DEF e
<1>5. ASSUME NEW n \in (1 .. Len(s.queue)) \ {s.number}
      PROVE  PlayerOK(Removed(s, n)) /\ Removed(s, n).rev = s.rev + 1
  <2> DEFINE q == Without(s.queue, n)
             m == Shifted(s.number, n, -1)
  <2>1. q \in Seq(Songs) /\ Len(q) = Len(s.queue) - 1
    <3>1. ASSUME NEW k \in 1 .. Len(s.queue) - 1
          PROVE  s.queue[IF k < n THEN k ELSE k + 1] \in Songs
      BY <1>1, <3>1, ElementOfSeq
    <3>2. q \in [1 .. Len(s.queue) - 1 -> Songs]
      BY <3>1 DEF Without
    <3>3. Len(s.queue) - 1 \in Nat
      BY <1>1
    <3> HIDE DEF q
    <3> QED
      BY <3>2, <3>3, FunctionIsSeq
  <2>2. m \in 1 .. Len(s.queue) - 1 /\ m \in Nat
    BY <1>1 DEF Shifted
  <2>3. Removed(s, n) = [s EXCEPT !.queue = q, !.rev = @ + 1, !.number = m]
    BY DEF Removed
  <2> HIDE DEF q, m
  <2> DEFINE e == Removed(s, n)
  <2>4. e \in PlayerType /\ e.queue = q /\ e.number = m /\ e.rev = s.rev + 1
    <3>1. s \in PlayerType /\ q \in Seq(Songs) /\ m \in Nat /\ s.rev + 1 \in Nat
      BY <1>1, <2>1, <2>2
    <3> QED
      BY <2>3, <3>1 DEF PlayerType
  <2> HIDE DEF e
  <2>5. PlayerOK(e)
    BY <2>1, <2>2, <2>4, <1>1 DEF PlayerOK
  <2> QED
    BY <2>4, <2>5 DEF e
<1>6. PlayerOK([s EXCEPT !.playing = ~@]) /\ [s EXCEPT !.playing = ~@].rev = s.rev
  BY <1>1 DEF PlayerOK, PlayerType
<1> DEFINE A == {Skipped(s, n) : n \in 1 .. Len(s.queue)}
           B == UNION {{Inserted(s, n, x) : x \in Songs} : n \in 1 .. Len(s.queue) + 1}
           C == {Removed(s, n) : n \in (1 .. Len(s.queue)) \ {s.number}}
           D == {Switched(s), [s EXCEPT !.playing = ~@]}
<1>7. d \in A \/ d \in B \/ d \in C \/ d \in D
  <2>1. Changed(s) = A \cup B \cup C \cup D
    BY DEF Changed
  <2> HIDE DEF A, B, C, D
  <2> QED
    BY <2>1
<1>8. CASE d \in A
  <2>1. PICK n \in 1 .. Len(s.queue) : d = Skipped(s, n)
    BY <1>8
  <2> QED
    BY <1>1, <1>2, <2>1
<1>9. CASE d \in B
  <2>1. PICK n \in 1 .. Len(s.queue) + 1 : d \in {Inserted(s, n, x) : x \in Songs}
    BY <1>9
  <2>2. PICK x \in Songs : d = Inserted(s, n, x)
    BY <2>1
  <2> QED
    BY <1>1, <1>4, <2>1, <2>2
<1>10. CASE d \in C
  <2>1. PICK n \in (1 .. Len(s.queue)) \ {s.number} : d = Removed(s, n)
    BY <1>10
  <2> QED
    BY <1>1, <1>5, <2>1
<1>11. CASE d \in D
  <2>1. CASE d = Switched(s)
    BY <1>1, <1>3, <2>1
  <2>2. CASE d = [s EXCEPT !.playing = ~@]
    BY <1>1, <1>6, <2>2
  <2> QED
    BY <1>11, <2>1, <2>2
<1> QED
  BY <1>7, <1>8, <1>9, <1>10, <1>11

LEMMA ExchangeNames ==
    /\ DOMAIN Exchanges = 1 .. 7 /\ Len(Exchanges) = 7
    /\ Exchanges[1] = "identity" /\ Exchanges[2] = "transport" /\ Exchanges[3] = "position"
    /\ Exchanges[4] = "media" /\ Exchanges[5] = "browse" /\ Exchanges[6] = "finalPosition"
    /\ Exchanges[7] = "finalMedia"
<1> QED
  BY DEF Exchanges

\* The place a read is at is the last of its trace.
LEMMA AtTheLast ==
    ASSUME SnapshotInv, pc > 0
    PROVE  /\ Len(trace) \in DOMAIN trace /\ Len(trace) \in Nat
           /\ trace[Len(trace)].source = spk.source /\ trace[Len(trace)].number = Number(spk)
           /\ trace[Len(trace)].song = Song(spk) /\ trace[Len(trace)].rev = spk.rev
<1>1. trace \in Seq(PlaceType) /\ trace # <<>> /\ trace[Len(trace)] = Place(spk) /\ PlayerOK(spk)
  BY DEF SnapshotInv, SnapshotTypeOK, TraceOK
<1>2. Len(trace) \in DOMAIN trace /\ Len(trace) \in Nat
  BY <1>1, EmptySeq, LenProperties
<1> QED
  BY <1>1, <1>2, PlaceOfPlayer

\* An exchange adds its reply to the others.
LEMMA Replying ==
    ASSUME SnapshotInv, Exchange
    PROVE  /\ pc \in 1 .. 7 /\ pc' = pc + 1
           /\ \A e : Has(e)' <=> Has(e) \/ e = Exchanges[pc]
           /\ \A e : Has(e) /\ e # Exchanges[pc] => got'[e] = got[e]
           /\ \E told \in BOOLEAN : got'[Exchanges[pc]] = Report(Exchanges[pc], spk', told)
<1> QED
  BY ExchangeNames DEF Exchange, Has

\* A reply has the type of what it is about.
LEMMA ReplyTypes ==
    ASSUME SnapshotInv, Exchange
    PROVE  LET reply == got'[Exchanges[pc]]
           IN  /\ pc = 2 => reply \in BOOLEAN
               /\ pc \in {3, 6} =>
                     /\ reply \in PositionReply
                     /\ reply.track = Number(spk) /\ reply.song = Song(spk)
                     /\ reply.position \subseteq {spk'.position} /\ reply.at = now + 1
               /\ pc \in {4, 7} => reply \in MediaReply /\ reply.uri = spk.source
               /\ pc = 5 => reply \in BrowseReply /\ reply.revision = spk.rev
<1>1. /\ PlayerOK(spk') /\ spk'.source = spk.source /\ spk'.rev = spk.rev
      /\ Number(spk') = Number(spk) /\ Song(spk') = Song(spk)
  BY Elapsing DEF SnapshotInv, Exchange
<1>2. /\ spk'.playing \in BOOLEAN /\ spk'.position \in Nat /\ spk'.source \in Sources
      /\ spk'.rev \in Nat /\ Len(spk'.queue) \in Nat /\ now \in Nat
      /\ Song(spk') \in Played /\ Number(spk') \in Nat
  BY <1>1, PlaceOfPlayer DEF PlayerOK, PlayerType, SnapshotInv, SnapshotTypeOK
<1>3. PICK told \in BOOLEAN : got'[Exchanges[pc]] = Report(Exchanges[pc], spk', told)
  BY Replying
<1> DEFINE reply == got'[Exchanges[pc]]
<1>4. pc = 2 => reply = spk'.playing
  BY <1>3, ExchangeNames DEF Report
<1>5. ASSUME pc \in {3, 6}
      PROVE  /\ reply \in PositionReply
             /\ reply.track = Number(spk) /\ reply.song = Song(spk)
             /\ reply.position \subseteq {spk'.position} /\ reply.at = now + 1
  <2> DEFINE p == IF told /\ spk'.source = "queue" THEN {spk'.position} ELSE {}
  <2>1. reply = [track |-> Number(spk'), song |-> Song(spk'), at |-> now + 1, position |-> p]
    BY <1>3, <1>5, ExchangeNames DEF Report
  <2>2. p \subseteq {spk'.position} /\ p \subseteq Nat
    BY <1>2
  <2> HIDE DEF p, reply
  <2> QED
    BY <1>1, <1>2, <2>1, <2>2 DEF PositionReply
<1>6. pc \in {4, 7} => reply = [uri |-> spk'.source, total |-> Len(spk'.queue)]
  BY <1>3, ExchangeNames DEF Report
<1>7. pc = 5 => reply = [revision |-> spk'.rev, total |-> Len(spk'.queue)]
  BY <1>3, ExchangeNames DEF Report
<1> HIDE DEF reply
<1>8. pc \in {4, 7} => reply \in MediaReply /\ reply.uri = spk.source
  BY <1>1, <1>2, <1>6 DEF MediaReply
<1>9. pc = 5 => reply \in BrowseReply /\ reply.revision = spk.rev
  BY <1>1, <1>2, <1>7 DEF BrowseReply
<1> QED
  BY <1>2, <1>4, <1>5, <1>8, <1>9 DEF reply

LEMMA ExchangeKeepsTypes ==
    ASSUME SnapshotInv, Exchange
    PROVE  SnapshotTypeOK'
<1>1. PlayerOK(spk') /\ now' \in Nat
  BY Elapsing DEF SnapshotInv, Exchange
<1>2. SnapshotTypeOK
  BY DEF SnapshotInv
<1>3. GotOK'
  <2>1. GotOK /\ pc \in 1 .. 7 /\ pc' = pc + 1
    BY <1>2, Replying DEF SnapshotTypeOK
  <2>2. CASE pc < 5
    BY <2>1, <2>2, Replying, ReplyTypes, ExchangeNames DEF GotOK
  <2>3. CASE pc = 5
    BY <2>1, <2>3, Replying, ReplyTypes, ExchangeNames DEF GotOK
  <2>4. CASE pc = 6
    BY <2>1, <2>4, Replying, ReplyTypes, ExchangeNames DEF GotOK
  <2>5. CASE pc = 7
    BY <2>1, <2>5, Replying, ReplyTypes, ExchangeNames DEF GotOK
  <2> QED
    BY <2>1, <2>2, <2>3, <2>4, <2>5
<1>4. pc' \in 0 .. 8
  BY Replying
<1>5. touched' \in BOOLEAN
  BY DEF Exchange
<1> QED
  BY <1>1, <1>2, <1>3, <1>4, <1>5 DEF SnapshotTypeOK, Exchange, PlayerOK

\* The replies about what is played are put beside where the player is.
LEMMA ExchangeKeepsTrace ==
    ASSUME SnapshotInv, Exchange
    PROVE  TraceOK'
<1> DEFINE last == Len(trace)
<1>1. /\ Place(spk') = Place(spk) /\ Number(spk') = Number(spk) /\ Song(spk') = Song(spk)
      /\ spk'.source = spk.source /\ trace' = trace
  BY Elapsing DEF SnapshotInv, Exchange
<1>2. /\ last \in DOMAIN trace /\ last \in Nat
      /\ trace[last].source = spk.source /\ trace[last].number = Number(spk)
      /\ trace[last].song = Song(spk)
  BY AtTheLast, Replying
<1>3. trace' # <<>> /\ trace'[Len(trace')] = Place(spk')
  BY <1>1, Replying DEF SnapshotInv, TraceOK
<1>4. TraceOK /\ GotOK
  BY DEF SnapshotInv, SnapshotTypeOK
<1> HIDE DEF last
<1>5. CASE pc \in 1 .. 2
  BY <1>3, <1>5, Replying DEF TraceOK
<1>6. CASE pc = 3
  <2>1. PositionNow'
    BY <1>1, <1>6, Replying, ReplyTypes, ExchangeNames DEF PositionNow
  <2> QED
    BY <1>3, <1>6, <2>1, Replying DEF TraceOK
<1>7. CASE pc = 4
  <2>1. got'["position"] = got["position"] /\ got'["media"].uri = spk.source
    BY <1>4, <1>7, Replying, ReplyTypes, ExchangeNames DEF GotOK
  <2>2. PositionNow => WasSo'
    BY <1>1, <1>2, <2>1 DEF PositionNow, WasSo
  <2>3. SourceNow'
    BY <1>1, <2>1 DEF SourceNow
  <2> QED
    BY <1>1, <1>3, <1>4, <1>7, <2>2, <2>3, Replying DEF TraceOK, Deceived
<1>8. CASE pc = 5
  <2>1. got'["position"] = got["position"] /\ got'["media"] = got["media"]
    BY <1>4, <1>8, Replying, ExchangeNames DEF GotOK
  <2>2. (WasSo => WasSo') /\ (SourceNow => SourceNow')
    BY <1>1, <2>1 DEF WasSo, SourceNow
  <2> QED
    BY <1>1, <1>3, <1>4, <1>8, <2>2, Replying DEF TraceOK, Deceived
<1>9. CASE pc = 6
  <2>1. /\ got'["position"] = got["position"] /\ got'["media"] = got["media"]
        /\ got'["finalPosition"].track = Number(spk) /\ got'["finalPosition"].song = Song(spk)
    BY <1>4, <1>9, Replying, ReplyTypes, ExchangeNames DEF GotOK
  <2>2. WasSo => WasSo'
    BY <1>1, <2>1 DEF WasSo
  <2>3. SamePosition' => PositionNow'
    BY <1>1, <2>1 DEF SamePosition, PositionNow
  <2>4. SamePosition' /\ SourceNow => WasSo'
    BY <1>1, <1>2, <2>1 DEF SamePosition, SourceNow, WasSo
  <2> QED
    BY <1>1, <1>3, <1>4, <1>9, <2>2, <2>3, <2>4, Replying DEF TraceOK, Deceived
<1>10. CASE pc = 7
  <2>1. /\ got'["position"] = got["position"] /\ got'["media"] = got["media"]
        /\ got'["finalPosition"] = got["finalPosition"]
        /\ got'["finalMedia"].uri = spk.source
    BY <1>4, <1>10, Replying, ReplyTypes, ExchangeNames DEF GotOK
  <2>2. (WasSo => WasSo') /\ (SamePosition' => SamePosition)
    BY <1>1, <2>1 DEF WasSo, SamePosition
  <2>3. PositionNow /\ got'["media"].uri = got'["finalMedia"].uri => WasSo'
    BY <1>1, <1>2, <2>1 DEF PositionNow, WasSo
  <2> QED
    BY <1>1, <1>3, <1>4, <1>10, <2>2, <2>3, Replying DEF TraceOK, Deceived
<1> QED
  BY <1>5, <1>6, <1>7, <1>8, <1>9, <1>10, Replying

LEMMA ExchangeKeepsRevision ==
    ASSUME SnapshotInv, Exchange
    PROVE  RevisionOK'
<1>1. spk'.rev = spk.rev /\ Number(spk') = Number(spk) /\ trace' = trace /\ spk.rev \in Nat
  BY Elapsing DEF SnapshotInv, SnapshotTypeOK, PlayerOK, PlayerType, Exchange
<1>2. /\ Len(trace) \in DOMAIN trace
      /\ trace[Len(trace)].rev = spk.rev /\ trace[Len(trace)].number = Number(spk)
  BY AtTheLast, Replying
<1>3. RevisionOK /\ GotOK
  BY DEF SnapshotInv, SnapshotTypeOK
<1>4. Has("browse")' => got'["browse"].revision <= spk'.rev
  BY <1>1, <1>3, Replying, ReplyTypes, ExchangeNames DEF RevisionOK
<1>5. CASE pc < 6
  BY <1>4, <1>5, Replying DEF RevisionOK
<1>6. CASE pc = 6
  <2>1. got'["finalPosition"].track = Number(spk)
    BY <1>6, Replying, ReplyTypes, ExchangeNames
  <2> QED
    BY <1>1, <1>2, <1>4, <2>1 DEF RevisionOK
<1>7. CASE pc = 7
  <2>1. /\ got'["finalPosition"] = got["finalPosition"] /\ (Has("browse")' => Has("browse"))
        /\ (Has("browse") => got'["browse"] = got["browse"])
    BY <1>3, <1>7, Replying, ExchangeNames DEF GotOK
  <2> QED
    BY <1>1, <1>3, <1>4, <1>7, <2>1 DEF RevisionOK
<1> QED
  BY <1>5, <1>6, <1>7, Replying

LEMMA ExchangeKeepsAnchor ==
    ASSUME SnapshotInv, Exchange
    PROVE  AnchorOK'
<1>1. /\ spk'.playing = spk.playing /\ now' = now + 1 /\ now \in Nat
      /\ spk.playing => spk'.position = spk.position + 1
      /\ PlayerOK(spk') /\ PlayerOK(spk)
  BY Elapsing DEF SnapshotInv, SnapshotTypeOK, Exchange
<1>2. spk'.position \in Nat /\ spk.position \in Nat
  BY <1>1 DEF PlayerOK, PlayerType
<1>3. AnchorOK /\ GotOK
  BY DEF SnapshotInv, SnapshotTypeOK
<1>4. CASE pc < 6
  BY <1>4, Replying DEF AnchorOK
<1>5. CASE pc = 6
  <2>1. /\ got'["finalPosition"].position \subseteq {spk'.position}
        /\ got'["finalPosition"].at = now + 1
    BY <1>5, Replying, ReplyTypes, ExchangeNames
  <2> QED
    BY <1>1, <1>2, <2>1 DEF AnchorOK
<1>6. CASE pc = 7
  <2>1. got'["finalPosition"] = got["finalPosition"] /\ got["finalPosition"] \in PositionReply
    BY <1>3, <1>6, Replying, ExchangeNames DEF GotOK
  <2>2. touched' = touched
    BY <1>6, ExchangeNames DEF Exchange, SnapshotInv, SnapshotTypeOK
  <2>3. ASSUME ~touched, spk.playing, NEW p \in got["finalPosition"].position
        PROVE  p + (now' - got["finalPosition"].at) = spk'.position
    <3>1. p + (now - got["finalPosition"].at) = spk.position
      BY <1>3, <1>6, <2>3 DEF AnchorOK
    <3>2. p \in Nat /\ got["finalPosition"].at \in Nat
      BY <2>1 DEF PositionReply
    <3> QED
      BY <1>1, <1>2, <2>3, <3>1, <3>2
  <2> QED
    BY <1>1, <2>1, <2>2, <2>3 DEF AnchorOK
<1> QED
  BY <1>4, <1>5, <1>6, Replying

LEMMA ExchangeStep ==
    ASSUME SnapshotInv, Exchange
    PROVE  SnapshotInv'
<1>1. PageAgrees'
  BY DEF SnapshotInv, PageAgrees, Exchange
<1> QED
  BY <1>1, ExchangeKeepsTypes, ExchangeKeepsTrace, ExchangeKeepsRevision, ExchangeKeepsAnchor
  DEF SnapshotInv

LEMMA SnapshotBegins == SnapshotInit => SnapshotInv
<1> SUFFICES ASSUME SnapshotInit PROVE SnapshotInv
  OBVIOUS
<1>1. PICK q \in [1 .. 2 -> Songs] :
         spk = [source |-> "queue", queue |-> q, number |-> 1, rev |-> 0, position |-> 0,
                playing |-> TRUE]
  BY DEF SnapshotInit
<1>2. q \in Seq(Songs) /\ Len(q) = 2
  <2>1. 2 \in Nat
    OBVIOUS
  <2> QED
    BY <2>1, FunctionIsSeq
<1>3. PlayerOK(spk)
  <2>1. "queue" \in Sources /\ 0 \in Nat /\ 1 \in Nat /\ TRUE \in BOOLEAN
    BY DEF Sources
  <2>2. q \in Seq(Songs)
    BY <1>2
  <2> HIDE DEF Sources
  <2>3. spk \in PlayerType
    BY <1>1, <2>1, <2>2 DEF PlayerType
  <2>4. spk.number = 1 /\ spk.queue = q
    BY <1>1
  <2>5. Len(spk.queue) = 2
    BY <1>2, <2>4
  <2>6. 1 \in 1 .. 2
    OBVIOUS
  <2>7. spk.number \in 1 .. Len(spk.queue)
    BY <2>4, <2>5, <2>6, Zenon
  <2> QED
    BY <2>3, <2>7 DEF PlayerOK
<1>4. app \in [observed : SUBSET Observation, stale : BOOLEAN, page : SUBSET Nat]
  BY DEF SnapshotInit
<1>5. trace \in Seq(PlaceType) /\ pc = 0 /\ now \in Nat /\ touched \in BOOLEAN
  <2>1. trace = <<>> /\ pc = 0 /\ now = 0 /\ touched = FALSE
    BY DEF SnapshotInit, Idle
  <2>2. trace \in Seq(PlaceType)
    BY <2>1
  <2>3. touched \in BOOLEAN
    BY <2>1
  <2> QED
    BY <2>1, <2>2, <2>3
<1>6. \A e : ~Has(e)
  BY DEF SnapshotInit, Has
<1>7. SnapshotTypeOK
  BY <1>3, <1>4, <1>5, <1>6 DEF SnapshotTypeOK, GotOK
<1> QED
  <2>1. TraceOK /\ AnchorOK
    BY <1>5 DEF TraceOK, AnchorOK
  <2>2. RevisionOK
    BY <1>6 DEF RevisionOK
  <2>3. PageAgrees
    BY DEF SnapshotInit, PageAgrees
  <2> QED
    BY <1>7, <2>1, <2>2, <2>3 DEF SnapshotInv

\* A read starts at the place the player is in.
LEMMA BeginStep ==
    ASSUME SnapshotInv, Begin
    PROVE  SnapshotInv'
<1>1. /\ PlayerOK(spk) /\ Place(spk) \in PlaceType
      /\ spk' = spk /\ trace' = <<Place(spk)>> /\ pc' = 1
  BY PlaceOfPlayer DEF SnapshotInv, SnapshotTypeOK, Begin
<1>2. trace' \in Seq(PlaceType) /\ Len(trace') = 1 /\ trace'[1] = Place(spk) /\ trace' # <<>>
  BY <1>1
<1>3. \A e : ~Has(e)'
  BY DEF Begin, Has
<1>4. SnapshotTypeOK'
  BY <1>1, <1>2, <1>3 DEF SnapshotInv, SnapshotTypeOK, GotOK, Begin, PlayerOK
<1>5. TraceOK'
  BY <1>1, <1>2 DEF TraceOK, Place, Number, Song
<1> QED
  BY <1>1, <1>3, <1>4, <1>5
  DEF SnapshotInv, RevisionOK, AnchorOK, PageAgrees, Begin

\* What a failed read leaves: nothing is asked of a read that is not under way.
LEMMA FailStep ==
    ASSUME SnapshotInv, Fail
    PROVE  SnapshotInv'
<1>1. UNCHANGED <<spk, got, now, trace, touched>>
  BY DEF Fail
<1>2. SnapshotInv
  OBVIOUS
<1>3. CASE Exchanges[pc] = "browse"
  <2>1. pc = 5 /\ pc' = 6 /\ app' = app
    BY <1>3, ExchangeNames DEF Fail
  <2>2. SnapshotTypeOK'
    BY <1>1, <2>1 DEF SnapshotInv, SnapshotTypeOK, PlayerOK, GotOK, Has
  <2>3. TraceOK'
    BY <1>1, <2>1 DEF SnapshotInv, TraceOK, WasSo, SourceNow, Deceived, Place, Number, Song
  <2>4. RevisionOK'
    BY <1>1, <2>1 DEF SnapshotInv, RevisionOK, Has
  <2> QED
    BY <2>1, <2>2, <2>3, <2>4 DEF SnapshotInv, AnchorOK, PageAgrees
<1>4. CASE Exchanges[pc] # "browse"
  <2>1. pc' = 0 /\ app' = [app EXCEPT !.stale = TRUE, !.page = {}]
    BY <1>4 DEF Fail, Idle
  <2>2. app' \in [observed : SUBSET Observation, stale : BOOLEAN, page : SUBSET Nat] /\ app'.page = {}
    BY <2>1 DEF SnapshotInv, SnapshotTypeOK
  <2>3. SnapshotTypeOK'
    BY <1>1, <2>1, <2>2 DEF SnapshotInv, SnapshotTypeOK, PlayerOK, GotOK, Has
  <2>4. RevisionOK'
    BY <1>1, <2>1 DEF SnapshotInv, RevisionOK, Has
  <2> QED
    BY <2>1, <2>2, <2>3, <2>4 DEF SnapshotInv, TraceOK, AnchorOK, PageAgrees
<1> QED
  BY <1>3, <1>4

LEMMA ComposeTypes ==
    ASSUME SnapshotInv, pc = 8
    PROVE  Compose(got) \in Observation
<1>1. /\ got["transport"] \in BOOLEAN
      /\ got["position"] \in PositionReply /\ got["finalPosition"] \in PositionReply
      /\ got["media"] \in MediaReply
      /\ "browse" \in DOMAIN got => got["browse"] \in BrowseReply
  BY DEF SnapshotInv, SnapshotTypeOK, GotOK, Has
<1>2. {b.revision : b \in Summary(got)} \subseteq Nat
  BY <1>1 DEF Summary, BrowseReply
<1>3. Anchor(got) \subseteq [position : Nat, at : Nat]
  <2>1. /\ got["position"].position \subseteq Nat /\ got["finalPosition"].position \subseteq Nat
        /\ got["finalPosition"].at \in Nat
    BY <1>1 DEF PositionReply
  <2> QED
    BY <2>1 DEF Anchor
<1>4. /\ got["media"].uri \in Sources
      /\ got["position"].track \in Nat /\ got["position"].song \in Played
  BY <1>1 DEF PositionReply, MediaReply
<1> DEFINE a == IF got["media"].uri = Live THEN {} ELSE Anchor(got)
           i == IF got["media"].uri = "queue" /\ got["position"].track <= Total(got)
                THEN {got["position"].track} ELSE {}
           r == {b.revision : b \in Summary(got)}
<1>5. a \subseteq [position : Nat, at : Nat] /\ i \subseteq Nat /\ r \subseteq Nat
  BY <1>2, <1>3, <1>4
<1>6. Compose(got) = [uri |-> got["media"].uri, track |-> got["position"].track,
                      song |-> got["position"].song, playing |-> got["transport"],
                      anchor |-> a, index |-> i, revision |-> r]
  BY DEF Compose
<1> HIDE DEF a, i, r
<1> QED
  BY <1>1, <1>4, <1>5, <1>6 DEF Observation

LEMMA AcceptStep ==
    ASSUME SnapshotInv, Accept
    PROVE  SnapshotInv'
<1>1. /\ UNCHANGED <<spk, got, now, trace, touched>> /\ pc' = 0 /\ pc = 8
  BY ExchangeNames DEF Accept, Idle
<1>2. /\ app' \in [observed : SUBSET Observation, stale : BOOLEAN, page : SUBSET Nat]
      /\ app'.page = {}
  <2>1. CASE UnchangedContent(got)
    <3>1. app' = [observed |-> {Compose(got)}, stale |-> FALSE, page |-> {}]
      BY <2>1 DEF Accept
    <3> QED
      BY <1>1, <3>1, ComposeTypes
  <2>2. CASE ~UnchangedContent(got)
    <3>1. app' = [app EXCEPT !.stale = TRUE, !.page = {}]
      BY <2>2 DEF Accept
    <3> QED
      BY <3>1 DEF SnapshotInv, SnapshotTypeOK
  <2> QED
    BY <2>1, <2>2
<1>3. SnapshotTypeOK'
  BY <1>1, <1>2 DEF SnapshotInv, SnapshotTypeOK, PlayerOK, GotOK, Has
<1>4. RevisionOK'
  BY <1>1 DEF SnapshotInv, RevisionOK, Has
<1> QED
  BY <1>1, <1>2, <1>3, <1>4 DEF SnapshotInv, TraceOK, AnchorOK, PageAgrees

\* A page of the queue beside an observation makes that speak of its revision.
LEMMA WithPageAgrees ==
    ASSUME NEW a \in [observed : SUBSET Observation, stale : BOOLEAN, page : SUBSET Nat],
           NEW rev \in Nat
    PROVE  LET b == WithPage(a, rev)
           IN  /\ b \in [observed : SUBSET Observation, stale : BOOLEAN, page : SUBSET Nat]
               /\ \A r \in b.page, o \in b.observed : o.revision = {r}
<1> DEFINE f(o) == [o EXCEPT !.revision = {rev}, !.index = IF o.revision = {rev} THEN @ ELSE {}]
           obs == {f(o) : o \in a.observed}
           st == a.stale \/ \E o \in a.observed : o.revision # {rev}
           b == WithPage(a, rev)
<1>1. ASSUME NEW o \in a.observed
      PROVE  f(o) \in Observation /\ f(o).revision = {rev}
  <2>1. o \in Observation
    BY <1>1
  <2> QED
    BY <2>1 DEF Observation
<1> HIDE DEF f, st, b
<1>2. obs \subseteq Observation /\ \A o \in obs : o.revision = {rev}
  BY <1>1
<1>3. st \in BOOLEAN
  BY DEF st
<1>4. b = [a EXCEPT !.page = {rev}, !.observed = obs, !.stale = st]
  BY DEF WithPage, f, st, b
<1> HIDE DEF obs
<1>5. b.page = {rev} /\ b.observed = obs
  BY <1>4
<1>6. b \in [observed : SUBSET Observation, stale : BOOLEAN, page : SUBSET Nat]
  BY <1>2, <1>3, <1>4
<1> QED
  BY <1>2, <1>5, <1>6 DEF b

LEMMA ReadPageStep ==
    ASSUME SnapshotInv, ReadPage
    PROVE  SnapshotInv'
<1>1. PlayerOK(spk') /\ now' \in Nat /\ spk'.rev = spk.rev
  BY Elapsing DEF SnapshotInv, ReadPage
<1>2. UNCHANGED <<got, pc, trace, touched>> /\ pc = 0
  BY DEF ReadPage, Idle
<1>3. /\ app' \in [observed : SUBSET Observation, stale : BOOLEAN, page : SUBSET Nat]
      /\ PageAgrees'
  <2>1. app \in [observed : SUBSET Observation, stale : BOOLEAN, page : SUBSET Nat]
    BY DEF SnapshotInv, SnapshotTypeOK
  <2>2. CASE app' = WithPage(app, spk'.rev)
    <3>1. spk'.rev \in Nat
      BY <1>1 DEF PlayerOK, PlayerType
    <3> QED
      BY <2>1, <2>2, <3>1, WithPageAgrees DEF PageAgrees
  <2>3. CASE app' = [app EXCEPT !.page = {}]
    BY <2>1, <2>3 DEF PageAgrees
  <2> QED
    BY <2>2, <2>3 DEF ReadPage
<1>4. SnapshotTypeOK'
  BY <1>1, <1>2, <1>3 DEF SnapshotInv, SnapshotTypeOK, PlayerOK, GotOK, Has
<1>5. RevisionOK'
  BY <1>1, <1>2 DEF SnapshotInv, RevisionOK, Has
<1> QED
  BY <1>2, <1>3, <1>4, <1>5 DEF SnapshotInv, TraceOK, AnchorOK

\* A change takes the player to a further place of the read, where nothing that has been
\* read need hold; it is counted.
LEMMA ChangeStep ==
    ASSUME SnapshotInv, Change
    PROVE  SnapshotInv'
<1>1. PlayerOK(spk') /\ spk'.rev >= spk.rev /\ spk'.rev \in Nat /\ spk.rev \in Nat /\ PlayerOK(spk)
  <2>1. PlayerOK(spk) /\ spk' \in Changed(spk)
    BY DEF SnapshotInv, SnapshotTypeOK, Change
  <2>2. PlayerOK(spk') /\ spk'.rev >= spk.rev
    BY <2>1, Changing
  <2> QED
    BY <2>1, <2>2 DEF PlayerOK, PlayerType
<1>2. UNCHANGED <<got, pc, app, now>> /\ touched' = TRUE
  BY DEF Change
<1>3. trace \in Seq(PlaceType) /\ Place(spk') \in PlaceType
  BY <1>1, PlaceOfPlayer DEF SnapshotInv, SnapshotTypeOK
<1>4. CASE pc = 0
  <2>1. trace' = trace
    BY <1>4 DEF Change, Idle
  <2>2. SnapshotTypeOK'
    BY <1>1, <1>2, <2>1 DEF SnapshotInv, SnapshotTypeOK, PlayerOK, GotOK, Has
  <2>3. RevisionOK'
    BY <1>1, <1>2, <1>4 DEF SnapshotInv, SnapshotTypeOK, GotOK, RevisionOK, Has, BrowseReply
  <2> QED
    BY <1>2, <1>4, <2>2, <2>3 DEF SnapshotInv, TraceOK, AnchorOK, PageAgrees
<1>5. CASE pc > 0
  <2>1. trace' = Append(trace, Place(spk'))
    BY <1>5 DEF Change, Idle, SnapshotInv, SnapshotTypeOK
  <2>2. /\ trace' \in Seq(PlaceType) /\ Len(trace) \in Nat /\ Len(trace') = Len(trace) + 1
        /\ trace'[Len(trace')] = Place(spk') /\ trace' # <<>>
        /\ \A k \in DOMAIN trace : k \in DOMAIN trace' /\ trace'[k] = trace[k]
    BY <1>3, <2>1
  <2>3. Len(trace) >= 1
    BY <1>3, <1>5, EmptySeq, LenProperties DEF SnapshotInv, TraceOK
  <2>4. WasSo => WasSo'
    BY <1>2, <2>2 DEF WasSo
  <2>5. SnapshotTypeOK'
    BY <1>1, <1>2, <2>2 DEF SnapshotInv, SnapshotTypeOK, PlayerOK, GotOK, Has
  <2>6. SamePosition' <=> SamePosition
    BY <1>2 DEF SamePosition
  <2>7. TraceOK'
    BY <1>2, <2>2, <2>3, <2>4, <2>6 DEF SnapshotInv, TraceOK, Deceived
  <2>8. RevisionOK'
    <3>1. Has("browse")' <=> Has("browse")
      BY <1>2 DEF Has
    <3>2. Has("browse") => got["browse"].revision \in Nat
      BY DEF SnapshotInv, SnapshotTypeOK, GotOK, BrowseReply
    <3>3. CASE spk'.rev = spk.rev
      BY <1>1, <1>2, <2>2, <3>1, <3>3 DEF SnapshotInv, RevisionOK
    <3>4. CASE spk'.rev > spk.rev
      BY <1>1, <1>2, <3>1, <3>2, <3>4 DEF SnapshotInv, RevisionOK
    <3> QED
      BY <1>1, <3>3, <3>4
  <2> QED
    BY <1>2, <2>5, <2>7, <2>8 DEF SnapshotInv, AnchorOK, PageAgrees
<1> QED
  BY <1>4, <1>5 DEF SnapshotInv, SnapshotTypeOK

\* What was read in three exchanges and agrees again at the end was so at one moment, or more
\* than two changes hid that it never was.
LEMMA CoherentAtTheEnd == SnapshotInv => ObservationIsCoherent
<1> SUFFICES ASSUME SnapshotInv PROVE ObservationIsCoherent
  OBVIOUS
<1>1. Coherent
  <2> SUFFICES ASSUME Accepting, Len(trace) <= 3 PROVE WasSo
    BY DEF Coherent, WasSo
  <2>1. pc = 8 /\ SamePosition /\ got["media"].uri = got["finalMedia"].uri /\ Len(trace) \in Nat
    BY ExchangeNames
    DEF Accepting, UnchangedContent, SamePosition, SnapshotInv, SnapshotTypeOK
  <2> QED
    BY <2>1 DEF SnapshotInv, TraceOK, Deceived
<1>2. IndexIsOfItsRevision
  <2> SUFFICES ASSUME Accepting, NEW n \in Compose(got).index, NEW r \in Compose(got).revision,
                      spk.rev = r
               PROVE  \E k \in DOMAIN trace : trace[k].rev = r /\ trace[k].number = n
    BY DEF IndexIsOfItsRevision
  <2>1. pc = 8 /\ got["position"].track = got["finalPosition"].track
    BY ExchangeNames DEF Accepting, UnchangedContent
  <2>2. n = got["position"].track
    BY DEF Compose
  <2>3. r \in {b.revision : b \in Summary(got)}
    BY DEF Compose
  <2>4. Has("browse") /\ r = got["browse"].revision
    BY <2>3 DEF Summary, Has
  <2> QED
    BY <2>1, <2>2, <2>4 DEF SnapshotInv, RevisionOK
<1>3. PositionIsAnchored
  <2> SUFFICES ASSUME Accepting, ~touched, spk.playing, got["finalPosition"].position # {},
                      NEW a \in Compose(got).anchor
               PROVE  a.position + (now - a.at) = spk.position
    BY DEF PositionIsAnchored
  <2>1. pc = 8
    BY ExchangeNames DEF Accepting
  <2>2. a \in Anchor(got)
    BY DEF Compose
  <2>3. PICK p \in got["finalPosition"].position :
            a = [position |-> p, at |-> got["finalPosition"].at]
    BY <2>2 DEF Anchor
  <2>4. a.position = p /\ a.at = got["finalPosition"].at
    BY <2>3
  <2> QED
    BY <2>1, <2>4 DEF SnapshotInv, AnchorOK
<1> QED
  BY <1>1, <1>2, <1>3 DEF ObservationIsCoherent, SnapshotInv

\* Composing ten replies does not invent a state: an observation that the read accepts was true
\* at one moment of it, whatever other controllers did twice in between; its index is of
\* the queue revision it names unless that has gone; its position is the player's; and
\* the page beside it is of its revision (DirectSonos::refresh, Application::queue).
THEOREM ObservationsAreCoherent == SnapshotSpec => []ObservationIsCoherent
<1>1. ASSUME SnapshotInv, [SnapshotNext]_snapshotVars PROVE SnapshotInv'
  <2>1. CASE Begin
    BY <1>1, <2>1, BeginStep
  <2>2. CASE Exchange
    BY <1>1, <2>2, ExchangeStep
  <2>3. CASE Fail
    BY <1>1, <2>3, FailStep
  <2>4. CASE Accept
    BY <1>1, <2>4, AcceptStep
  <2>5. CASE ReadPage
    BY <1>1, <2>5, ReadPageStep
  <2>6. CASE Change
    BY <1>1, <2>6, ChangeStep
  <2>7. CASE UNCHANGED snapshotVars
    BY <1>1, <2>7
    DEF snapshotVars, SnapshotInv, SnapshotTypeOK, PlayerOK, GotOK, Has, TraceOK, WasSo, SourceNow,
        PositionNow, SamePosition, Deceived, Place, Number, Song, RevisionOK, AnchorOK, PageAgrees
  <2> QED
    BY <1>1, <2>1, <2>2, <2>3, <2>4, <2>5, <2>6, <2>7 DEF SnapshotNext, Rest
<1> QED
  BY <1>1, SnapshotBegins, CoherentAtTheEnd, PTL DEF SnapshotSpec

------------------------------------------------------------------------------
(* Rooms: the sorted list *)

Entry == [id : Nat, name : Nat]

LEMMA BeforeIsAnOrder ==
    ASSUME NEW a \in Entry, NEW b \in Entry
    PROVE  /\ ~Before(a, a)
           /\ a # b => Before(a, b) \/ Before(b, a)
           /\ \A c \in Entry : Before(a, b) /\ Before(b, c) => Before(a, c)
<1>1. ~Before(a, a) /\ \A c \in Entry : Before(a, b) /\ Before(b, c) => Before(a, c)
  BY DEF Before, Entry
<1>2. a = [id |-> a.id, name |-> a.name] /\ b = [id |-> b.id, name |-> b.name]
  BY DEF Entry
<1>3. a # b => a.id # b.id \/ a.name # b.name
  BY <1>2
<1> QED
  BY <1>1, <1>3 DEF Before, Entry

\* The entries that come before one in a set, and its place in the order of that set.
Smaller(S, r) == {q \in S : Before(q, r)}
Rank(S, r) == Cardinality(Smaller(S, r)) + 1

LEMMA Ranks ==
    ASSUME NEW S \in SUBSET Entry, IsFiniteSet(S)
    PROVE  /\ \A r \in S : Rank(S, r) \in 1 .. Cardinality(S)
           /\ \A a, b \in S : Before(a, b) => Rank(S, a) < Rank(S, b)
<1>1. ASSUME NEW r \in S
      PROVE  Rank(S, r) \in 1 .. Cardinality(S) /\ IsFiniteSet(Smaller(S, r))
             /\ Cardinality(Smaller(S, r)) \in Nat
  <2>1. Smaller(S, r) \subseteq S \ {r}
    BY BeforeIsAnOrder DEF Smaller
  <2>2. IsFiniteSet(S \ {r}) /\ Cardinality(S \ {r}) = Cardinality(S) - 1
    BY FS_RemoveElement
  <2>3. IsFiniteSet(Smaller(S, r)) /\ Cardinality(Smaller(S, r)) <= Cardinality(S \ {r})
    BY <2>1, <2>2, FS_Subset
  <2> QED
    BY <2>2, <2>3, FS_CardinalityType DEF Rank
<1>2. ASSUME NEW a \in S, NEW b \in S, Before(a, b)
      PROVE  Rank(S, a) < Rank(S, b)
  <2>1. Smaller(S, a) \subseteq Smaller(S, b)
    BY <1>2, BeforeIsAnOrder DEF Smaller
  <2>2. a \in Smaller(S, b) /\ a \notin Smaller(S, a)
    BY <1>2, BeforeIsAnOrder DEF Smaller
  <2>3. /\ Cardinality(Smaller(S, a)) <= Cardinality(Smaller(S, b))
        /\ Cardinality(Smaller(S, a)) # Cardinality(Smaller(S, b))
    BY <1>1, <2>1, <2>2, FS_Subset
  <2> QED
    BY <1>1, <2>3 DEF Rank
<1> QED
  BY <1>1, <1>2

\* A function that keeps a strict order is injective, and between finite sets of one size it
\* reaches everything.
LEMMA SortedReachesAll ==
    ASSUME NEW S \in SUBSET Entry, IsFiniteSet(S), NEW s \in [1 .. Cardinality(S) -> S],
           \A i, j \in DOMAIN s : i < j => Before(s[i], s[j])
    PROVE  \A r \in S : \E i \in 1 .. Cardinality(S) : s[i] = r
<1> DEFINE n == Cardinality(S)
<1>1. n \in Nat
  BY FS_CardinalityType
<1>2. ASSUME NEW i \in 1 .. n, NEW j \in 1 .. n, s[i] = s[j]
      PROVE  i = j
  <2>1. s[i] \in Entry /\ ~Before(s[i], s[i])
    BY BeforeIsAnOrder
  <2>2. ~(i < j) /\ ~(j < i)
    BY <1>2, <2>1
  <2> QED
    BY <1>1, <2>2
<1>3. s \in Injection(1 .. n, S)
  BY <1>2, Fun_IsInj
<1>4. IsFiniteSet(1 .. n) /\ Cardinality(1 .. n) = n
  BY <1>1, FS_Interval
<1>5. s \in Surjection(1 .. n, S)
  BY <1>3, <1>4, FS_Injection
<1> HIDE DEF n
<1>6. \A r \in S : \E i \in 1 .. n : s[i] = r
  BY <1>5 DEF Surjection
<1> QED
  BY <1>6 DEF n

\* std::sort: the rooms are listed in order, each of them, and nothing else.
LEMMA InOrderLists ==
    ASSUME NEW S \in SUBSET Entry, IsFiniteSet(S)
    PROVE  /\ InOrder(S) \in [1 .. Cardinality(S) -> S]
           /\ \A r \in S : \E i \in 1 .. Cardinality(S) : InOrder(S)[i] = r
<1> DEFINE n == Cardinality(S)
           f == [r \in S |-> Rank(S, r)]
           s == [i \in 1 .. n |-> CHOOSE r \in S : f[r] = i]
<1>1. n \in Nat
  BY FS_CardinalityType
<1>2. f \in [S -> 1 .. n]
  BY Ranks
<1>3. ASSUME NEW a \in S, NEW b \in S, f[a] = f[b]
      PROVE  a = b
  BY <1>3, Ranks, BeforeIsAnOrder
<1>4. f \in Injection(S, 1 .. n)
  BY <1>2, <1>3, Fun_IsInj
<1>5. f \in Surjection(S, 1 .. n)
  <2>1. IsFiniteSet(1 .. n) /\ Cardinality(1 .. n) = n
    BY <1>1, FS_Interval
  <2> QED
    BY <1>4, <2>1, FS_Injection
<1>6. \A i \in 1 .. n : \E r \in S : f[r] = i
  BY <1>5 DEF Surjection
<1>7. \A i \in 1 .. n : s[i] \in S /\ f[s[i]] = i
  BY <1>6
<1>8. s \in [1 .. n -> S]
  BY <1>7
<1>9. ASSUME NEW i \in DOMAIN s, NEW j \in DOMAIN s, i < j
      PROVE  Before(s[i], s[j])
  <2>1. i \in 1 .. n /\ j \in 1 .. n
    BY <1>9
  <2>2. s[i] \in S /\ s[j] \in S /\ Rank(S, s[i]) = i /\ Rank(S, s[j]) = j
    BY <1>7, <2>1
  <2>3. ~Before(s[j], s[i])
    BY <1>1, <1>9, <2>1, <2>2, Ranks
  <2>4. s[i] # s[j]
    BY <1>1, <1>9, <2>1, <2>2
  <2> QED
    BY <2>2, <2>3, <2>4, BeforeIsAnOrder
<1> HIDE DEF f, s
<1>10. /\ InOrder(S) \in [1 .. n -> S]
       /\ \A i, j \in DOMAIN InOrder(S) : i < j => Before(InOrder(S)[i], InOrder(S)[j])
  BY <1>8, <1>9 DEF InOrder
<1> QED
  BY <1>10, SortedReachesAll

------------------------------------------------------------------------------
(* Rooms: the list of a topology *)

Alone(t, p) == \A q \in DOMAIN t \ {p} : t[q].name # t[p].name

\* A name resolves to the one player that answers to it, and to that only if it may be played.
LEMMA Resolving ==
    ASSUME NEW t \in Topologies, NEW name, NEW p
    PROVE  p \in Resolved(t, name) <=>
              p \in DOMAIN t /\ t[p].name = name /\ eligible(t, p) /\ Alone(t, p)
<1>1. IsFiniteSet(Named(t, name))
  BY TopologiesAssumption, FS_Subset DEF Named
<1>2. Cardinality(Named(t, name)) = 1 <=> \E x : Named(t, name) = {x}
  BY <1>1, FS_Singleton
<1>3. ASSUME p \in Resolved(t, name)
      PROVE  p \in DOMAIN t /\ t[p].name = name /\ eligible(t, p) /\ Alone(t, p)
  <2>1. Cardinality(Named(t, name)) = 1 /\ p \in Named(t, name) /\ eligible(t, p)
    BY <1>3 DEF Resolved
  <2>2. Named(t, name) = {p}
    BY <1>2, <2>1
  <2> QED
    BY <2>1, <2>2 DEF Named, Alone
<1>4. ASSUME p \in DOMAIN t, t[p].name = name, eligible(t, p), Alone(t, p)
      PROVE  p \in Resolved(t, name)
  <2>1. Named(t, name) = {p}
    BY <1>4 DEF Named, Alone
  <2> QED
    BY <1>2, <1>4, <2>1 DEF Resolved
<1> QED
  BY <1>3, <1>4

LEMMA Selecting ==
    ASSUME NEW t \in Topologies, NEW p
    PROVE  p \in Selectable(t) <=>
              p \in DOMAIN t /\ t[p].name \in configured /\ eligible(t, p) /\ Alone(t, p)
<1> QED
  BY Resolving DEF Selectable

\* The list holds every room that can be selected, with its name, and no other.
LEMMA Listing ==
    ASSUME NEW t \in Topologies
    PROVE  /\ Sorted(t) \in Seq(Entry)
           /\ \A i \in 1 .. Len(Sorted(t)) :
                 /\ Sorted(t)[i].id \in Selectable(t) /\ Sorted(t)[i].name = t[Sorted(t)[i].id].name
                 /\ Sorted(t)[i].id \in Nat \ {Nobody}
           /\ \A p \in Selectable(t) : \E i \in 1 .. Len(Sorted(t)) : Sorted(t)[i].id = p
<1> DEFINE e(p) == [id |-> p, name |-> t[p].name]
           S == {e(p) : p \in Selectable(t)}
           f == [p \in Selectable(t) |-> e(p)]
<1>1. Selectable(t) \subseteq DOMAIN t
  BY Selecting
<1>2. ASSUME NEW p \in Selectable(t)
      PROVE  p \in Nat \ {Nobody} /\ t[p].name \in Nat
  <2>1. p \in DOMAIN t
    BY <1>1, <1>2
  <2>2. p \in Players /\ t[p] \in Member
    <3>1. DOMAIN t \subseteq Players /\ \A q \in DOMAIN t : t[q] \in Member
      BY TopologiesAssumption
    <3> QED
      BY <2>1, <3>1
  <2>3. t[p].name \in Names \cup {Unnamed}
    BY <2>2 DEF Member
  <2>4. Players \subseteq Nat \ {Nobody} /\ Names \subseteq Nat /\ Unnamed \in Nat
    BY RoomsAssumption DEF Unnamed
  <2> QED
    BY <2>2, <2>3, <2>4
<1>3. S \subseteq Entry
  BY <1>2 DEF Entry
<1>4. IsFiniteSet(Selectable(t))
  BY <1>1, TopologiesAssumption, FS_Subset
<1>5. f \in Surjection(Selectable(t), S)
  BY DEF Surjection
<1>6. IsFiniteSet(S)
  BY <1>4, <1>5, FS_Surjection
<1> DEFINE n == Cardinality(S)
           s == Sorted(t)
<1>7. n \in Nat
  BY <1>6, FS_CardinalityType
<1>8. s \in [1 .. n -> S] /\ \A r \in S : \E i \in 1 .. n : s[i] = r
  BY <1>3, <1>6, InOrderLists DEF Sorted
<1>9. ASSUME NEW r \in S
      PROVE  r.id \in Selectable(t) /\ r.name = t[r.id].name /\ r.id \in Nat \ {Nobody}
  <2>1. PICK p \in Selectable(t) : r = [id |-> p, name |-> t[p].name]
    BY <1>9
  <2>2. r.id = p /\ r.name = t[p].name
    BY <2>1
  <2> QED
    BY <1>2, <2>2
<1>10. \A p \in Selectable(t) : e(p) \in S /\ e(p).id = p
  OBVIOUS
<1> HIDE DEF n, s, S, e, f
<1>11. s \in [1 .. n -> Entry]
  BY <1>3, <1>8
<1>12. s \in Seq(Entry) /\ Len(s) = n
  BY <1>7, <1>11, FunctionIsSeq
<1>13. \A i \in 1 .. Len(s) : s[i] \in S
  BY <1>8, <1>12
<1>14. \A p \in Selectable(t) : \E i \in 1 .. Len(s) : s[i].id = p
  BY <1>8, <1>10, <1>12
<1> QED
  BY <1>9, <1>12, <1>13, <1>14 DEF s

------------------------------------------------------------------------------
(* Rooms: the invariant *)

Selection == [rooms : Seq(Entry), selectedId : Nat, preferredId : Nat, initialized : BOOLEAN]

\* A selection made from a topology: it is one of its rooms, or there is none.
MadeFrom(s, t) ==
    /\ s.rooms = Sorted(t)
    /\ s.selectedId # Nobody => Listed(s, s.selectedId)
    /\ s.initialized <=> s.selectedId # Nobody

\* What a restart leaves until the first topology is accepted.
Untouched ==
    /\ sel.rooms = <<>> /\ sel.selectedId = Nobody /\ ~sel.initialized
    /\ written = sel.preferredId
    /\ flash \in configured => sel.preferredId = flash

RoomsInv ==
    /\ configured \in Configs
    /\ sel \in Selection /\ shown = sel.selectedId
    /\ sel.preferredId \in configured \cup {Unnamed}
    /\ \/ seen = <<>> /\ Untouched
       \/ seen \in Topologies /\ MadeFrom(sel, seen)

\* A topology is not the empty one that stands for none.
LEMMA ATopologyIsSomething == \A t \in Topologies : t # <<>>
<1> QED
  BY TopologiesAssumption

LEMMA ConfiguredNames == RoomsInv => configured \subseteq Nat \ {Unnamed}
<1> QED
  BY RoomsAssumption DEF RoomsInv

\* A chosen room is in the list under the name that becomes the preference.
LEMMA Choosing ==
    ASSUME NEW t \in Topologies, NEW s \in Selection, s.rooms = Sorted(t),
           NEW i \in 1 .. Len(s.rooms)
    PROVE  LET c == Chosen(s, i)
           IN  /\ c \in Selection /\ MadeFrom(c, t) /\ c.selectedId \in Selectable(t)
               /\ c.preferredId = t[c.selectedId].name /\ c.preferredId \in configured
               /\ c.rooms = s.rooms
<1> DEFINE c == Chosen(s, i)
<1>1. s.rooms[i] \in Entry
  BY ElementOfSeq DEF Selection
<1>2. /\ s.rooms[i].id \in Selectable(t) /\ s.rooms[i].name = t[s.rooms[i].id].name
      /\ s.rooms[i].id # Nobody
  BY Listing
<1>3. t[s.rooms[i].id].name \in configured
  BY <1>2, Selecting
<1>4. s.rooms[i].id \in Nat /\ s.rooms[i].name \in Nat
  BY <1>1 DEF Entry
<1>5. /\ c \in Selection
      /\ c.rooms = s.rooms /\ c.selectedId = s.rooms[i].id /\ c.preferredId = s.rooms[i].name
      /\ c.initialized = TRUE
  BY <1>4 DEF Chosen, Selection
<1> HIDE DEF c
<1>6. Listed(c, c.selectedId)
  BY <1>5 DEF Listed
<1>7. MadeFrom(c, t)
  BY <1>2, <1>5, <1>6 DEF MadeFrom
<1> QED
  BY <1>2, <1>3, <1>5, <1>7 DEF c

\* The room selected is one of the topology.
LEMMA SelectedIsSelectable ==
    ASSUME NEW t \in Topologies, NEW s, MadeFrom(s, t), s.selectedId # Nobody
    PROVE  s.selectedId \in Selectable(t)
<1>1. \E i \in 1 .. Len(s.rooms) : s.rooms[i].id = s.selectedId
  BY DEF MadeFrom, Listed
<1>2. s.rooms = Sorted(t)
  BY DEF MadeFrom
<1> QED
  BY <1>1, <1>2, Listing

\* RoomSelection::update: the preference is left alone; a room that is still listed stays
\* selected; and where a new one is looked for, the preferred one is found.
LEMMA Updating ==
    ASSUME NEW t \in Topologies, NEW s \in Selection, s.initialized <=> s.selectedId # Nobody
    PROVE  LET u == update(s, t)
           IN  /\ u \in Selection /\ MadeFrom(u, t) /\ u.preferredId = s.preferredId
               /\ s.selectedId # Nobody /\ Listed(u, s.selectedId) => u.selectedId = s.selectedId
               /\ s.selectedId = Nobody /\ (\E i \in 1 .. Len(u.rooms) : u.rooms[i].name = s.preferredId)
                    => \E i \in 1 .. Len(u.rooms) : /\ u.rooms[i].id = u.selectedId
                                                   /\ u.rooms[i].name = s.preferredId
<1> DEFINE u == update(s, t)
           l == [s EXCEPT !.rooms = Sorted(t)]
<1>1. Sorted(t) \in Seq(Entry)
  BY Listing
<1>2. /\ l \in Selection /\ l.rooms = Sorted(t) /\ l.selectedId = s.selectedId
      /\ l.preferredId = s.preferredId /\ l.initialized = s.initialized
  BY <1>1 DEF Selection
<1>3. u = IF NeedsFallback(l) THEN Fallback(l) ELSE l
  BY DEF update
<1> HIDE DEF l, u
<1>4. CASE ~NeedsFallback(l)
  <2>1. u = l /\ l.initialized /\ Listed(l, l.selectedId)
    BY <1>3, <1>4 DEF NeedsFallback
  <2>2. s.selectedId # Nobody
    BY <1>2, <2>1
  <2>3. MadeFrom(u, t)
    BY <1>2, <2>1, <2>2 DEF MadeFrom
  <2> QED
    BY <1>2, <2>1, <2>2, <2>3 DEF u
<1>5. CASE NeedsFallback(l)
  <2> DEFINE preferred == {i \in 1 .. Len(l.rooms) : l.rooms[i].name = l.preferredId}
             id == IF preferred = {} THEN FirstRoom(l)
                   ELSE l.rooms[CHOOSE i \in preferred : TRUE].id
             ini == id # Nobody
  <2>1. u = [l EXCEPT !.selectedId = id, !.initialized = ini]
    BY <1>3, <1>5 DEF Fallback
  <2>2. /\ preferred = {} => id = FirstRoom(l)
        /\ preferred # {} => \E i \in 1 .. Len(l.rooms) : l.rooms[i].id = id /\ l.rooms[i].name = l.preferredId
    OBVIOUS
  <2>3. FirstRoom(l) = Nobody \/ \E i \in 1 .. Len(l.rooms) : l.rooms[i].id = FirstRoom(l)
    <3>1. CASE l.rooms = <<>>
      BY <3>1 DEF FirstRoom
    <3>2. CASE l.rooms # <<>>
      <4>1. 1 \in 1 .. Len(l.rooms)
        BY <1>1, <1>2, <3>2, EmptySeq, LenProperties
      <4> QED
        BY <3>2, <4>1 DEF FirstRoom
    <3> QED
      BY <3>1, <3>2
  <2>4. id = Nobody \/ \E i \in 1 .. Len(l.rooms) : l.rooms[i].id = id
    BY <2>2, <2>3
  <2>5. id \in Nat
    BY <1>1, <1>2, <2>4, Listing DEF Nobody
  <2>6. ini \in BOOLEAN /\ (ini <=> id # Nobody)
    OBVIOUS
  <2>7. (\E i \in 1 .. Len(l.rooms) : l.rooms[i].name = l.preferredId) => preferred # {}
    OBVIOUS
  <2> HIDE DEF preferred, id, ini
  <2>8. /\ u \in Selection /\ u.rooms = Sorted(t) /\ u.selectedId = id
        /\ u.preferredId = s.preferredId /\ u.initialized = ini
    BY <1>2, <2>1, <2>5, <2>6 DEF Selection
  <2>9. MadeFrom(u, t)
    BY <1>2, <2>4, <2>6, <2>8 DEF MadeFrom, Listed
  <2>10. s.selectedId # Nobody => ~Listed(u, s.selectedId)
    BY <1>2, <1>5, <2>8 DEF NeedsFallback, Listed
  <2> QED
    BY <1>2, <2>2, <2>7, <2>8, <2>9, <2>10 DEF u
<1> QED
  BY <1>4, <1>5

\* RoomSelection::cycle: there is no room, or one of them is chosen.
LEMMA Cycling ==
    ASSUME NEW t \in Topologies, NEW s \in Selection, MadeFrom(s, t)
    PROVE  \/ s.rooms = <<>> /\ cycle(s) = s
           \/ \E i \in 1 .. Len(s.rooms) : cycle(s) = Chosen(s, i)
<1>1. s.rooms \in Seq(Entry) /\ Len(s.rooms) \in Nat
  BY DEF Selection
<1>2. CASE s.rooms = <<>>
  BY <1>2 DEF cycle
<1>3. CASE s.rooms # <<>>
  <2>1. Len(s.rooms) >= 1
    BY <1>1, <1>3, EmptySeq, LenProperties
  <2>2. CASE ~Listed(s, s.selectedId)
    BY <1>1, <1>3, <2>1, <2>2 DEF cycle
  <2>3. CASE Listed(s, s.selectedId)
    <3> DEFINE k == At(s, s.selectedId)
    <3>1. k \in 1 .. Len(s.rooms)
      BY <2>3 DEF At, Listed
    <3> HIDE DEF k
    <3>2. (k % Len(s.rooms)) + 1 \in 1 .. Len(s.rooms)
      <4>1. \A a \in Nat, n \in Nat \ {0} : a % n \in 0 .. n - 1
        OBVIOUS
      <4>2. k \in Nat /\ Len(s.rooms) \in Nat \ {0}
        BY <1>1, <2>1, <3>1
      <4>3. k % Len(s.rooms) \in 0 .. Len(s.rooms) - 1
        BY <4>1, <4>2
      <4> DEFINE m == k % Len(s.rooms)
      <4> HIDE DEF m
      <4>4. m \in 0 .. Len(s.rooms) - 1
        BY <4>3 DEF m
      <4>5. m + 1 \in 1 .. Len(s.rooms)
        BY <4>2, <4>4
      <4> QED
        BY <4>5 DEF m
    <3>3. cycle(s) = Chosen(s, (k % Len(s.rooms)) + 1)
      BY <1>3, <2>3 DEF cycle, k
    <3> QED
      BY <3>2, <3>3
  <2> QED
    BY <2>2, <2>3
<1> QED
  BY <1>2, <1>3

\* What a topology leaves behind, with and without room-next.
LEMMA Discovered ==
    ASSUME RoomsInv, Discover
    PROVE  /\ seen' \in Topologies /\ sel' \in Selection /\ MadeFrom(sel', seen')
           /\ \/ sel' = update(sel, seen')
              \/ \E i \in 1 .. Len(update(sel, seen').rooms) : sel' = Chosen(update(sel, seen'), i)
           /\ ~choosing' => sel' = update(sel, seen')
           /\ sel'.preferredId \in configured \cup {Unnamed} /\ shown' = sel'.selectedId
<1>1. PICK t \in Topologies, next \in BOOLEAN :
         /\ seen' = t
         /\ sel' = IF next THEN cycle(update(sel, t)) ELSE update(sel, t)
         /\ shown' = sel'.selectedId /\ choosing' = next
  BY DEF Discover
<1> DEFINE u == update(sel, t)
<1>2. /\ sel \in Selection /\ (sel.initialized <=> sel.selectedId # Nobody)
      /\ sel.preferredId \in configured \cup {Unnamed}
  BY DEF RoomsInv, Untouched, MadeFrom
<1>3. u \in Selection /\ MadeFrom(u, t) /\ u.preferredId = sel.preferredId
  BY <1>2, Updating
<1> HIDE DEF u
<1>4. sel' = u \/ \E i \in 1 .. Len(u.rooms) : sel' = Chosen(u, i)
  BY <1>1, <1>3, Cycling DEF u
<1>5. CASE sel' = u
  BY <1>1, <1>2, <1>3, <1>5 DEF u
<1>6. CASE \E i \in 1 .. Len(u.rooms) : sel' = Chosen(u, i)
  <2>1. PICK i \in 1 .. Len(u.rooms) : sel' = Chosen(u, i)
    BY <1>6
  <2>2. u.rooms = Sorted(t)
    BY <1>3 DEF MadeFrom
  <2>3. sel' \in Selection /\ MadeFrom(sel', t) /\ sel'.preferredId \in configured
    BY <1>3, <2>1, <2>2, Choosing
  <2> QED
    BY <1>1, <2>1, <2>3 DEF u
<1> QED
  BY <1>4, <1>5, <1>6

\* A list is made from the topology last seen: an empty one has no rooms to choose from.
LEMMA ChosenFromSeen ==
    ASSUME RoomsInv, SelectRoom
    PROVE  /\ seen \in Topologies /\ seen' = seen
           /\ \E i \in 1 .. Len(sel.rooms) : sel' = Chosen(sel, i)
           /\ sel' \in Selection /\ MadeFrom(sel', seen) /\ sel'.preferredId \in configured
           /\ sel'.selectedId \in Selectable(seen)
           /\ sel'.preferredId = seen[sel'.selectedId].name /\ shown' = sel'.selectedId
<1>1. PICK i \in 1 .. Len(sel.rooms) : sel' = Chosen(sel, i)
  BY DEF SelectRoom
<1>2. sel.rooms # <<>>
  BY <1>1
<1>3. seen \in Topologies /\ MadeFrom(sel, seen) /\ sel \in Selection
  BY <1>2 DEF RoomsInv, Untouched
<1>4. sel.rooms = Sorted(seen)
  BY <1>3 DEF MadeFrom
<1> QED
  BY <1>1, <1>3, <1>4, Choosing DEF SelectRoom

LEMMA RoomsBegin == RoomsInit => RoomsInv
<1> SUFFICES ASSUME RoomsInit PROVE RoomsInv
  OBVIOUS
<1>1. /\ sel = [rooms |-> <<>>, selectedId |-> Nobody, preferredId |-> Unnamed, initialized |-> FALSE]
      /\ configured \in Configs /\ flash = Unnamed /\ written = Unnamed /\ shown = Nobody
      /\ seen = <<>>
  BY DEF RoomsInit, Fresh
<1>2. <<>> \in Seq(Entry) /\ Unnamed \in Nat /\ Nobody \in Nat
  BY DEF Unnamed, Nobody
<1>3. sel \in Selection
  BY <1>1, <1>2 DEF Selection
<1>4. Unnamed \notin configured
  BY <1>1, RoomsAssumption
<1>5. Untouched
  BY <1>1, <1>4 DEF Untouched
<1> QED
  BY <1>1, <1>3, <1>5 DEF RoomsInv

\* A restart takes the room in flash for its preference, if it is still configured.
LEMMA RestartStep ==
    ASSUME RoomsInv, Restart
    PROVE  RoomsInv'
<1> DEFINE p == IF flash \in configured' THEN flash ELSE Unnamed
<1>1. /\ configured' \in Configs /\ seen' = <<>> /\ shown' = Nobody
      /\ sel' = [rooms |-> <<>>, selectedId |-> Nobody, preferredId |-> p, initialized |-> FALSE]
      /\ written' = sel'.preferredId
      /\ flash' \in IF sel'.preferredId = flash THEN {flash} ELSE {flash, Unnamed}
  BY DEF Restart, Fresh, restorePreference
<1>2. configured' \subseteq Nat /\ Unnamed \notin configured'
  BY <1>1, RoomsAssumption
<1>3. <<>> \in Seq(Entry) /\ Unnamed \in Nat /\ Nobody \in Nat
  BY DEF Unnamed, Nobody
<1>4. p \in Nat /\ p \in configured' \cup {Unnamed}
  BY <1>2, <1>3
<1>5. flash \in configured' => p = flash
  OBVIOUS
<1> HIDE DEF p
<1>6. sel' \in Selection /\ sel'.preferredId = p
  BY <1>1, <1>3, <1>4 DEF Selection
<1>7. flash' \in configured' => flash' = p
  BY <1>1, <1>2, <1>5, <1>6
<1>8. Untouched'
  BY <1>1, <1>6, <1>7 DEF Untouched
<1> QED
  BY <1>1, <1>4, <1>6, <1>8 DEF RoomsInv

LEMMA RoomsKept ==
    ASSUME RoomsInv, [RoomsNext]_roomsVars
    PROVE  RoomsInv'
<1>1. CASE Discover
  <2>1. configured' = configured
    BY <1>1 DEF Discover
  <2>2. MadeFrom(sel, seen)'
    BY <1>1, <2>1, Discovered
    DEF MadeFrom, Sorted, Selectable
  <2> QED
    BY <1>1, <2>1, <2>2, Discovered DEF RoomsInv
<1>2. CASE SelectRoom
  <2>1. configured' = configured
    BY <1>2 DEF SelectRoom
  <2>2. MadeFrom(sel, seen)'
    BY <1>2, <2>1, ChosenFromSeen DEF MadeFrom, Sorted, Selectable
  <2> QED
    BY <1>2, <2>1, <2>2, ChosenFromSeen DEF RoomsInv
<1>3. CASE Publish
  <2>1. UNCHANGED <<sel, configured, seen, flash, written>> /\ shown' = sel.selectedId
    BY <1>3 DEF Publish, Speaks, RoomsInv
  <2>2. MadeFrom(sel, seen) => MadeFrom(sel, seen)'
    BY <2>1 DEF MadeFrom, Sorted, Selectable, Listed
  <2> QED
    BY <2>1, <2>2 DEF RoomsInv, Untouched
<1>4. CASE Save
  <2>1. UNCHANGED <<sel, configured, seen, shown>> /\ sel.preferredId # written
    BY <1>4 DEF Save, Unsaved
  <2>2. MadeFrom(sel, seen) => MadeFrom(sel, seen)'
    BY <2>1 DEF MadeFrom, Sorted, Selectable, Listed
  <2> QED
    BY <2>1, <2>2 DEF RoomsInv, Untouched
<1>5. CASE Restart
  BY <1>5, RestartStep
<1>6. CASE UNCHANGED roomsVars
  <2>1. UNCHANGED <<sel, configured, seen, shown, flash, written>>
    BY <1>6 DEF roomsVars
  <2>2. MadeFrom(sel, seen) => MadeFrom(sel, seen)'
    BY <2>1 DEF MadeFrom, Sorted, Selectable, Listed
  <2> QED
    BY <2>1, <2>2 DEF RoomsInv, Untouched
<1> QED
  BY <1>1, <1>2, <1>3, <1>4, <1>5, <1>6 DEF RoomsNext

\* The room that is selected, displayed and played is one that may be played, alone under its
\* configured name, and the preference kept for the next start is a configured one, through any
\* discoveries, choices, failed writes and restarts (RoomSelection.cpp).
THEOREM SelectionsAreSound == RoomsSpec => []SelectionIsSound
<1>1. RoomsInv => SelectionIsSound
  <2> SUFFICES ASSUME RoomsInv PROVE SelectionIsSound
    OBVIOUS
  <2>1. SelectedIsEligible
    <3> SUFFICES ASSUME sel.selectedId # Nobody
                 PROVE  /\ sel.selectedId \in DOMAIN seen /\ eligible(seen, sel.selectedId)
                        /\ seen[sel.selectedId].name \in configured
                        /\ \A p \in DOMAIN seen \ {sel.selectedId} :
                              seen[p].name # seen[sel.selectedId].name
      BY DEF SelectedIsEligible
    <3>1. seen \in Topologies /\ MadeFrom(sel, seen)
      BY DEF RoomsInv, Untouched
    <3>2. sel.selectedId \in Selectable(seen)
      BY <3>1, SelectedIsSelectable
    <3> QED
      BY <3>1, <3>2, Selecting DEF Alone
  <2> QED
    BY <2>1 DEF SelectionIsSound, PreferenceIsConfigured, ShowsTheSelected, RoomsInv
<1> QED
  BY <1>1, RoomsBegin, RoomsKept, PTL DEF RoomsSpec

\* Nothing but a choice moves the selection off a room that is listed.
LEMMA NothingStealsIt ==
    ASSUME RoomsInv, [RoomsNext]_roomsVars,
           sel.selectedId # Nobody, Listed(sel', sel.selectedId), ~choosing'
    PROVE  sel'.selectedId = sel.selectedId
<1>1. CASE Discover
  <2>1. sel \in Selection /\ (sel.initialized <=> sel.selectedId # Nobody)
    BY DEF RoomsInv, Untouched, MadeFrom
  <2>2. seen' \in Topologies /\ sel' = update(sel, seen')
    BY <1>1, Discovered
  <2> DEFINE u == update(sel, seen')
  <2>3. Listed(u, sel.selectedId) => u.selectedId = sel.selectedId
    BY <2>1, <2>2, Updating
  <2> QED
    BY <2>2, <2>3
<1>2. CASE SelectRoom
  BY <1>2 DEF SelectRoom
<1>3. CASE Restart
  <2>1. sel'.rooms = <<>>
    BY <1>3 DEF Restart, Fresh
  <2> QED
    BY <2>1 DEF Listed
<1>4. CASE Publish \/ Save \/ UNCHANGED roomsVars
  BY <1>4 DEF Publish, Save, roomsVars
<1> QED
  BY <1>1, <1>2, <1>3, <1>4 DEF RoomsNext

\* The first topology after a restart selects the room in flash if it can be selected.
LEMMA BootSelectsIt ==
    ASSUME RoomsInv, [RoomsNext]_roomsVars,
           seen = <<>>, seen' # <<>>, sel'.preferredId = sel.preferredId,
           flash \in configured, Resolved(seen', flash) # {}
    PROVE  sel'.selectedId \in Resolved(seen', flash)
<1>1. Discover
  BY DEF RoomsNext, SelectRoom, Publish, Save, Restart, roomsVars
<1>2. /\ sel \in Selection /\ ~sel.initialized /\ sel.selectedId = Nobody
      /\ sel.preferredId = flash
  BY ATopologyIsSomething DEF RoomsInv, Untouched
<1>3. seen' \in Topologies
  BY <1>1, Discovered
<1> DEFINE t == seen'
           u == update(sel, t)
<1> HIDE DEF t
<1>4. t \in Topologies
  BY <1>3 DEF t
<1>5. /\ u \in Selection /\ MadeFrom(u, t)
      /\ (\E i \in 1 .. Len(u.rooms) : u.rooms[i].name = flash)
            => \E i \in 1 .. Len(u.rooms) : u.rooms[i].id = u.selectedId /\ u.rooms[i].name = flash
  BY <1>2, <1>4, Updating
<1> HIDE DEF u
<1>6. u.rooms = Sorted(t)
  BY <1>5 DEF MadeFrom
<1>7. PICK p : p \in Resolved(t, flash)
  BY DEF t
<1>8. p \in Selectable(t) /\ t[p].name = flash
  BY <1>4, <1>7, Resolving, Selecting
<1>9. \E i \in 1 .. Len(u.rooms) : u.rooms[i].name = flash
  BY <1>4, <1>6, <1>8, Listing
<1>10. \A q \in Selectable(t) : t[q].name = flash => q \in Resolved(t, flash)
  BY <1>4, Resolving, Selecting
<1>11. CASE sel' = u
  <2>1. PICK i \in 1 .. Len(u.rooms) : u.rooms[i].id = u.selectedId /\ u.rooms[i].name = flash
    BY <1>5, <1>9
  <2>2. u.selectedId \in Selectable(t) /\ t[u.selectedId].name = flash
    BY <1>4, <1>6, <2>1, Listing
  <2> QED
    BY <1>10, <1>11, <2>2 DEF t
<1>12. CASE \E i \in 1 .. Len(u.rooms) : sel' = Chosen(u, i)
  <2>1. sel'.selectedId \in Selectable(t) /\ sel'.preferredId = t[sel'.selectedId].name
    BY <1>4, <1>5, <1>6, <1>12, Choosing
  <2> QED
    BY <1>2, <1>10, <2>1 DEF t
<1> QED
  BY <1>1, <1>11, <1>12, Discovered DEF t, u

\* "A recovered room rejoins without stealing selection": no topology moves the selection away
\* from a room that is still listed, not even to the preferred one; and "boot selects it if
\* eligible".  For every order of discoveries, choices, writes and restarts.
THEOREM SelectionsAreTheUsers == RoomsSpec => SelectionIsTheUsers
<1>1. ASSUME RoomsInv, [RoomsNext]_roomsVars
      PROVE  [ sel.selectedId # Nobody /\ Listed(sel', sel.selectedId) /\ ~choosing'
               => sel'.selectedId = sel.selectedId ]_roomsVars
  BY <1>1, NothingStealsIt
<1>2. ASSUME RoomsInv, [RoomsNext]_roomsVars
      PROVE  [ seen = <<>> /\ seen' # <<>> /\ sel'.preferredId = sel.preferredId
                  /\ flash \in configured /\ Resolved(seen', flash) # {}
               => sel'.selectedId \in Resolved(seen', flash) ]_roomsVars
  BY <1>2, BootSelectsIt
<1> QED
  BY <1>1, <1>2, RoomsBegin, RoomsKept, PTL
  DEF RoomsSpec, SelectionIsTheUsers, NothingSteals, BootSelectsSaved
===============================================================================

--------------------------- MODULE CommandProofs ----------------------------
(***************************************************************************)
(* Theorems about a command, from the request to its outcome.              *)
(*                                                                         *)
(* The first part has lemmas about plans, modes and volumes (Intent) and   *)
(* about what the operations of a plan do to a speaker (Speaker).          *)
(*                                                                         *)
(* The second is about planning.  A request is admitted and resolved       *)
(* against the configuration of that moment; what is left of its plan,     *)
(* with what the speaker has become, always leads to what was asked, and   *)
(* to the modes that were configured.                                      *)
(*                                                                         *)
(* The third is about one room's session (Executor): it implements         *)
(* CommandOutcome, a success is true of the speaker, a position is reached *)
(* where it was chosen, and no mutation reaches another player but the one *)
(* that was on its way when the address passed on.  It rests on one        *)
(* inductive invariant, EInv, in five parts: the types; what is left of    *)
(* the plan; what the device may say of its effects; where the speaker's   *)
(* last move was made; and, for as long as nobody else acts, how far the   *)
(* speaker is from what was asked; and, on top of it, on StrayOK: where    *)
(* mutations arrive.                                                       *)
(***************************************************************************)
EXTENDS Executor, Planning, SequenceTheorems, FiniteSetTheorems, TLAPS

Ops(q) == {q[n] : n \in DOMAIN q}

\* The operations a request can be made of, each with what it needs of it.
OperationsOf(i) ==
    {op \in Operations :
        /\ op \in {"ClearQueue", "AddSource", "SelectQueue"} => OfQueue(i)
        /\ op = "Stop" => i.source # {}
        /\ op = "SelectStation" => i.source = {"station"}
        /\ op = "ApplyMode" => OfQueue(i) \/ (i.source = {} /\ i.shuffle \cup i.repeat # {})
        /\ op = "RestoreTransport" => i.source # {} /\ i.transport = {}
        /\ op = "SetVolume" => i.volume # {}
        /\ op = "Play" => i.transport = {"play"}
        /\ op = "Pause" => i.transport = {"pause"}
        /\ op = "Next" => i.transport = {"next"}
        /\ op = "Previous" => i.transport = {"previous"}
        /\ op = "Seek" => i.seek # {}
        /\ op = "SelectQueueItem" => i.queueIndex # {}}

\* Nothing is cleared once the new source is in the queue.
Ordered(q) ==
    \A n, m \in DOMAIN q : q[n] = "AddSource" /\ q[m] = "ClearQueue" => m < n

Advancing(i) == i.transport \cap Advances # {}

----------------------------------------------------------------------------
(* Plans.                                                                  *)

\* What a plan put together of two has of each.
LEMMA Joined ==
    ASSUME NEW S, NEW q \in Seq(S), NEW r \in Seq(S)
    PROVE  /\ q \o r \in Seq(S) /\ Ops(q \o r) = Ops(q) \cup Ops(r)
           /\ q # <<>> => q \o r # <<>> /\ Head(q \o r) = Head(q)
           /\ q = <<>> => q \o r = r
           /\ Ordered(q) /\ Ordered(r) /\ ~("AddSource" \in Ops(q) /\ "ClearQueue" \in Ops(r))
                => Ordered(q \o r)
<1>1. q \o r \in Seq(S) /\ Len(q \o r) = Len(q) + Len(r) /\ Len(q) \in Nat /\ Len(r) \in Nat
  OBVIOUS
<1>2. \A n \in 1 .. Len(q) : n \in DOMAIN (q \o r) /\ (q \o r)[n] = q[n]
  OBVIOUS
<1>3. \A n \in 1 .. Len(r) : n + Len(q) \in DOMAIN (q \o r) /\ (q \o r)[n + Len(q)] = r[n]
  OBVIOUS
<1>4. \A n \in DOMAIN (q \o r) :
          \/ n \in 1 .. Len(q) /\ (q \o r)[n] = q[n]
          \/ n - Len(q) \in 1 .. Len(r) /\ (q \o r)[n] = r[n - Len(q)]
  BY <1>1
<1>5. DOMAIN q = 1 .. Len(q) /\ DOMAIN r = 1 .. Len(r) /\ DOMAIN (q \o r) = 1 .. Len(q \o r)
  BY <1>1
<1> DEFINE j == q \o r
<1>6. Ops(j) = Ops(q) \cup Ops(r)
  <2>1. Ops(j) \subseteq Ops(q) \cup Ops(r)
    BY <1>4, <1>5 DEF Ops
  <2>2. Ops(q) \subseteq Ops(j)
    BY <1>2, <1>5 DEF Ops
  <2>3. Ops(r) \subseteq Ops(j)
    BY <1>3, <1>5 DEF Ops
  <2> QED
    BY <2>1, <2>2, <2>3
<1>7. q # <<>> => j # <<>> /\ Head(j) = Head(q)
  OBVIOUS
<1>8. q = <<>> => j = r
  OBVIOUS
<1>9. ASSUME Ordered(q), Ordered(r), ~("AddSource" \in Ops(q) /\ "ClearQueue" \in Ops(r))
      PROVE  Ordered(j)
  <2> SUFFICES ASSUME NEW n \in DOMAIN j, NEW m \in DOMAIN j,
                      j[n] = "AddSource", j[m] = "ClearQueue"
               PROVE  m < n
    BY DEF Ordered
  <2>1. n \in Nat /\ m \in Nat
    BY <1>1, <1>5
  <2>2. CASE n \in 1 .. Len(q) /\ j[n] = q[n] /\ m \in 1 .. Len(q) /\ j[m] = q[m]
    BY <1>5, <1>9, <2>2 DEF Ordered
  <2>3. CASE n \in 1 .. Len(q) /\ j[n] = q[n] /\ m - Len(q) \in 1 .. Len(r) /\ j[m] = r[m - Len(q)]
    BY <1>5, <1>9, <2>3 DEF Ops
  <2>4. CASE n - Len(q) \in 1 .. Len(r) /\ m \in 1 .. Len(q)
    BY <1>1, <2>1, <2>4
  <2>5. CASE /\ n - Len(q) \in 1 .. Len(r) /\ j[n] = r[n - Len(q)]
             /\ m - Len(q) \in 1 .. Len(r) /\ j[m] = r[m - Len(q)]
    <3>1. m - Len(q) < n - Len(q)
      BY <1>5, <1>9, <2>5 DEF Ordered
    <3> QED
      BY <1>1, <2>1, <3>1
  <2> HIDE DEF j
  <2> QED
    BY <1>4, <2>2, <2>3, <2>4, <2>5 DEF j
<1> QED
  BY <1>1, <1>6, <1>7, <1>8, <1>9

\* What is left of a plan when its first operation is done.
LEMMA Advanced ==
    ASSUME NEW S, NEW q \in Seq(S), q # <<>>, Ordered(q)
    PROVE  /\ Tail(q) \in Seq(S) /\ Head(q) \in S /\ Head(q) \in Ops(q)
           /\ Len(q) = 1 <=> Tail(q) = <<>>
           /\ Ops(q) = Ops(Tail(q)) \cup {Head(q)}
           /\ Ordered(Tail(q))
           /\ Head(q) = "AddSource" => "ClearQueue" \notin Ops(Tail(q))
<1>1. /\ Tail(q) \in Seq(S) /\ Head(q) = q[1] /\ 1 \in DOMAIN q /\ Len(q) \in Nat \ {0}
      /\ DOMAIN q = 1 .. Len(q) /\ DOMAIN Tail(q) = 1 .. Len(q) - 1
      /\ \A n \in 1 .. Len(q) - 1 : Tail(q)[n] = q[n + 1]
  OBVIOUS
<1>2. Len(q) = 1 <=> Tail(q) = <<>>
  <2>1. Len(Tail(q)) = Len(q) - 1 /\ Len(q) \in Nat
    BY <1>1
  <2>2. Tail(q) # <<>> => Len(Tail(q)) \in Nat \ {0}
    BY <1>1, EmptySeq
  <2>3. Tail(q) = <<>> => Len(Tail(q)) = 0
    BY EmptySeq, Zenon
  <2> QED
    BY <2>1, <2>2, <2>3
<1> DEFINE t == Tail(q)
<1> HIDE DEF t
<1>3. Ops(q) = Ops(t) \cup {Head(q)}
  <2>1. Ops(t) \subseteq Ops(q)
    BY <1>1 DEF Ops, t
  <2>2. \A n \in DOMAIN q : n = 1 \/ (n - 1 \in DOMAIN t /\ t[n - 1] = q[n])
    BY <1>1 DEF t
  <2>3. Ops(q) \subseteq Ops(t) \cup {Head(q)}
    BY <1>1, <2>2 DEF Ops
  <2>4. Head(q) \in Ops(q)
    BY <1>1 DEF Ops
  <2> QED
    BY <2>1, <2>3, <2>4
<1>4. Ordered(t)
  <2> SUFFICES ASSUME NEW n \in DOMAIN t, NEW m \in DOMAIN t,
                      t[n] = "AddSource", t[m] = "ClearQueue"
               PROVE  m < n
    BY DEF Ordered
  <2>1. n \in Nat /\ m \in Nat /\ n + 1 \in DOMAIN q /\ m + 1 \in DOMAIN q
        /\ q[n + 1] = t[n] /\ q[m + 1] = t[m]
    BY <1>1 DEF t
  <2>2. m + 1 < n + 1
    BY <2>1 DEF Ordered
  <2> QED
    BY <2>1, <2>2
<1>5. Head(q) = "AddSource" => "ClearQueue" \notin Ops(t)
  <2> SUFFICES ASSUME q[1] = "AddSource", NEW m \in DOMAIN t, t[m] = "ClearQueue" PROVE FALSE
    BY <1>1 DEF Ops
  <2>1. m \in Nat \ {0} /\ m + 1 \in DOMAIN q /\ q[m + 1] = "ClearQueue"
    BY <1>1 DEF t
  <2>2. m + 1 < 1
    BY <1>1, <2>1 DEF Ordered
  <2> QED
    BY <2>1, <2>2
<1>6. Head(q) \in S /\ Head(q) \in Ops(q)
  BY <1>1 DEF Ops
<1> QED
  BY <1>1, <1>2, <1>3, <1>4, <1>5, <1>6 DEF t

\* A plan of at most one operation.
LEMMA Single ==
    ASSUME NEW condition \in BOOLEAN, NEW op \in Operations
    PROVE  /\ If(condition, <<op>>) \in Seq(Operations) /\ Ordered(If(condition, <<op>>))
           /\ If(condition, <<op>>) # <<>> <=> condition
           /\ condition => Head(If(condition, <<op>>)) = op
           /\ Ops(If(condition, <<op>>)) = IF condition THEN {op} ELSE {}
<1>1. CASE condition
  <2>1. If(condition, <<op>>) = <<op>>
    BY <1>1 DEF If
  <2>2. Ops(<<op>>) = {op} /\ <<op>> \in Seq(Operations) /\ <<op>> # <<>> /\ Head(<<op>>) = op
    BY DEF Ops
  <2>3. Ordered(<<op>>)
    BY DEF Ordered
  <2> QED
    BY <1>1, <2>1, <2>2, <2>3
<1>2. CASE ~condition
  <2>1. If(condition, <<op>>) = <<>>
    BY <1>2 DEF If
  <2>2. Ops(<<>>) = {} /\ <<>> \in Seq(Operations) /\ Ordered(<<>>)
    BY DEF Ops, Ordered
  <2> QED
    BY <1>2, <2>1, <2>2
<1> QED
  BY <1>1, <1>2

\* Operations that fit a request, in an order that fits.
Fits(q, i) == q \in Seq(Operations) /\ Ordered(q) /\ Ops(q) \subseteq OperationsOf(i)

LEMMA FitsJoined ==
    ASSUME NEW i, NEW q, NEW r, Fits(q, i), Fits(r, i),
           "AddSource" \notin Ops(q) \/ "ClearQueue" \notin Ops(r)
    PROVE  /\ Fits(q \o r, i) /\ Ops(q \o r) = Ops(q) \cup Ops(r)
           /\ q # <<>> => q \o r # <<>> /\ Head(q \o r) = Head(q)
           /\ q = <<>> => q \o r = r
<1>1. q \in Seq(Operations) /\ r \in Seq(Operations) /\ Ordered(q) /\ Ordered(r)
      /\ Ops(q) \subseteq OperationsOf(i) /\ Ops(r) \subseteq OperationsOf(i)
  BY DEF Fits
<1>2. /\ q \o r \in Seq(Operations) /\ Ops(q \o r) = Ops(q) \cup Ops(r)
      /\ q # <<>> => q \o r # <<>> /\ Head(q \o r) = Head(q)
      /\ q = <<>> => q \o r = r
      /\ Ordered(q \o r)
  BY <1>1, Joined
<1> QED
  BY <1>1, <1>2 DEF Fits

LEMMA FitsSingle ==
    ASSUME NEW i, NEW condition \in BOOLEAN, NEW op \in Operations,
           condition => op \in OperationsOf(i)
    PROVE  /\ Fits(If(condition, <<op>>), i)
           /\ If(condition, <<op>>) # <<>> <=> condition
           /\ condition => Head(If(condition, <<op>>)) = op
           /\ Ops(If(condition, <<op>>)) = IF condition THEN {op} ELSE {}
<1>1. If(condition, <<op>>) \in Seq(Operations) /\ Ordered(If(condition, <<op>>))
  BY Single
<1>2. Ops(If(condition, <<op>>)) = IF condition THEN {op} ELSE {}
  BY Single
<1>3. Ops(If(condition, <<op>>)) \subseteq OperationsOf(i)
  BY <1>2
<1> QED
  BY <1>1, <1>2, <1>3, Single DEF Fits

LEMMA Optionals ==
    ASSUME NEW S, NEW o \in Optional(S), o # {}
    PROVE  The(o) \in S /\ o = {The(o)}
<1>1. PICK x \in S : o = {x}
  BY DEF Optional
<1> QED
  BY <1>1 DEF The

\* What starts or stops the playback a request ends with comes last.
Settling == {"Play", "Pause", "RestoreTransport"}
Settles(q) == \A n \in DOMAIN q : q[n] \in Settling => n = Len(q)

LEMMA SettlesJoined ==
    ASSUME NEW S, NEW q \in Seq(S), NEW r \in Seq(S), Ops(q) \cap Settling = {}, Len(r) <= 1
    PROVE  Settles(q \o r)
<1>1. /\ Len(q \o r) = Len(q) + Len(r) /\ Len(q) \in Nat /\ Len(r) \in Nat
      /\ DOMAIN (q \o r) = 1 .. Len(q \o r) /\ DOMAIN q = 1 .. Len(q)
  OBVIOUS
<1> SUFFICES ASSUME NEW n \in DOMAIN (q \o r), (q \o r)[n] \in Settling PROVE n = Len(q) + Len(r)
  BY <1>1 DEF Settles
<1>2. n \in 1 .. Len(q) => (q \o r)[n] = q[n]
  BY <1>1
<1>3. n \notin 1 .. Len(q)
  BY <1>1, <1>2 DEF Ops
<1> QED
  BY <1>1, <1>3

LEMMA SettlesOn ==
    ASSUME NEW S, NEW q \in Seq(S), q # <<>>, Settles(q)
    PROVE  Settles(Tail(q)) /\ (Head(q) \in Settling => Tail(q) = <<>>)
<1> DEFINE t == Tail(q)
<1>1. /\ t \in Seq(S) /\ Len(t) = Len(q) - 1 /\ Len(q) \in Nat \ {0}
      /\ DOMAIN q = 1 .. Len(q) /\ DOMAIN t = 1 .. Len(q) - 1
      /\ \A n \in 1 .. Len(q) - 1 : t[n] = q[n + 1]
      /\ Head(q) = q[1]
  OBVIOUS
<1> HIDE DEF t
<1>2. Settles(t)
  <2> SUFFICES ASSUME NEW n \in DOMAIN t, t[n] \in Settling PROVE n = Len(t)
    BY DEF Settles
  <2>1. n \in Nat /\ n + 1 \in DOMAIN q /\ q[n + 1] = t[n]
    BY <1>1
  <2>2. n + 1 = Len(q)
    BY <2>1 DEF Settles
  <2> QED
    BY <1>1, <2>1, <2>2
<1>3. ASSUME Head(q) \in Settling PROVE t = <<>>
  <2>1. 1 = Len(q)
    BY <1>1, <1>3 DEF Settles
  <2>2. Len(t) = 0
    BY <1>1, <2>1
  <2> QED
    BY <1>1, <2>2, EmptySeq
<1> QED
  BY <1>2, <1>3 DEF t

LEMMA TransportParts ==
    ASSUME NEW i \in Intents, validateIntent(i)
    PROVE  /\ Fits(TransportPlan(i), i) /\ Len(TransportPlan(i)) <= 1
           /\ Ops(TransportPlan(i)) \cap {"ClearQueue", "AddSource", "ApplyMode"} = {}
           /\ i.transport # {} \/ i.source # {} => TransportPlan(i) # <<>>
           /\ OperationsOf(i) \cap (Settling \cup {"Next", "Previous"}) \subseteq Ops(TransportPlan(i))
           /\ Advancing(i) => {"Next", "Previous"} \cap Ops(TransportPlan(i)) # {}
<1> DEFINE tail == Settling \cup {"Next", "Previous"}
<1>3. \A c \in BOOLEAN, op \in Operations : Len(If(c, <<op>>)) <= 1
  BY DEF If
<1>1. CASE i.transport = {}
  <2>1. TransportPlan(i) = If(i.source # {}, <<"RestoreTransport">>)
    BY <1>1 DEF TransportPlan
  <2>2. "RestoreTransport" \in Operations
    BY DEF Operations
  <2>3. i.source # {} => "RestoreTransport" \in OperationsOf(i)
    BY <1>1, <2>2 DEF OperationsOf
  <2>4. OperationsOf(i) \cap tail \subseteq IF i.source # {} THEN {"RestoreTransport"} ELSE {}
    BY <1>1 DEF OperationsOf, Settling
  <2>5. ~Advancing(i)
    BY <1>1 DEF Advancing
  <2> DEFINE c == i.source # {}
             q == If(c, <<"RestoreTransport">>)
  <2>6. /\ Fits(q, i) /\ (q # <<>> <=> c) /\ Len(q) <= 1
        /\ Ops(q) = IF c THEN {"RestoreTransport"} ELSE {}
    <3> HIDE DEF c
    <3> QED
      BY <1>3, <2>2, <2>3, FitsSingle DEF c
  <2>7. Ops(q) \cap {"ClearQueue", "AddSource", "ApplyMode"} = {}
    BY <2>6
  <2> HIDE DEF q
  <2> QED
    BY <1>1, <2>1, <2>4, <2>5, <2>6, <2>7 DEF q
<1>2. CASE i.transport # {}
  <2> DEFINE how == The(i.transport)
             op == TransportOperation[how]
  <2>1. how \in Transports /\ i.transport = {how}
    BY <1>2, Optionals DEF Intents
  <2>2. /\ op \in Operations /\ op \in OperationsOf(i)
        /\ op \notin {"ClearQueue", "AddSource", "ApplyMode"}
        /\ how \in Advances => op \in {"Next", "Previous"}
    <3> HIDE DEF how
    <3> QED
      BY <2>1 DEF Transports, Operations, OperationsOf, TransportOperation, Advances
  <2>3. OperationsOf(i) \cap tail \subseteq {op}
    <3> HIDE DEF how
    <3> QED
      BY <1>2, <2>1 DEF Transports, OperationsOf, TransportOperation, Settling
  <2>4. TransportPlan(i) = If(TRUE, <<op>>)
    BY <1>2 DEF TransportPlan, If
  <2>5. Advancing(i) => how \in Advances
    BY <2>1 DEF Advancing
  <2> HIDE DEF how, op
  <2>6. Fits(If(TRUE, <<op>>), i) /\ Ops(If(TRUE, <<op>>)) = {op} /\ If(TRUE, <<op>>) # <<>>
    BY <2>2, FitsSingle
  <2> QED
    BY <1>3, <2>2, <2>3, <2>4, <2>5, <2>6
<1> QED
  BY <1>1, <1>2

\* What a source and its modes are set up with.
Setting == {"ClearQueue", "AddSource", "SelectQueue", "SelectStation", "ApplyMode"}

LEMMA SourceParts ==
    ASSUME NEW i \in Intents, validateIntent(i)
    PROVE  /\ Fits(SourcePlan(i), i)
           /\ i.source # {} => SourcePlan(i) # <<>> /\ Head(SourcePlan(i)) # "ApplyMode"
           /\ OfQueue(i) => Head(SourcePlan(i)) = "Stop"
           /\ i.shuffle # {} \/ i.repeat # {} => SourcePlan(i) # <<>>
           /\ OperationsOf(i) \cap Setting \subseteq Ops(SourcePlan(i))
           /\ Ops(SourcePlan(i)) \subseteq Setting \cup {"Stop"}
<1>1. CASE i.source = {}
  <2> DEFINE c == i.shuffle # {} \/ i.repeat # {}
  <2>1. SourcePlan(i) = If(c, <<"ApplyMode">>)
    BY <1>1 DEF SourcePlan
  <2>2. "ApplyMode" \in Operations /\ (c => "ApplyMode" \in OperationsOf(i)) /\ c \in BOOLEAN
    BY <1>1 DEF Operations, OperationsOf
  <2>3. OperationsOf(i) \cap Setting \subseteq IF c THEN {"ApplyMode"} ELSE {}
    BY <1>1 DEF OperationsOf, OfQueue, Setting
  <2>4. ~OfQueue(i)
    BY <1>1 DEF OfQueue
  <2> HIDE DEF c
  <2>5. /\ Fits(If(c, <<"ApplyMode">>), i)
        /\ If(c, <<"ApplyMode">>) # <<>> <=> c
        /\ Ops(If(c, <<"ApplyMode">>)) = IF c THEN {"ApplyMode"} ELSE {}
    BY <2>2, FitsSingle
  <2>6. Ops(If(c, <<"ApplyMode">>)) \subseteq Setting
    BY <2>5 DEF Setting
  <2> QED
    BY <1>1, <2>1, <2>3, <2>4, <2>5, <2>6 DEF c
<1>2. CASE i.source = {"station"}
  <2> DEFINE stop == If(i.transport # {"play"}, <<"Stop">>)
             select == If(TRUE, <<"SelectStation">>)
  <2>1. SourcePlan(i) = stop \o select
    BY <1>2 DEF SourcePlan, StationPlan, If
  <2>2. /\ "Stop" \in Operations /\ "SelectStation" \in Operations
        /\ "Stop" \in OperationsOf(i) /\ "SelectStation" \in OperationsOf(i)
    BY <1>2 DEF Operations, OperationsOf
  <2>3. Fits(stop, i) /\ Ops(stop) \subseteq {"Stop"} /\ (stop # <<>> => Head(stop) = "Stop")
    BY <2>2, FitsSingle
  <2>5. /\ Fits(select, i) /\ Ops(select) = {"SelectStation"}
        /\ select # <<>> /\ Head(select) = "SelectStation"
    BY <2>2, FitsSingle
  <2>6. OperationsOf(i) \cap Setting \subseteq {"SelectStation"}
    BY <1>2 DEF OperationsOf, Setting, OfQueue
  <2> HIDE DEF stop, select
  <2> DEFINE q == stop \o select
  <2>7. "AddSource" \notin Ops(stop)
    BY <2>3
  <2>8. Fits(q, i) /\ Ops(q) = Ops(stop) \cup Ops(select)
    BY <2>3, <2>5, <2>7, FitsJoined
  <2>9. q # <<>> /\ Head(q) # "ApplyMode"
    <3>1. stop # <<>> => q # <<>> /\ Head(q) = Head(stop)
      BY <2>3, <2>5, <2>7, FitsJoined
    <3>2. stop = <<>> => q = select
      BY <2>3, <2>5, <2>7, FitsJoined
    <3> QED
      BY <2>3, <2>5, <3>1, <3>2
  <2>10. ~OfQueue(i) /\ "SelectStation" \in Setting
    BY <1>2 DEF OfQueue, Setting
  <2>11. /\ OperationsOf(i) \cap Setting \subseteq Ops(q)
         /\ Ops(q) \subseteq Setting \cup {"Stop"}
    BY <2>3, <2>5, <2>6, <2>8, <2>10
  <2> HIDE DEF q
  <2> QED
    BY <2>1, <2>8, <2>9, <2>10, <2>11 DEF q
<1>3. CASE OfQueue(i)
  <2>1. SourcePlan(i) = QueuePlan
    BY <1>3 DEF SourcePlan, OfQueue
  <2>2. Ops(QueuePlan) = {"Stop", "ClearQueue", "AddSource", "SelectQueue", "ApplyMode"}
    BY DEF QueuePlan, Ops
  <2>3. QueuePlan \in Seq(Operations) /\ QueuePlan # <<>> /\ Head(QueuePlan) = "Stop"
    BY DEF QueuePlan, Operations
  <2>4. Ordered(QueuePlan)
    BY DEF QueuePlan, Ordered
  <2>5. Ops(QueuePlan) \subseteq OperationsOf(i)
    BY <1>3, <2>2 DEF OperationsOf, Operations, OfQueue
  <2>6. /\ OperationsOf(i) \cap Setting \subseteq Ops(QueuePlan)
        /\ Ops(QueuePlan) \subseteq Setting \cup {"Stop"}
    BY <1>3, <2>2 DEF OperationsOf, OfQueue, Setting
  <2> QED
    BY <1>3, <2>1, <2>2, <2>3, <2>4, <2>5, <2>6 DEF Fits
<1> QED
  BY <1>1, <1>2, <1>3 DEF OfQueue

\* The plan of a valid request: what it needs, in an order that fits.
LEMMA Plans ==
    ASSUME NEW i \in Intents, validateIntent(i)
    PROVE  /\ makePlan(i) # <<>> /\ Fits(makePlan(i), i) /\ Settles(makePlan(i))
           /\ i.source # {} => Head(makePlan(i)) # "ApplyMode"
           /\ OfQueue(i) => Head(makePlan(i)) = "Stop"
           /\ OperationsOf(i) \ {"Stop"} \subseteq Ops(makePlan(i))
           /\ OfQueue(i) => "AddSource" \in Ops(makePlan(i))
           /\ Advancing(i) => {"Next", "Previous"} \cap Ops(makePlan(i)) # {}
<1> DEFINE seek   == If(i.seek # {}, <<"Seek">>)
           item   == If(i.queueIndex # {}, <<"SelectQueueItem">>)
           source == SourcePlan(i)
           volume == If(i.volume # {}, <<"SetVolume">>)
           last   == TransportPlan(i)
           places == seek \o item
           begun  == places \o source
           set    == begun \o volume
<1>1. makePlan(i) = set \o last
  BY DEF makePlan
<1>2. /\ Fits(seek, i) /\ Fits(item, i) /\ Fits(volume, i)
      /\ Ops(seek) \subseteq {"Seek"} /\ Ops(item) \subseteq {"SelectQueueItem"}
      /\ Ops(volume) \subseteq {"SetVolume"}
      /\ seek # <<>> <=> i.seek # {}
      /\ item # <<>> <=> i.queueIndex # {}
      /\ volume # <<>> <=> i.volume # {}
      /\ i.seek # {} => "Seek" \in Ops(seek)
      /\ i.queueIndex # {} => "SelectQueueItem" \in Ops(item)
      /\ i.volume # {} => "SetVolume" \in Ops(volume)
  <2>1. {"Seek", "SelectQueueItem", "SetVolume"} \subseteq Operations
    BY DEF Operations
  <2>2. /\ i.seek # {} => "Seek" \in OperationsOf(i)
        /\ i.queueIndex # {} => "SelectQueueItem" \in OperationsOf(i)
        /\ i.volume # {} => "SetVolume" \in OperationsOf(i)
    BY <2>1 DEF OperationsOf
  <2>3. /\ Fits(seek, i) /\ Ops(seek) \subseteq {"Seek"}
        /\ seek # <<>> <=> i.seek # {}
        /\ i.seek # {} => "Seek" \in Ops(seek)
    BY <2>1, <2>2, FitsSingle
  <2>4. /\ Fits(item, i) /\ Ops(item) \subseteq {"SelectQueueItem"}
        /\ item # <<>> <=> i.queueIndex # {}
        /\ i.queueIndex # {} => "SelectQueueItem" \in Ops(item)
    BY <2>1, <2>2, FitsSingle
  <2>5. /\ Fits(volume, i) /\ Ops(volume) \subseteq {"SetVolume"}
        /\ volume # <<>> <=> i.volume # {}
        /\ i.volume # {} => "SetVolume" \in Ops(volume)
    BY <2>1, <2>2, FitsSingle
  <2> QED
    BY <2>3, <2>4, <2>5
<1>3. /\ Fits(last, i) /\ Len(last) <= 1
      /\ Ops(last) \cap {"ClearQueue", "AddSource", "ApplyMode"} = {}
      /\ i.transport # {} \/ i.source # {} => last # <<>>
      /\ OperationsOf(i) \cap (Settling \cup {"Next", "Previous"}) \subseteq Ops(last)
      /\ Advancing(i) => {"Next", "Previous"} \cap Ops(last) # {}
  BY TransportParts
<1>4. /\ Fits(source, i)
      /\ i.source # {} => source # <<>> /\ Head(source) # "ApplyMode"
      /\ OfQueue(i) => Head(source) = "Stop"
      /\ i.shuffle # {} \/ i.repeat # {} => source # <<>>
      /\ OperationsOf(i) \cap Setting \subseteq Ops(source)
      /\ Ops(source) \subseteq Setting \cup {"Stop"}
  BY SourceParts
<1>5. i # EmptyIntent /\ (Placed(i) => i.source = {})
  BY DEF validateIntent, Placed
<1>6. \/ i.seek # {} \/ i.queueIndex # {} \/ i.source # {} \/ i.shuffle # {} \/ i.repeat # {}
      \/ i.volume # {} \/ i.transport # {}
  <2>1. i.seek = {} /\ i.queueIndex = {} /\ i.source = {} /\ i.shuffle = {} /\ i.repeat = {}
        /\ i.volume = {} /\ i.transport = {} => i = EmptyIntent
    BY DEF Intents, EmptyIntent
  <2> QED
    BY <1>5, <2>1
<1> HIDE DEF seek, item, source, volume, last
<1>7. /\ Fits(places, i) /\ Ops(places) = Ops(seek) \cup Ops(item)
      /\ places = <<>> <=> i.seek = {} /\ i.queueIndex = {}
  <2>1. seek = <<>> => places = item
    BY <1>2, FitsJoined
  <2>2. seek # <<>> => places # <<>>
    BY <1>2, FitsJoined
  <2>3. Fits(places, i) /\ Ops(places) = Ops(seek) \cup Ops(item)
    BY <1>2, FitsJoined
  <2> QED
    BY <1>2, <2>1, <2>2, <2>3
<1> HIDE DEF places
<1>8. /\ Fits(begun, i) /\ Ops(begun) = Ops(places) \cup Ops(source)
      /\ places # <<>> => begun # <<>>
      /\ places = <<>> => begun = source
  <2>1. "AddSource" \notin Ops(places)
    BY <1>2, <1>7
  <2> QED
    BY <1>4, <1>7, <2>1, FitsJoined
<1> HIDE DEF begun
<1>9. /\ Fits(set, i) /\ Ops(set) = Ops(begun) \cup Ops(volume)
      /\ begun # <<>> => set # <<>> /\ Head(set) = Head(begun)
      /\ begun = <<>> => set = volume
  BY <1>2, <1>8, FitsJoined
<1> HIDE DEF set
<1>10. /\ Fits(set \o last, i) /\ Ops(set \o last) = Ops(set) \cup Ops(last)
       /\ set # <<>> => set \o last # <<>> /\ Head(set \o last) = Head(set)
       /\ set = <<>> => set \o last = last
  <2>1. "ClearQueue" \notin Ops(last)
    BY <1>3
  <2> QED
    BY <1>3, <1>9, <2>1, FitsJoined
<1>11. makePlan(i) # <<>>
  BY <1>1, <1>2, <1>3, <1>4, <1>6, <1>7, <1>8, <1>9, <1>10
<1>12. i.source # {} =>
           Head(makePlan(i)) # "ApplyMode" /\ (OfQueue(i) => Head(makePlan(i)) = "Stop")
  <2>1. i.source # {} => places = <<>>
    BY <1>5, <1>7 DEF Placed
  <2> QED
    BY <1>1, <1>4, <1>8, <1>9, <1>10, <2>1
<1>13. OperationsOf(i) \ {"Stop"} \subseteq Ops(makePlan(i))
  <2> SUFFICES ASSUME NEW op \in OperationsOf(i), op # "Stop"
               PROVE  op \in Ops(seek) \cup Ops(item) \cup Ops(source) \cup Ops(volume) \cup Ops(last)
    BY <1>1, <1>7, <1>8, <1>9, <1>10
  <2>1. /\ op \in Setting \cup Settling \cup {"Next", "Previous", "Seek", "SelectQueueItem", "SetVolume"}
        /\ op = "Seek" => i.seek # {}
        /\ op = "SelectQueueItem" => i.queueIndex # {}
        /\ op = "SetVolume" => i.volume # {}
    BY DEF OperationsOf, Operations, Setting, Settling
  <2> QED
    BY <1>2, <1>3, <1>4, <2>1
<1>14. Settles(makePlan(i))
  <2>1. Ops(set) \cap Settling = {}
    <3>1. Ops(source) \cap Settling = {}
      BY <1>4 DEF Setting, Settling
    <3>2. (Ops(seek) \cup Ops(item) \cup Ops(volume)) \cap Settling = {}
      BY <1>2 DEF Settling
    <3> QED
      BY <1>7, <1>8, <1>9, <3>1, <3>2
  <2>2. set \in Seq(Operations) /\ last \in Seq(Operations)
    BY <1>3, <1>9 DEF Fits
  <2> QED
    BY <1>1, <1>3, <2>1, <2>2, SettlesJoined
<1>15. OfQueue(i) => i.source # {}
  BY DEF OfQueue
<1>16. OfQueue(i) => "AddSource" \in Ops(makePlan(i))
  BY <1>13 DEF OperationsOf, Operations
<1> QED
  BY <1>1, <1>3, <1>10, <1>11, <1>12, <1>13, <1>14, <1>15, <1>16

----------------------------------------------------------------------------
(* What an operation does to a speaker.                                    *)

LEMMA ModesCombined ==
    ASSUME NEW s \in SpeakerType, NEW i \in Intents
    PROVE  combineMode(s.mode, i.shuffle, i.repeat) \in PlayModes
<1> DEFINE names == {"NORMAL", "REPEAT_ALL", "REPEAT_ONE", "SHUFFLE_NOREPEAT", "SHUFFLE",
                     "SHUFFLE_REPEAT_ONE"}
<1>1. PlayModes = names
  BY DEF PlayModes, ModeNames
<1>2. \A r \in Repeats : NormalNames[r] \in names /\ ShuffledNames[r] \in names
  BY DEF Repeats, NormalNames, ShuffledNames
<1>3. OldRepeat(s.mode) \in Repeats
  <2>1. s.mode \in names
    BY <1>1 DEF SpeakerType
  <2>2. \E r \in Repeats : s.mode \in {NormalNames[r], ShuffledNames[r]}
    BY <2>1 DEF Repeats, NormalNames, ShuffledNames
  <2> QED
    BY <2>2 DEF OldRepeat
<1>4. i.repeat # {} => The(i.repeat) \in Repeats
  BY Optionals DEF Intents
<1> QED
  BY <1>1, <1>2, <1>3, <1>4 DEF combineMode

\* A volume that a request leads to from another.
Led(i, from, w) ==
    \E v \in i.volume : LET to == IF v.relative THEN from + v.value ELSE v.value
                        IN  /\ w \in 0 .. 100
                            /\ \/ w = to
                               \/ w = 0 /\ to < 0
                               \/ w = 100 /\ to > 100

LEMMA VolumesClamped ==
    ASSUME NEW i \in Intents, i.volume # {}, NEW b \in 0 .. 100
    PROVE  The(DesiredVolume(i, b)) \in 0 .. 100 /\ Led(i, b, The(DesiredVolume(i, b)))
<1>1. PICK v \in [relative : BOOLEAN, value : -100 .. 100] : i.volume = {v}
  BY DEF Intents, Optional
<1>2. DesiredVolume(i, b) = {Clamp(v.value + (IF v.relative THEN b ELSE 0))}
  BY <1>1 DEF DesiredVolume
<1>3. The(DesiredVolume(i, b)) = Clamp(v.value + (IF v.relative THEN b ELSE 0))
  BY <1>2 DEF The
<1> DEFINE to == v.value + (IF v.relative THEN b ELSE 0)
<1>4. to \in Int /\ to = IF v.relative THEN b + v.value ELSE v.value
  <2>1. v.value \in Int
    BY <1>1
  <2>2. CASE v.relative
    BY <2>1, <2>2
  <2>3. CASE ~v.relative
    BY <2>1, <2>3
  <2> QED
    BY <2>2, <2>3
<1> HIDE DEF to
<1>5. \A x \in Int : /\ Clamp(x) \in 0 .. 100
                     /\ Clamp(x) = x \/ (Clamp(x) = 0 /\ x < 0) \/ (Clamp(x) = 100 /\ x > 100)
  BY DEF Clamp
<1>6. The(DesiredVolume(i, b)) = Clamp(to)
  BY <1>3 DEF to
<1> QED
  BY <1>1, <1>4, <1>5, <1>6 DEF Led

\* What each operation may change, and what it leaves alone.
Moved(op, s, d) ==
    /\ d \in SpeakerType
    /\ d.content = s.content /\ d.rev = s.rev /\ d.here = s.here /\ d.grouped = s.grouped
    /\ d.mute = s.mute
    /\ d.moved = (CASE op \in {"Next", "Previous"} -> "skipped" [] op = "Seek" -> "sought"
                    [] op = "SelectQueueItem" -> "selected" [] OTHER -> s.moved)
    /\ op \notin {"ClearQueue", "AddSource"} => d.queue = s.queue
    /\ op = "AddSource" => d.queue = "requested"
    /\ op \notin {"SelectQueue", "SelectStation"} => d.playing = s.playing
    /\ op \notin {"Play", "Pause", "RestoreTransport", "Stop"} => d.transport = s.transport

\* One field of a speaker at a time.
SameBut(f, s, d) ==
    /\ d \in SpeakerType
    /\ f # "playing" => d.playing = s.playing
    /\ f # "queue" => d.queue = s.queue
    /\ f # "moved" => d.moved = s.moved
    /\ f # "transport" => d.transport = s.transport
    /\ f # "mode" => d.mode = s.mode
    /\ f # "volume" => d.volume = s.volume
    /\ f # "mute" => d.mute = s.mute
    /\ d.content = s.content /\ d.rev = s.rev /\ d.grouped = s.grouped /\ d.here = s.here

LEMMA OperationsMove ==
    ASSUME NEW s \in SpeakerType, NEW b \in SpeakerType, NEW i \in Intents,
           NEW op \in Operations, op = "SetVolume" => i.volume # {}
    PROVE  Moved(op, s, Applied(op, i, b, s))
<1> DEFINE d == Applied(op, i, b, s)
<1> SUFFICES Moved(op, s, d)
  OBVIOUS
<1>1. CASE op \in {"RestoreTransport", "Stop", "Play", "Pause"}
  <2>1. PICK t \in {"PLAYING", "PAUSED", "STOPPED"} : d = [s EXCEPT !.transport = t]
    BY <1>1 DEF Applied, Resumed
  <2> HIDE DEF d
  <2>9. SameBut("transport", s, d) /\ d.transport = t
    BY <2>1 DEF SameBut, SpeakerType
  <2> QED
    BY <1>1, <2>1, <2>9 DEF Moved, SameBut
<1>2. CASE op = "ApplyMode"
  <2> DEFINE mode == combineMode(b.mode, i.shuffle, i.repeat)
  <2>1. mode \in PlayModes
    BY ModesCombined
  <2>2. d = [s EXCEPT !.mode = mode]
    BY <1>2 DEF Applied
  <2> HIDE DEF d, mode
  <2>9. SameBut("mode", s, d) /\ d.mode = mode
    BY <2>1, <2>2 DEF SameBut, SpeakerType
  <2> QED
    BY <1>2, <2>1, <2>2, <2>9 DEF Moved, SameBut
<1>3. CASE op \in {"ClearQueue", "AddSource"}
  <2>1. PICK q \in {"empty", "requested"} :
            d = [s EXCEPT !.queue = q] /\ (op = "AddSource" => q = "requested")
    BY <1>3 DEF Applied
  <2> HIDE DEF d
  <2>9. SameBut("queue", s, d) /\ d.queue = q
    BY <2>1 DEF SameBut, SpeakerType
  <2> QED
    BY <1>3, <2>1, <2>9 DEF Moved, SameBut
<1>4. CASE op \in {"SelectQueue", "SelectStation"}
  <2>1. PICK p \in {"queue", "station"} : d = [s EXCEPT !.playing = p]
    BY <1>4 DEF Applied
  <2> HIDE DEF d
  <2>9. SameBut("playing", s, d) /\ d.playing = p
    BY <2>1 DEF SameBut, SpeakerType
  <2> QED
    BY <1>4, <2>1, <2>9 DEF Moved, SameBut
<1>5. CASE op = "SetVolume"
  <2> DEFINE to == The(DesiredVolume(i, b.volume))
  <2>1. to \in 0 .. 100
    BY <1>5, VolumesClamped DEF SpeakerType
  <2>2. d = [s EXCEPT !.volume = to]
    BY <1>5 DEF Applied
  <2> HIDE DEF d, to
  <2>9. SameBut("volume", s, d) /\ d.volume = to
    BY <2>1, <2>2 DEF SameBut, SpeakerType
  <2> QED
    BY <1>5, <2>1, <2>2, <2>9 DEF Moved, SameBut
<1>6. CASE op \in {"Next", "Previous", "Seek", "SelectQueueItem"}
  <2>1. PICK how \in {"skipped", "sought", "selected"} :
            /\ d = [s EXCEPT !.moved = how]
            /\ op \in {"Next", "Previous"} => how = "skipped"
            /\ op = "Seek" => how = "sought"
            /\ op = "SelectQueueItem" => how = "selected"
    BY <1>6 DEF Applied
  <2> HIDE DEF d
  <2>9. SameBut("moved", s, d) /\ d.moved = how
    BY <2>1 DEF SameBut, SpeakerType
  <2> QED
    BY <1>6, <2>1, <2>9 DEF Moved, SameBut
<1> QED
  BY <1>1, <1>2, <1>3, <1>4, <1>5, <1>6 DEF Operations

\* What each operation sets, and leaves as it is.
Made(op, i, b, s, d) ==
    /\ d.mode = IF op = "ApplyMode" THEN combineMode(b.mode, i.shuffle, i.repeat) ELSE s.mode
    /\ d.volume = IF op = "SetVolume" THEN The(DesiredVolume(i, b.volume)) ELSE s.volume
    /\ op = "SelectQueue" => d.playing = "queue"
    /\ op = "SelectStation" => d.playing = "station"
    /\ op = "Play" => d.transport = "PLAYING"
    /\ op \in {"Pause", "Stop"} => d.transport # "PLAYING"
    /\ op = "RestoreTransport" => (d.transport = "PLAYING" <=> b.transport = "PLAYING")

LEMMA OperationsMake ==
    ASSUME NEW s \in SpeakerType, NEW b \in SpeakerType, NEW i \in Intents,
           NEW op \in Operations, op = "SetVolume" => i.volume # {}
    PROVE  Made(op, i, b, s, Applied(op, i, b, s))
<1> DEFINE d == Applied(op, i, b, s)
<1> SUFFICES Made(op, i, b, s, d)
  OBVIOUS
<1>1. CASE op \in {"RestoreTransport", "Stop", "Play", "Pause"}
  <2>1. PICK t \in {"PLAYING", "PAUSED", "STOPPED"} :
            /\ d = [s EXCEPT !.transport = t]
            /\ op = "Play" => t = "PLAYING"
            /\ op \in {"Pause", "Stop"} => t # "PLAYING"
            /\ op = "RestoreTransport" => (t = "PLAYING" <=> b.transport = "PLAYING")
    BY <1>1 DEF Applied, Resumed, Resumes
  <2> HIDE DEF d
  <2>2. SameBut("transport", s, d) /\ d.transport = t
    BY <2>1 DEF SameBut, SpeakerType
  <2> QED
    BY <1>1, <2>1, <2>2 DEF Made, SameBut
<1>2. CASE op = "ApplyMode"
  <2> DEFINE mode == combineMode(b.mode, i.shuffle, i.repeat)
  <2>1. mode \in PlayModes
    BY ModesCombined
  <2>2. d = [s EXCEPT !.mode = mode]
    BY <1>2 DEF Applied
  <2> HIDE DEF d, mode
  <2>3. SameBut("mode", s, d) /\ d.mode = mode
    BY <2>1, <2>2 DEF SameBut, SpeakerType
  <2> QED
    BY <1>2, <2>3 DEF Made, SameBut, mode
<1>3. CASE op \in {"ClearQueue", "AddSource"}
  <2>1. PICK q \in {"empty", "requested"} : d = [s EXCEPT !.queue = q]
    BY <1>3 DEF Applied
  <2> HIDE DEF d
  <2>2. SameBut("queue", s, d)
    BY <2>1 DEF SameBut, SpeakerType
  <2> QED
    BY <1>3, <2>2 DEF Made, SameBut
<1>4. CASE op \in {"SelectQueue", "SelectStation"}
  <2>1. PICK p \in {"queue", "station"} :
            /\ d = [s EXCEPT !.playing = p]
            /\ op = "SelectQueue" => p = "queue"
            /\ op = "SelectStation" => p = "station"
    BY <1>4 DEF Applied
  <2> HIDE DEF d
  <2>2. SameBut("playing", s, d) /\ d.playing = p
    BY <2>1 DEF SameBut, SpeakerType
  <2> QED
    BY <1>4, <2>1, <2>2 DEF Made, SameBut
<1>5. CASE op = "SetVolume"
  <2> DEFINE to == The(DesiredVolume(i, b.volume))
  <2>1. to \in 0 .. 100
    BY <1>5, VolumesClamped DEF SpeakerType
  <2>2. d = [s EXCEPT !.volume = to]
    BY <1>5 DEF Applied
  <2> HIDE DEF d, to
  <2>3. SameBut("volume", s, d) /\ d.volume = to
    BY <2>1, <2>2 DEF SameBut, SpeakerType
  <2> QED
    BY <1>5, <2>3 DEF Made, SameBut, to
<1>6. CASE op \in {"Next", "Previous", "Seek", "SelectQueueItem"}
  <2>1. PICK how \in {"skipped", "sought", "selected"} : d = [s EXCEPT !.moved = how]
    BY <1>6 DEF Applied
  <2> HIDE DEF d
  <2>2. SameBut("moved", s, d)
    BY <2>1 DEF SameBut, SpeakerType
  <2> QED
    BY <1>6, <2>2 DEF Made, SameBut
<1> QED
  BY <1>1, <1>2, <1>3, <1>4, <1>5, <1>6 DEF Operations

----------------------------------------------------------------------------
(* Play modes.                                                             *)

\* The table of names is read back as it was written.
LEMMA NamesRead ==
    ASSUME NEW n \in 1 .. 6
    PROVE  ObservedMode(ModeNames[n]) =
               [shuffle |-> n > 3, repeat |-> RepeatOrder[((n - 1) % 3) + 1]]
<1>1. DOMAIN ModeNames = 1 .. 6
  BY DEF ModeNames
<1>2. \A m \in 1 .. 6 : ModeNames[m] = ModeNames[n] => m = n
  BY DEF ModeNames
<1>3. (CHOOSE m \in DOMAIN ModeNames : ModeNames[m] = ModeNames[n]) = n
  BY <1>1, <1>2
<1> QED
  BY <1>3 DEF ObservedMode

\* The name of a shuffle and a repeat, and what is read from it.
Named(s, r) == IF s THEN ShuffledNames[r] ELSE NormalNames[r]

LEMMA NamesMean ==
    ASSUME NEW s \in BOOLEAN, NEW r \in Repeats
    PROVE  /\ ObservedMode(Named(s, r)) = [shuffle |-> s, repeat |-> r]
           /\ OldRepeat(Named(s, r)) = r /\ OldShuffle(Named(s, r)) = s
<1> DEFINE place == IF r = "off" THEN 1 ELSE IF r = "all" THEN 2 ELSE 3
           n == IF s THEN place + 3 ELSE place
<1>1. n \in 1 .. 6 /\ (n > 3) = s /\ RepeatOrder[((n - 1) % 3) + 1] = r
  BY DEF Repeats, RepeatOrder
<1>2. ModeNames[n] = Named(s, r)
  BY DEF Repeats, ModeNames, Named, ShuffledNames, NormalNames
<1>3. \A q \in Repeats : Named(s, r) \in {NormalNames[q], ShuffledNames[q]} <=> q = r
  BY DEF Repeats, Named, ShuffledNames, NormalNames
<1>4. OldRepeat(Named(s, r)) = r
  BY <1>3 DEF OldRepeat
<1>5. OldShuffle(Named(s, r)) = s
  <2>1. s => OldShuffle(Named(s, r))
    BY Zenon DEF OldShuffle, Named
  <2>2. \A q, p \in Repeats : NormalNames[p] # ShuffledNames[q]
    BY DEF Repeats, ShuffledNames, NormalNames
  <2>3. ~s => ~OldShuffle(Named(s, r))
    BY <2>2, Zenon DEF OldShuffle, Named
  <2>4. OldShuffle(Named(s, r)) \in BOOLEAN
    BY Zenon DEF OldShuffle
  <2> QED
    BY <2>1, <2>3, <2>4, Zenon
<1> HIDE DEF n
<1>6. ObservedMode(ModeNames[n]) = [shuffle |-> s, repeat |-> r]
  BY <1>1, NamesRead
<1> QED
  BY <1>2, <1>4, <1>5, <1>6

LEMMA NamesAll ==
    ASSUME NEW m \in PlayModes
    PROVE  \E s \in BOOLEAN, r \in Repeats : m = Named(s, r)
<1>1. m \in {"NORMAL", "REPEAT_ALL", "REPEAT_ONE", "SHUFFLE_NOREPEAT", "SHUFFLE",
             "SHUFFLE_REPEAT_ONE"}
  BY DEF PlayModes, ModeNames
<1> QED
  BY <1>1 DEF Repeats, Named, ShuffledNames, NormalNames

\* combineMode sets what is asked for and keeps the rest.
LEMMA ModesMean ==
    ASSUME NEW m \in PlayModes, NEW shuffle \in Optional(BOOLEAN), NEW repeat \in Optional(Repeats)
    PROVE  LET old == ObservedMode(m)
               new == ObservedMode(combineMode(m, shuffle, repeat))
           IN  /\ new.shuffle = IF shuffle # {} THEN The(shuffle) ELSE old.shuffle
               /\ new.repeat = IF repeat # {} THEN The(repeat) ELSE old.repeat
<1>1. PICK s \in BOOLEAN, r \in Repeats : m = Named(s, r)
  BY NamesAll
<1>2. ObservedMode(m) = [shuffle |-> s, repeat |-> r] /\ OldRepeat(m) = r /\ OldShuffle(m) = s
  BY <1>1, NamesMean
<1> DEFINE t == IF shuffle # {} THEN The(shuffle) ELSE s
           q == IF repeat # {} THEN The(repeat) ELSE r
<1>3. t \in BOOLEAN /\ q \in Repeats
  BY Optionals
<1>4. combineMode(m, shuffle, repeat) = Named(t, q)
  BY <1>2 DEF combineMode, Named
<1>5. ObservedMode(Named(t, q)) = [shuffle |-> t, repeat |-> q]
  BY <1>3, NamesMean
<1> QED
  BY <1>2, <1>4, <1>5

------------------------------------------------------------------------------
(* Admission.                                                              *)

\* A request that passes validation has a place in the struct: its numbers
\* are in the range of the wire.
LEMMA AdmittedIsIntent ==
    ASSUME NEW i \in PlanRequests, validateIntent(i)
    PROVE  i \in Intents
<1>1. i \in Wishes /\ \A f \in {"volume", "seek", "queueIndex"} : \A x, y \in i[f] : x = y
  BY PlanningAssumption
<1>2. /\ \A p \in i.seek : p \in 0 .. MaxU32
      /\ \A q \in i.queueIndex : q \in 0 .. MaxU32 - 1
      /\ \A v \in i.volume : ValidVolume(v)
  BY DEF validateIntent
<1>3. i.seek \in Optional(0 .. MaxU32)
  <2>1. \A x, y \in i.seek : x = y
    BY <1>1
  <2>2. CASE i.seek = {}
    BY <2>2 DEF Optional
  <2>3. ASSUME NEW p \in i.seek PROVE i.seek \in Optional(0 .. MaxU32)
    <3>1. i.seek = {p} /\ p \in 0 .. MaxU32
      BY <1>2, <2>1
    <3> QED
      BY <3>1 DEF Optional
  <2> QED
    BY <2>2, <2>3
<1>4. i.queueIndex \in Optional(0 .. MaxU32)
  <2>1. \A x, y \in i.queueIndex : x = y
    BY <1>1
  <2>2. CASE i.queueIndex = {}
    BY <2>2 DEF Optional
  <2>3. ASSUME NEW p \in i.queueIndex PROVE i.queueIndex \in Optional(0 .. MaxU32)
    <3>1. p \in 0 .. MaxU32
      BY <1>2, MaxU32Assumption
    <3>2. i.queueIndex = {p}
      BY <2>1
    <3> QED
      BY <3>1, <3>2 DEF Optional
  <2> QED
    BY <2>2, <2>3
<1>5. i.volume \in Optional([relative : BOOLEAN, value : -100 .. 100])
  <2>1. \A x, y \in i.volume : x = y
    BY <1>1
  <2>2. CASE i.volume = {}
    BY <2>2 DEF Optional
  <2>3. ASSUME NEW v \in i.volume
        PROVE  i.volume \in Optional([relative : BOOLEAN, value : -100 .. 100])
    <3>1. v \in [relative : BOOLEAN, value : Int]
      BY <1>1 DEF Wishes
    <3>2. v.value <= 100 /\ -100 <= v.value
      BY <1>2, <3>1 DEF ValidVolume
    <3>3. v \in [relative : BOOLEAN, value : -100 .. 100]
      BY <3>1, <3>2
    <3>4. i.volume = {v}
      BY <2>1
    <3> QED
      BY <3>3, <3>4 DEF Optional
  <2> QED
    BY <2>2, <2>3
<1> QED
  BY <1>1, <1>3, <1>4, <1>5 DEF Wishes, Intents

\* What a kind of source allows of each mode.
MayShuffle(kind, o) == kind \in {"track", "station"} => o = {}
MayRepeat(kind, o) ==
    /\ kind \in {"album", "playlist"} => o # {"one"}
    /\ kind = "track" => o # {"all"}
    /\ kind = "station" => o = {}

LEMMA ModesApart ==
    ASSUME NEW kind \in SourceKinds, NEW m \in Modes
    PROVE  validateSourceModes(kind, m) <=> MayShuffle(kind, m.shuffle) /\ MayRepeat(kind, m.repeat)
<1>1. m = NoModes <=> m.shuffle = {} /\ m.repeat = {}
  BY DEF Modes, NoModes
<1> QED
  BY <1>1 DEF SourceKinds, validateSourceModes, MayShuffle, MayRepeat

\* Modes that fit a request: the source it has allows them.
Suit(i, m) ==
    /\ m \in Modes
    /\ i.source = {} => m = NoModes
    /\ \A kind \in i.source : MayShuffle(kind, m.shuffle) /\ MayRepeat(kind, m.repeat)

LEMMA NoModesSuit ==
    ASSUME NEW i \in Intents
    PROVE  Suit(i, NoModes)
  BY DEF Suit, NoModes, Modes, Optional, MayShuffle, MayRepeat, Intents

LEMMA PoliciesSuit ==
    ASSUME NEW i \in Intents, NEW policy \in Policies, ValidPolicy(policy), i.source # {}
    PROVE  Suit(i, sourcePolicyModes(policy, The(i.source)))
<1> DEFINE kind == The(i.source)
<1>1. kind \in SourceKinds /\ i.source = {kind}
  BY Optionals DEF Intents
<1> HIDE DEF kind
<1>2. CASE kind \in {"album", "playlist", "track"}
  <2>1. policy[kind] \in Modes /\ kind \in DOMAIN policy /\ validateSourceModes(kind, policy[kind])
    BY <1>2 DEF Policies, ValidPolicy
  <2>2. sourcePolicyModes(policy, kind) = policy[kind]
    BY <2>1 DEF sourcePolicyModes
  <2> QED
    BY <1>1, <2>1, <2>2, ModesApart DEF Suit, kind
<1>3. CASE kind \notin {"album", "playlist", "track"}
  <2>1. sourcePolicyModes(policy, kind) = NoModes
    BY <1>3 DEF sourcePolicyModes, Policies
  <2> QED
    BY <2>1, NoModesSuit DEF kind
<1> QED
  BY <1>2, <1>3

LEMMA DefaultsSuit ==
    ASSUME NEW i \in Intents
    PROVE  Suit(i, DefaultModes(i))
<1>1. CASE i.source = {}
  BY <1>1, NoModesSuit DEF DefaultModes
<1>2. CASE i.source # {}
  <2> DEFINE kind == The(i.source)
  <2>1. kind \in SourceKinds /\ i.source = {kind}
    BY <1>2, Optionals DEF Intents
  <2>2. DefaultModes(i) = sourceDefaults(kind)
    BY <1>2 DEF DefaultModes
  <2> HIDE DEF kind
  <2>3. /\ sourceDefaults(kind) \in Modes
        /\ MayShuffle(kind, sourceDefaults(kind).shuffle)
        /\ MayRepeat(kind, sourceDefaults(kind).repeat)
    BY <2>1 DEF sourceDefaults, SourceKinds, Modes, Optional, Repeats, MayShuffle, MayRepeat
  <2> QED
    BY <2>1, <2>2, <2>3 DEF Suit
<1> QED
  BY <1>1, <1>2

\* A field is the first of four that has a value.
First(a, b, c, d) ==
    IF a # {} THEN a ELSE IF b # {} THEN b ELSE IF c # {} THEN c ELSE IF d # {} THEN d ELSE {}

LEMMA FieldResolves ==
    ASSUME NEW a, NEW b, NEW c, NEW d
    PROVE  ResolveField(a, b, c, d).value = First(a, b, c, d)
  BY DEF ResolveField, First

LEMMA LayersSuit ==
    ASSUME NEW i \in Intents, NEW ctx \in Contexts \cup Reconfigured
    PROVE  Suit(i, RoomModes(i, ctx)) /\ Suit(i, DeviceModes(i, ctx))
<1>1. /\ ctx.device \in Policies /\ ValidPolicy(ctx.device)
      /\ \A r \in DOMAIN ctx.rooms : ctx.rooms[r] \in Policies /\ ValidPolicy(ctx.rooms[r])
  BY PlanningAssumption
<1>2. CASE i.source # {} /\ ctx.target \in DOMAIN ctx.rooms
  <2>1. RoomModes(i, ctx) = sourcePolicyModes(ctx.rooms[ctx.target], The(i.source))
    BY <1>2 DEF RoomModes
  <2>2. DeviceModes(i, ctx) = sourcePolicyModes(ctx.device, The(i.source))
    BY <1>2 DEF DeviceModes
  <2> QED
    BY <1>1, <1>2, <2>1, <2>2, PoliciesSuit
<1>3. CASE ~(i.source # {} /\ ctx.target \in DOMAIN ctx.rooms)
  <2>1. RoomModes(i, ctx) = NoModes /\ DeviceModes(i, ctx) = NoModes
    BY <1>3 DEF RoomModes, DeviceModes
  <2> QED
    BY <2>1, NoModesSuit
<1> QED
  BY <1>2, <1>3

\* What a request becomes when it is frozen: its own modes, the configured
\* ones, or the usual ones, in that order, and everything else as it was.
FrozenFrom(i, ctx, r) ==
    /\ r.source = i.source /\ r.transport = i.transport /\ r.volume = i.volume
    /\ r.seek = i.seek /\ r.queueIndex = i.queueIndex
    /\ r.shuffle = First(i.shuffle, RoomModes(i, ctx).shuffle, DeviceModes(i, ctx).shuffle,
                         DefaultModes(i).shuffle)
    /\ r.repeat = First(i.repeat, RoomModes(i, ctx).repeat, DeviceModes(i, ctx).repeat,
                        DefaultModes(i).repeat)

\* No policy makes a valid request invalid.
LEMMA FreezingIsValid ==
    ASSUME NEW i \in Intents, validateIntent(i), NEW ctx \in Contexts \cup Reconfigured
    PROVE  /\ FrozenFrom(i, ctx, resolvePolicy(i, ctx).intent)
           /\ resolvePolicy(i, ctx).intent \in Intents
           /\ validateIntent(resolvePolicy(i, ctx).intent)
<1> DEFINE room == RoomModes(i, ctx)
           device == DeviceModes(i, ctx)
           usual == DefaultModes(i)
           s == First(i.shuffle, room.shuffle, device.shuffle, usual.shuffle)
           t == First(i.repeat, room.repeat, device.repeat, usual.repeat)
           own == [shuffle |-> i.shuffle, repeat |-> i.repeat]
           r == resolvePolicy(i, ctx).intent
<1>1. r = [i EXCEPT !.shuffle = s, !.repeat = t]
  <2> DEFINE f == ResolvedFields(i, room, device, usual)
  <2>1. f.shuffle.value = s /\ f.repeat.value = t
    BY FieldResolves DEF ResolvedFields
  <2>2. resolvePolicy(i, ctx) = Frozen(i, ctx, f)
    BY DEF resolvePolicy
  <2> HIDE DEF f, s, t
  <2> QED
    BY <2>1, <2>2 DEF Frozen
<1>2. Suit(i, room) /\ Suit(i, device) /\ Suit(i, usual)
  BY LayersSuit, DefaultsSuit
<1> HIDE DEF room, device, usual
<1>3. /\ own \in Modes
      /\ \A kind \in i.source : MayShuffle(kind, own.shuffle) /\ MayRepeat(kind, own.repeat)
  <2>1. own \in Modes
    BY DEF Intents, Modes
  <2>2. \A kind \in i.source : kind \in SourceKinds /\ validateSourceModes(kind, own)
    BY DEF Intents, Optional, validateIntent
  <2> QED
    BY <2>1, <2>2, ModesApart
<1>4. /\ s \in Optional(BOOLEAN) /\ t \in Optional(Repeats)
      /\ \A kind \in i.source : MayShuffle(kind, s) /\ MayRepeat(kind, t)
      /\ i.source = {} => s = i.shuffle /\ t = i.repeat
  <2>1. s \in {i.shuffle, room.shuffle, device.shuffle, usual.shuffle, {}}
    BY DEF First
  <2>2. t \in {i.repeat, room.repeat, device.repeat, usual.repeat, {}}
    BY DEF First
  <2>3. {} \in Optional(BOOLEAN) /\ {} \in Optional(Repeats)
        /\ \A kind : MayShuffle(kind, {}) /\ MayRepeat(kind, {})
    BY DEF Optional, MayShuffle, MayRepeat
  <2>4. /\ i.shuffle \in Optional(BOOLEAN) /\ room.shuffle \in Optional(BOOLEAN)
        /\ device.shuffle \in Optional(BOOLEAN) /\ usual.shuffle \in Optional(BOOLEAN)
        /\ i.repeat \in Optional(Repeats) /\ room.repeat \in Optional(Repeats)
        /\ device.repeat \in Optional(Repeats) /\ usual.repeat \in Optional(Repeats)
    BY <1>2 DEF Suit, Intents, Modes
  <2>5. s \in Optional(BOOLEAN) /\ t \in Optional(Repeats)
    BY <2>1, <2>2, <2>3, <2>4
  <2>6. \A kind \in i.source : MayShuffle(kind, s)
    BY <1>2, <1>3, <2>1, <2>3 DEF Suit
  <2>7. \A kind \in i.source : MayRepeat(kind, t)
    BY <1>2, <1>3, <2>2, <2>3 DEF Suit
  <2>8. i.source = {} => s = i.shuffle /\ t = i.repeat
    BY <1>2 DEF Suit, First, NoModes
  <2> QED
    BY <2>5, <2>6, <2>7, <2>8
<1> HIDE DEF s, t, r
<1>5. /\ r \in Intents
      /\ r.source = i.source /\ r.transport = i.transport /\ r.volume = i.volume
      /\ r.seek = i.seek /\ r.queueIndex = i.queueIndex /\ r.shuffle = s /\ r.repeat = t
  BY <1>1, <1>4 DEF Intents
<1>6. FrozenFrom(i, ctx, r)
  BY <1>5 DEF FrozenFrom, s, t, room, device, usual
<1>7. validateIntent(r)
  <2>1. r # EmptyIntent
    <3>1. CASE i.source = {}
      <4>1. r = EmptyIntent => i.transport = {} /\ i.shuffle = {} /\ i.repeat = {} /\ i.volume = {}
                               /\ i.seek = {} /\ i.queueIndex = {}
        BY <1>4, <1>5, <3>1 DEF EmptyIntent
      <4>2. r = EmptyIntent => i = EmptyIntent
        BY <3>1, <4>1 DEF Intents, EmptyIntent
      <4> QED
        BY <4>2 DEF validateIntent
    <3>2. CASE i.source # {}
      BY <1>5, <3>2 DEF EmptyIntent
    <3> QED
      BY <3>1, <3>2
  <2>2. r.transport \cap Advances # {} => r.source = {} /\ r.shuffle = {} /\ r.repeat = {}
    BY <1>4, <1>5 DEF validateIntent
  <2>3. \A k \in r.source : validateSourceModes(k, [shuffle |-> r.shuffle, repeat |-> r.repeat])
    <3>1. [shuffle |-> s, repeat |-> t] \in Modes
      BY <1>4 DEF Modes
    <3>2. \A k \in i.source : k \in SourceKinds
      BY DEF Intents, Optional
    <3> QED
      BY <1>4, <1>5, <3>1, <3>2, ModesApart
  <2>4. /\ \A p \in i.seek : p \in 0 .. MaxU32
        /\ \A q \in i.queueIndex : q \in 0 .. MaxU32 - 1
        /\ i.seek \cup i.queueIndex # {} => i.source = {} /\ i.transport \cap Advances = {}
        /\ i.seek = {} \/ i.queueIndex = {}
        /\ \A v \in i.volume : ValidVolume(v)
    BY DEF validateIntent
  <2> QED
    BY <1>5, <2>1, <2>2, <2>3, <2>4 DEF validateIntent
<1> QED
  BY <1>5, <1>6, <1>7 DEF r

----------------------------------------------------------------------------
(* Under way.  For each thing a request asks of a speaker, either the      *)
(* operation that does it is still to come, or it is done and nothing left *)
(* in the plan undoes it.                                                  *)
ContentAhead(q, i, b, s) ==
    /\ OfQueue(i) => "SelectQueue" \in Ops(q) \/ s.playing = "queue"
    /\ i.source = {"station"} => "SelectStation" \in Ops(q) \/ s.playing = "station"
    /\ i.source = {} => s.playing = b.playing
    /\ OfQueue(i) => \/ "AddSource" \in Ops(q)
                     \/ s.queue = "requested" /\ "ClearQueue" \notin Ops(q)
    /\ ~OfQueue(i) => s.queue = b.queue

PlaceAhead(q, i, b, s) ==
    /\ i.seek # {} => "Seek" \in Ops(q) \/ s.moved = "sought"
    /\ i.queueIndex # {} => "SelectQueueItem" \in Ops(q) \/ s.moved = "selected"
    /\ Advancing(i) => {"Next", "Previous"} \cap Ops(q) # {} \/ s.moved = "skipped"
    /\ ~Placed(i) /\ ~Advancing(i) => s.moved = b.moved

Playing(s) == s.transport = "PLAYING"
Wanted(i, b) ==
    IF i.transport \cap {"play", "pause"} # {} THEN i.transport = {"play"} ELSE Playing(b)
Unsettled(i) == i.source # {} \/ i.transport \cap {"play", "pause"} # {}

TransportAhead(q, i, b, s) ==
    /\ Unsettled(i) => Settling \cap Ops(q) # {} \/ (q = <<>> /\ (Playing(s) <=> Wanted(i, b)))
    /\ ~Unsettled(i) => s.transport = b.transport

VolumeAhead(q, i, b, s) ==
    /\ i.volume = {} => s.volume = b.volume
    /\ i.volume # {} => "SetVolume" \in Ops(q) \/ Led(i, b.volume, s.volume)

ModeAhead(q, i, b, s) ==
    IF "ApplyMode" \in OperationsOf(i)
    THEN "ApplyMode" \in Ops(q) \/ s.mode = combineMode(b.mode, i.shuffle, i.repeat)
    ELSE s.mode = b.mode

\* A queue is replaced in silence.
Silent(q, i, b, s) ==
    OfQueue(i) => \/ q # <<>> /\ Head(q) = "Stop" /\ s = b
                  \/ q = <<>> \/ ~Playing(s)

Ahead(q, i, b, s) ==
    /\ Fits(q, i) /\ Settles(q)
    /\ ContentAhead(q, i, b, s) /\ PlaceAhead(q, i, b, s) /\ TransportAhead(q, i, b, s)
    /\ VolumeAhead(q, i, b, s) /\ ModeAhead(q, i, b, s) /\ Silent(q, i, b, s)

\* What a whole plan has ahead of it.
LEMMA AheadAtFirst ==
    ASSUME NEW i \in Intents, validateIntent(i), NEW s \in SpeakerType
    PROVE  Ahead(makePlan(i), i, s, s)
<1> DEFINE q == makePlan(i)
<1>1. /\ q # <<>> /\ Fits(q, i) /\ Settles(q)
      /\ OfQueue(i) => Head(q) = "Stop"
      /\ OperationsOf(i) \ {"Stop"} \subseteq Ops(q)
      /\ OfQueue(i) => "AddSource" \in Ops(q)
      /\ Advancing(i) => {"Next", "Previous"} \cap Ops(q) # {}
  BY Plans
<1> HIDE DEF q
<1>2. \A op \in OperationsOf(i) : op # "Stop" => op \in Ops(q)
  BY <1>1
<1>3. OfQueue(i) => "SelectQueue" \in OperationsOf(i)
  BY DEF OperationsOf, Operations
<1>4. i.source = {"station"} => "SelectStation" \in OperationsOf(i)
  BY DEF OperationsOf, Operations
<1>5. /\ i.seek # {} => "Seek" \in OperationsOf(i)
      /\ i.queueIndex # {} => "SelectQueueItem" \in OperationsOf(i)
      /\ i.volume # {} => "SetVolume" \in OperationsOf(i)
  BY DEF OperationsOf, Operations
<1>6. Unsettled(i) => OperationsOf(i) \cap Settling # {}
  <2>1. CASE i.transport = {}
    <3>1. Unsettled(i) => "RestoreTransport" \in OperationsOf(i) /\ "RestoreTransport" \in Settling
      BY <2>1 DEF Unsettled, OperationsOf, Operations, Settling
    <3> QED
      BY <3>1
  <2>2. CASE i.transport = {"play"}
    <3>1. "Play" \in OperationsOf(i) /\ "Play" \in Settling
      BY <2>2 DEF OperationsOf, Operations, Settling
    <3> QED
      BY <3>1
  <2>3. CASE i.transport = {"pause"}
    <3>1. "Pause" \in OperationsOf(i) /\ "Pause" \in Settling
      BY <2>3 DEF OperationsOf, Operations, Settling
    <3> QED
      BY <3>1
  <2>4. CASE i.transport = {"next"} \/ i.transport = {"previous"}
    <3>1. i.source = {}
      BY <2>4 DEF validateIntent, Advances
    <3> QED
      BY <2>4, <3>1 DEF Unsettled
  <2>5. \/ i.transport = {} \/ i.transport = {"play"} \/ i.transport = {"pause"}
        \/ i.transport = {"next"} \/ i.transport = {"previous"}
    BY DEF Intents, Optional, Transports
  <2> QED
    BY <2>1, <2>2, <2>3, <2>4, <2>5
<1>7. ContentAhead(q, i, s, s)
  BY <1>1, <1>2, <1>3, <1>4 DEF ContentAhead
<1>8. PlaceAhead(q, i, s, s)
  BY <1>1, <1>2, <1>5 DEF PlaceAhead
<1>9. TransportAhead(q, i, s, s)
  <2>1. Unsettled(i) => Settling \cap Ops(q) # {}
    BY <1>2, <1>6 DEF Settling
  <2> QED
    BY <2>1 DEF TransportAhead
<1>10. VolumeAhead(q, i, s, s)
  BY <1>2, <1>5 DEF VolumeAhead
<1>11. ModeAhead(q, i, s, s)
  BY <1>2 DEF ModeAhead
<1>12. Silent(q, i, s, s)
  BY <1>1 DEF Silent
<1> QED
  BY <1>1, <1>7, <1>8, <1>9, <1>10, <1>11, <1>12 DEF Ahead, q

\* And what is done when nothing is left.
LEMMA AheadAtLast ==
    ASSUME NEW i \in Intents, validateIntent(i), NEW b, NEW s, Ahead(<<>>, i, b, s)
    PROVE  AsAsked(i, b, s)
<1>1. Ops(<<>>) = {}
  BY DEF Ops
<1>2. ContentAhead(<<>>, i, b, s) /\ PlaceAhead(<<>>, i, b, s) /\ TransportAhead(<<>>, i, b, s)
      /\ VolumeAhead(<<>>, i, b, s)
  BY DEF Ahead
<1>3. s.playing = (IF OfQueue(i) THEN "queue" ELSE IF i.source # {} THEN "station" ELSE b.playing)
  BY <1>1, <1>2 DEF ContentAhead, OfQueue
<1>4. s.queue = (IF OfQueue(i) THEN "requested" ELSE b.queue)
  BY <1>1, <1>2 DEF ContentAhead
<1>5. s.moved = (CASE i.seek # {} -> "sought" [] i.queueIndex # {} -> "selected"
                   [] i.transport \cap Advances # {} -> "skipped" [] OTHER -> b.moved)
  <2>1. /\ i.seek = {} \/ i.queueIndex = {}
        /\ i.seek # {} \/ i.queueIndex # {} => ~Advancing(i)
    BY DEF validateIntent, Advancing
  <2>2. Placed(i) <=> i.seek # {} \/ i.queueIndex # {}
    BY DEF Placed
  <2> QED
    BY <1>1, <1>2, <2>1, <2>2 DEF PlaceAhead, Advancing
<1>6. s.transport = "PLAYING" <=> IF i.transport \cap {"play", "pause"} # {}
                                  THEN i.transport = {"play"} ELSE b.transport = "PLAYING"
  BY <1>1, <1>2 DEF TransportAhead, Unsettled, Playing, Wanted
<1>7. CASE i.volume = {}
  BY <1>2, <1>3, <1>4, <1>5, <1>6, <1>7 DEF AsAsked, VolumeAhead
<1>8. CASE i.volume # {}
  <2>1. Led(i, b.volume, s.volume)
    BY <1>1, <1>2, <1>8 DEF VolumeAhead
  <2> QED
    BY <1>3, <1>4, <1>5, <1>6, <1>8, <2>1 DEF AsAsked, Led
<1> QED
  BY <1>7, <1>8

\* An operation of the plan does its part and undoes nobody else's.
LEMMA AheadGoesOn ==
    ASSUME NEW i \in Intents, validateIntent(i), NEW b \in SpeakerType, NEW s \in SpeakerType,
           NEW q, q # <<>>, Ahead(q, i, b, s)
    PROVE  /\ Ahead(Tail(q), i, b, Applied(Head(q), i, b, s))
           /\ Applied(Head(q), i, b, s) \in SpeakerType
<1> DEFINE op == Head(q)
           t == Tail(q)
           d == Applied(op, i, b, s)
<1>1. q \in Seq(Operations) /\ Ordered(q) /\ Ops(q) \subseteq OperationsOf(i) /\ Settles(q)
  BY DEF Ahead, Fits
<1>2. /\ t \in Seq(Operations) /\ op \in Operations /\ op \in OperationsOf(i) /\ Ordered(t)
      /\ Ops(q) = Ops(t) \cup {op} /\ Ops(t) \subseteq OperationsOf(i)
      /\ op = "AddSource" => "ClearQueue" \notin Ops(t)
  BY <1>1, Advanced
<1>3. Settles(t) /\ (op \in Settling => t = <<>>)
  BY <1>1, SettlesOn
<1>4. op = "SetVolume" => i.volume # {}
  BY <1>2 DEF OperationsOf
<1>5. Moved(op, s, d)
  BY <1>2, <1>4, OperationsMove
<1>6. Made(op, i, b, s, d)
  BY <1>2, <1>4, OperationsMake
<1> HIDE DEF op, t, d
<1>7. Fits(t, i)
  BY <1>2 DEF Fits
<1>8. ContentAhead(t, i, b, d)
  <2>1. ContentAhead(q, i, b, s)
    BY DEF Ahead
  <2>2. /\ op \in {"ClearQueue", "AddSource", "SelectQueue"} => OfQueue(i)
        /\ op = "SelectStation" => i.source = {"station"}
        /\ OfQueue(i) => i.source # {} /\ i.source # {"station"}
    BY <1>2 DEF OperationsOf, OfQueue
  <2>3. /\ op \notin {"ClearQueue", "AddSource"} => d.queue = s.queue
        /\ op = "AddSource" => d.queue = "requested"
        /\ op \notin {"SelectQueue", "SelectStation"} => d.playing = s.playing
        /\ op = "SelectQueue" => d.playing = "queue"
        /\ op = "SelectStation" => d.playing = "station"
    BY <1>5, <1>6 DEF Moved, Made
  <2>4. OfQueue(i) => "SelectQueue" \in Ops(t) \/ d.playing = "queue"
    BY <1>2, <2>1, <2>2, <2>3 DEF ContentAhead
  <2>5. i.source = {"station"} => "SelectStation" \in Ops(t) \/ d.playing = "station"
    BY <1>2, <2>1, <2>2, <2>3 DEF ContentAhead
  <2>6. i.source = {} => d.playing = b.playing
    BY <1>2, <2>1, <2>2, <2>3 DEF ContentAhead
  <2>7. OfQueue(i) => \/ "AddSource" \in Ops(t)
                      \/ d.queue = "requested" /\ "ClearQueue" \notin Ops(t)
    BY <1>2, <2>1, <2>2, <2>3 DEF ContentAhead
  <2>8. ~OfQueue(i) => d.queue = b.queue
    BY <1>2, <2>1, <2>2, <2>3 DEF ContentAhead
  <2> QED
    BY <2>4, <2>5, <2>6, <2>7, <2>8 DEF ContentAhead
<1>9. PlaceAhead(t, i, b, d)
  <2>1. PlaceAhead(q, i, b, s)
    BY DEF Ahead
  <2>2. /\ op = "Seek" => i.seek # {}
        /\ op = "SelectQueueItem" => i.queueIndex # {}
        /\ op \in {"Next", "Previous"} => Advancing(i)
    BY <1>2 DEF OperationsOf, Advancing, Advances
  <2>3. /\ i.seek = {} \/ i.queueIndex = {}
        /\ Placed(i) => ~Advancing(i)
        /\ Placed(i) <=> i.seek # {} \/ i.queueIndex # {}
    BY DEF validateIntent, Advancing, Placed
  <2>4. d.moved = (CASE op \in {"Next", "Previous"} -> "skipped" [] op = "Seek" -> "sought"
                     [] op = "SelectQueueItem" -> "selected" [] OTHER -> s.moved)
    BY <1>5 DEF Moved
  <2>5. /\ op \in {"Next", "Previous"} => d.moved = "skipped"
        /\ op = "Seek" => d.moved = "sought"
        /\ op = "SelectQueueItem" => d.moved = "selected"
        /\ op \notin {"Next", "Previous", "Seek", "SelectQueueItem"} => d.moved = s.moved
    BY <2>4
  <2>6. i.seek # {} => "Seek" \in Ops(t) \/ d.moved = "sought"
    BY <1>2, <2>1, <2>2, <2>3, <2>5 DEF PlaceAhead
  <2>7. i.queueIndex # {} => "SelectQueueItem" \in Ops(t) \/ d.moved = "selected"
    BY <1>2, <2>1, <2>2, <2>3, <2>5 DEF PlaceAhead
  <2>8. Advancing(i) => {"Next", "Previous"} \cap Ops(t) # {} \/ d.moved = "skipped"
    BY <1>2, <2>1, <2>2, <2>3, <2>5 DEF PlaceAhead
  <2>9. ~Placed(i) /\ ~Advancing(i) => d.moved = b.moved
    BY <1>2, <2>1, <2>2, <2>3, <2>5 DEF PlaceAhead
  <2> QED
    BY <2>6, <2>7, <2>8, <2>9 DEF PlaceAhead
<1>10. TransportAhead(t, i, b, d)
  <2>1. TransportAhead(q, i, b, s)
    BY DEF Ahead
  <2>2. op \in Settling => (Playing(d) <=> Wanted(i, b)) /\ Unsettled(i)
    <3>1. CASE op = "Play"
      <4>1. i.transport = {"play"} /\ d.transport = "PLAYING"
        BY <1>2, <1>6, <3>1 DEF OperationsOf, Made
      <4> QED
        BY <4>1 DEF Playing, Wanted, Unsettled
    <3>2. CASE op = "Pause"
      <4>1. i.transport = {"pause"} /\ d.transport # "PLAYING"
        BY <1>2, <1>6, <3>2 DEF OperationsOf, Made
      <4> QED
        BY <4>1 DEF Playing, Wanted, Unsettled
    <3>3. CASE op = "RestoreTransport"
      <4>1. /\ i.transport = {} /\ i.source # {}
            /\ d.transport = "PLAYING" <=> b.transport = "PLAYING"
        BY <1>2, <1>6, <3>3 DEF OperationsOf, Made
      <4> QED
        BY <4>1 DEF Playing, Wanted, Unsettled
    <3> QED
      BY <3>1, <3>2, <3>3 DEF Settling
  <2>3. ~Unsettled(i) => d.transport = s.transport
    <3>1. ~Unsettled(i) => op # "Stop"
      BY <1>2 DEF OperationsOf, Unsettled
    <3>2. op \notin {"Play", "Pause", "RestoreTransport", "Stop"} => d.transport = s.transport
      BY <1>5 DEF Moved
    <3> QED
      BY <2>2, <3>1, <3>2 DEF Settling
  <2>4. op \notin Settling => (Settling \cap Ops(q) # {} => Settling \cap Ops(t) # {})
    BY <1>2
  <2> QED
    BY <1>3, <2>1, <2>2, <2>3, <2>4 DEF TransportAhead
<1>11. VolumeAhead(t, i, b, d)
  <2>1. VolumeAhead(q, i, b, s)
    BY DEF Ahead
  <2>2. d.volume = IF op = "SetVolume" THEN The(DesiredVolume(i, b.volume)) ELSE s.volume
    BY <1>6 DEF Made
  <2>3. i.volume # {} => Led(i, b.volume, The(DesiredVolume(i, b.volume)))
    BY VolumesClamped DEF SpeakerType
  <2> QED
    BY <1>2, <1>4, <2>1, <2>2, <2>3 DEF VolumeAhead
<1>12. ModeAhead(t, i, b, d)
  <2>1. ModeAhead(q, i, b, s)
    BY DEF Ahead
  <2>2. d.mode = IF op = "ApplyMode" THEN combineMode(b.mode, i.shuffle, i.repeat) ELSE s.mode
    BY <1>6 DEF Made
  <2> QED
    BY <1>2, <2>1, <2>2 DEF ModeAhead
<1>13. Silent(t, i, b, d)
  <2>1. Silent(q, i, b, s)
    BY DEF Ahead
  <2>2. op = "Stop" => ~Playing(d)
    BY <1>6 DEF Made, Playing
  <2>3. op \notin Settling \cup {"Stop"} => d.transport = s.transport
    BY <1>5 DEF Moved, Settling
  <2> QED
    BY <1>3, <2>1, <2>2, <2>3 DEF Silent, Playing, op
<1>14. d \in SpeakerType
  BY <1>5 DEF Moved
<1> QED
  BY <1>3, <1>7, <1>8, <1>9, <1>10, <1>11, <1>12, <1>13, <1>14 DEF Ahead, op, t, d

----------------------------------------------------------------------------
(* The invariant.                                                          *)

\* What was asked is frozen as it was admitted, and what is left of the plan
\* leads to it.
PlanInv ==
    /\ context \in Contexts \cup Reconfigured /\ bound \in Contexts \cup Reconfigured
    /\ planned \in SpeakerType /\ base \in SpeakerType
    /\ Idle => todo = <<>>
    /\ ~Idle => /\ request \in Intents /\ validateIntent(request)
                /\ resolved = resolvePolicy(request, bound)
                /\ Ahead(todo, resolved.intent, base, planned)

LEMMA PlanInvAtFirst == PlanInit => PlanInv
<1> SUFFICES ASSUME PlanInit PROVE PlanInv
  OBVIOUS
<1>1. planned \in SpeakerType /\ base \in SpeakerType
  BY PlanningAssumption DEF PlanInit
<1> QED
  BY <1>1 DEF PlanInit, PlanInv, Idle

LEMMA PlanInvGoesOn == PlanInv /\ [PlanNext]_planningVars => PlanInv'
<1> SUFFICES ASSUME PlanInv, [PlanNext]_planningVars PROVE PlanInv'
  OBVIOUS
<1>1. CASE Accept
  <2>1. Idle /\ base' = planned /\ planned' = planned /\ context' = context
    BY <1>1 DEF Accept
  <2>2. PICK i \in PlanRequests :
            /\ validateIntent(i)
            /\ request' = i /\ bound' = context
            /\ resolved' = resolvePolicy(i, context)
            /\ todo' = makePlan(resolved'.intent)
    BY <1>1 DEF Accept
  <2>3. i \in Intents /\ i # EmptyIntent
    BY <2>2, AdmittedIsIntent DEF validateIntent
  <2>4. context \in Contexts \cup Reconfigured /\ planned \in SpeakerType
    BY DEF PlanInv
  <2>5. resolved'.intent \in Intents /\ validateIntent(resolved'.intent)
    BY <2>2, <2>3, <2>4, FreezingIsValid
  <2>6. Ahead(todo', resolved'.intent, base', planned')
    BY <2>1, <2>2, <2>4, <2>5, AheadAtFirst
  <2> QED
    BY <2>1, <2>2, <2>3, <2>4, <2>6 DEF PlanInv, Idle
<1>2. CASE Reconfigure
  <2>1. /\ ~Idle /\ context' \in Reconfigured
        /\ UNCHANGED <<bound, request, resolved, todo, base, planned>>
    BY <1>2 DEF Reconfigure
  <2> QED
    BY <2>1 DEF PlanInv, Idle
<1>3. CASE Execute
  <2>1. /\ todo # <<>> /\ planned' = Applied(Head(todo), resolved.intent, base, planned)
        /\ todo' = Tail(todo)
        /\ UNCHANGED <<context, bound, request, resolved, base>>
    BY <1>3 DEF Execute
  <2>2. /\ ~Idle /\ request \in Intents /\ validateIntent(request) /\ base \in SpeakerType
        /\ planned \in SpeakerType /\ bound \in Contexts \cup Reconfigured
        /\ resolved = resolvePolicy(request, bound) /\ Ahead(todo, resolved.intent, base, planned)
    BY <2>1 DEF PlanInv
  <2>3. resolved.intent \in Intents /\ validateIntent(resolved.intent)
    BY <2>2, FreezingIsValid
  <2>4. Ahead(todo', resolved.intent, base, planned') /\ planned' \in SpeakerType
    BY <2>1, <2>2, <2>3, AheadGoesOn
  <2> QED
    BY <2>1, <2>2, <2>4 DEF PlanInv, Idle
<1>4. CASE UNCHANGED planningVars
  BY <1>4 DEF PlanInv, Idle, planningVars
<1> QED
  BY <1>1, <1>2, <1>3, <1>4 DEF PlanNext, Done

\* The invariant of planning, for every set of requests, configurations and
\* speakers.
THEOREM PlansLeadOn == PlanSpec => []PlanInv
  BY PlanInvAtFirst, PlanInvGoesOn, PTL DEF PlanSpec

\* The plan does to the speaker exactly what was asked, and a queue is replaced
\* in silence.
LEMMA FaithfulHere == PlanInv => PlanIsFaithful
<1> SUFFICES ASSUME PlanInv PROVE PlanIsFaithful
  OBVIOUS
<1> DEFINE i == resolved.intent
<1>1. CASE Idle
  <2>1. request = EmptyIntent /\ todo = <<>> /\ EmptyIntent.source = {}
    BY <1>1 DEF PlanInv, Idle, EmptyIntent
  <2>2. ~OfQueue(request) /\ ~Finished
    BY <1>1, <2>1 DEF OfQueue, Finished
  <2> QED
    BY <2>2 DEF PlanIsFaithful, PlanAchieves, QuietUntilReady
<1>2. CASE ~Idle
  <2>1. /\ request \in Intents /\ validateIntent(request) /\ bound \in Contexts \cup Reconfigured
        /\ resolved = resolvePolicy(request, bound) /\ Ahead(todo, i, base, planned)
    BY <1>2 DEF PlanInv
  <2>2. FrozenFrom(request, bound, i) /\ i \in Intents /\ validateIntent(i)
    BY <2>1, FreezingIsValid
  <2>3. /\ i.source = request.source /\ i.transport = request.transport
        /\ i.volume = request.volume /\ i.seek = request.seek /\ i.queueIndex = request.queueIndex
    BY <2>2 DEF FrozenFrom
  <2> HIDE DEF i
  <2>4. PlanAchieves
    <3> SUFFICES ASSUME todo = <<>> PROVE AsAsked(request, base, planned)
      BY DEF PlanAchieves, Finished
    <3>1. AsAsked(i, base, planned)
      BY <2>1, <2>2, AheadAtLast
    <3> QED
      BY <2>3, <3>1 DEF AsAsked, OfQueue
  <2>5. QuietUntilReady
    <3>1. OfQueue(request) <=> OfQueue(i)
      BY <2>3 DEF OfQueue
    <3>2. Silent(todo, i, base, planned)
      BY <2>1 DEF Ahead
    <3> QED
      BY <3>1, <3>2 DEF QuietUntilReady, Silent, Playing, Plays
  <2> QED
    BY <2>4, <2>5 DEF PlanIsFaithful
<1> QED
  BY <1>1, <1>2

\* The plan of every request, on every speaker, does to it exactly what was
\* asked: content, place, transport and volume, and nothing it does not
\* mention.  While it replaces a queue, nothing plays.
THEOREM PlansAreFaithful == PlanSpec => []PlanIsFaithful
  BY PlansLeadOn, FaithfulHere, PTL

----------------------------------------------------------------------------
(* Modes.                                                                  *)

\* The room's configured mode goes before the device's.
LEMMA ConfiguredFirst ==
    ASSUME NEW f
    PROVE  LET kind == The(request.source)
               room == bound.rooms[bound.target][kind][f]
               device == bound.device[kind][f]
           IN  Configured(f) = IF bound.target \in DOMAIN bound.rooms
                               THEN IF room # {} THEN room ELSE IF device # {} THEN device ELSE {}
                               ELSE {}
<1> DEFINE kind == The(request.source)
           room == bound.rooms[bound.target]
           device == bound.device
           layers == IF bound.target \in DOMAIN bound.rooms THEN <<room, device>> ELSE <<>>
           set == {l \in DOMAIN layers : layers[l][kind][f] # {}}
           first == CHOOSE l \in set : \A m \in set : l <= m
<1>1. Configured(f) = IF set = {} THEN {} ELSE layers[first][kind][f]
  BY DEF Configured
<1>2. CASE bound.target \notin DOMAIN bound.rooms
  <2>1. layers = <<>>
    BY <1>2
  <2>2. DOMAIN layers = {}
    BY <2>1
  <2>3. set = {}
    BY <2>2
  <2> QED
    BY <1>1, <1>2, <2>3
<1>3. CASE bound.target \in DOMAIN bound.rooms
  <2>1. layers = <<room, device>>
    BY <1>3
  <2> HIDE DEF room, device, kind
  <2>2. DOMAIN layers = {1, 2} /\ layers[1] = room /\ layers[2] = device
    BY <2>1
  <2> HIDE DEF layers
  <2>3. CASE room[kind][f] # {}
    <3>1. 1 \in set /\ \A m \in set : 1 <= m
      BY <2>2, <2>3
    <3>2. \A l \in set : (\A m \in set : l <= m) => l = 1
      BY <2>2, <3>1
    <3>3. first = 1
      BY <3>1, <3>2
    <3> QED
      BY <1>1, <1>3, <2>2, <2>3, <3>1, <3>3 DEF room, device, kind
  <2>4. CASE room[kind][f] = {} /\ device[kind][f] # {}
    <3>1. set = {2}
      BY <2>2, <2>4
    <3>2. first = 2
      BY <3>1
    <3> QED
      BY <1>1, <1>3, <2>2, <2>4, <3>1, <3>2 DEF room, device, kind
  <2>5. CASE room[kind][f] = {} /\ device[kind][f] = {}
    <3>1. set = {}
      BY <2>2, <2>5
    <3> QED
      BY <1>1, <1>3, <2>5, <3>1 DEF room, device, kind
  <2> QED
    BY <2>3, <2>4, <2>5
<1> QED
  BY <1>2, <1>3

\* A frozen request has the modes that are expected of it.
LEMMA ExpectedIsFrozen ==
    ASSUME PlanInv, ~Idle
    PROVE  /\ Expected("shuffle") = resolved.intent.shuffle
           /\ Expected("repeat") = resolved.intent.repeat
<1> DEFINE i == resolved.intent
           kind == The(request.source)
           room == RoomModes(request, bound)
           device == DeviceModes(request, bound)
           usual == DefaultModes(request)
<1>1. /\ request \in Intents /\ validateIntent(request) /\ bound \in Contexts \cup Reconfigured
      /\ resolved = resolvePolicy(request, bound)
  BY DEF PlanInv
<1>2. FrozenFrom(request, bound, i) /\ i \in Intents /\ validateIntent(i)
  BY <1>1, FreezingIsValid
<1>3. /\ i.shuffle = First(request.shuffle, room.shuffle, device.shuffle, usual.shuffle)
      /\ i.repeat = First(request.repeat, room.repeat, device.repeat, usual.repeat)
  BY <1>2 DEF FrozenFrom
<1> HIDE DEF i
<1>4. CASE request.source = {}
  <2>1. room = NoModes /\ device = NoModes /\ usual = NoModes /\ ~OfQueue(request)
    BY <1>4 DEF RoomModes, DeviceModes, DefaultModes, OfQueue
  <2> HIDE DEF room, device, usual
  <2> QED
    BY <1>3, <2>1 DEF Expected, Asked, First, NoModes, i
<1>5. CASE request.source = {"station"}
  <2>1. ~OfQueue(request) /\ i.source = {"station"}
    BY <1>2, <1>5 DEF OfQueue, FrozenFrom
  <2>2. \A r : r.source = {"station"} /\ validateIntent(r) =>
                  [shuffle |-> r.shuffle, repeat |-> r.repeat] = NoModes
    BY DEF validateIntent, validateSourceModes
  <2>3. i.shuffle = {} /\ i.repeat = {} /\ request.shuffle = {} /\ request.repeat = {}
    BY <1>1, <1>2, <1>5, <2>1, <2>2 DEF NoModes
  <2> QED
    BY <2>1, <2>3 DEF Expected, Asked, i
<1>6. CASE OfQueue(request)
  <2>1. kind \in {"album", "playlist", "track"} /\ request.source = {kind} /\ request.source # {}
    BY <1>1, <1>6, Optionals DEF OfQueue, Intents, SourceKinds
  <2>2. /\ usual.shuffle = Usual("shuffle") /\ usual.repeat = Usual("repeat")
        /\ usual.repeat # {}
    <3>1. usual = sourceDefaults(kind)
      BY <2>1 DEF DefaultModes
    <3>2. kind = "album" <=> request.source = {"album"}
      BY <2>1
    <3> HIDE DEF kind, usual
    <3> QED
      BY <2>1, <3>1, <3>2 DEF sourceDefaults, Usual
  <2>3. CASE bound.target \in DOMAIN bound.rooms
    <3>1. /\ bound.device \in Policies /\ bound.rooms[bound.target] \in Policies
      BY <1>1, <2>3, PlanningAssumption
    <3>2. /\ room = bound.rooms[bound.target][kind]
          /\ device = bound.device[kind]
      BY <2>1, <2>3, <3>1 DEF RoomModes, DeviceModes, sourcePolicyModes, Policies
    <3>3. /\ Configured("shuffle") = IF room.shuffle # {} THEN room.shuffle
                                     ELSE IF device.shuffle # {} THEN device.shuffle ELSE {}
          /\ Configured("repeat") = IF room.repeat # {} THEN room.repeat
                                    ELSE IF device.repeat # {} THEN device.repeat ELSE {}
      BY <2>3, <3>2, ConfiguredFirst
    <3> HIDE DEF room, device, usual, kind
    <3>4. Expected("shuffle") = i.shuffle
      BY <1>3, <1>6, <2>2, <3>3 DEF Expected, Asked, First
    <3>5. Expected("repeat") = i.repeat
      BY <1>3, <1>6, <2>2, <3>3 DEF Expected, Asked, First
    <3> QED
      BY <3>4, <3>5 DEF i
  <2>4. CASE bound.target \notin DOMAIN bound.rooms
    <3>1. room = NoModes /\ device = NoModes
      BY <2>4 DEF RoomModes, DeviceModes
    <3>2. Configured("shuffle") = {} /\ Configured("repeat") = {}
      BY <2>4, ConfiguredFirst
    <3> HIDE DEF room, device, usual, kind
    <3>3. Expected("shuffle") = i.shuffle
      BY <1>3, <1>6, <2>2, <3>1, <3>2 DEF Expected, Asked, First, NoModes
    <3>4. Expected("repeat") = i.repeat
      BY <1>3, <1>6, <2>2, <3>1, <3>2 DEF Expected, Asked, First, NoModes
    <3> QED
      BY <3>3, <3>4 DEF i
  <2> QED
    BY <2>3, <2>4
<1> QED
  BY <1>4, <1>5, <1>6 DEF OfQueue

LEMMA PolicyHere == PlanInv => PolicyAsAdmitted
<1> SUFFICES ASSUME PlanInv PROVE PolicyAsAdmitted
  OBVIOUS
<1> DEFINE i == resolved.intent
<1>1. CASE Idle
  BY <1>1 DEF PolicyAsAdmitted, ModesAsConfigured, FrozenStaysValid, Finished
<1>2. CASE ~Idle
  <2>1. /\ request \in Intents /\ validateIntent(request) /\ bound \in Contexts \cup Reconfigured
        /\ resolved = resolvePolicy(request, bound) /\ Ahead(todo, i, base, planned)
        /\ base \in SpeakerType
    BY <1>2 DEF PlanInv
  <2>2. i \in Intents /\ validateIntent(i)
    BY <2>1, FreezingIsValid
  <2>3. Expected("shuffle") = i.shuffle /\ Expected("repeat") = i.repeat
    BY <1>2, ExpectedIsFrozen
  <2> HIDE DEF i
  <2>4. /\ i.shuffle \in Optional(BOOLEAN) /\ i.repeat \in Optional(Repeats)
        /\ base.mode \in PlayModes
    BY <2>1, <2>2 DEF Intents, SpeakerType
  <2> DEFINE combined == combineMode(base.mode, i.shuffle, i.repeat)
             old == ObservedMode(base.mode)
             new == ObservedMode(planned.mode)
  <2>5. ASSUME todo = <<>>
        PROVE  /\ new.shuffle = IF i.shuffle # {} THEN The(i.shuffle) ELSE old.shuffle
               /\ new.repeat = IF i.repeat # {} THEN The(i.repeat) ELSE old.repeat
    <3>1. ModeAhead(<<>>, i, base, planned) /\ Ops(<<>>) = {}
      BY <2>1, <2>5 DEF Ahead, Ops
    <3>2. CASE planned.mode = combined
      BY <2>4, <3>2, ModesMean
    <3>3. CASE "ApplyMode" \notin OperationsOf(i) /\ planned.mode = base.mode
      <4>1. ~OfQueue(i) /\ (i.source = {} => i.shuffle \cup i.repeat = {})
        BY <3>3 DEF OperationsOf, Operations
      <4>2. i.source = {"station"} => i.shuffle = {} /\ i.repeat = {}
        <5>1. i.source = {"station"} => [shuffle |-> i.shuffle, repeat |-> i.repeat] = NoModes
          BY <2>2 DEF validateIntent, validateSourceModes
        <5> QED
          BY <5>1 DEF NoModes
      <4>3. i.shuffle = {} /\ i.repeat = {}
        BY <4>1, <4>2 DEF OfQueue
      <4> QED
        BY <3>3, <4>3
    <3> QED
      BY <3>1, <3>2, <3>3 DEF ModeAhead
  <2>6. ModesAsConfigured
    <3> SUFFICES ASSUME todo = <<>>, NEW f \in {"shuffle", "repeat"}
                 PROVE  new[f] = IF Expected(f) # {} THEN The(Expected(f)) ELSE old[f]
      BY DEF ModesAsConfigured, Finished
    <3> HIDE DEF old, new
    <3> QED
      BY <2>3, <2>5
  <2>7. FrozenStaysValid
    BY <2>2 DEF FrozenStaysValid, i
  <2> QED
    BY <2>6, <2>7 DEF PolicyAsAdmitted
<1> QED
  BY <1>1, <1>2

\* Every request ends in the modes it asked for or that were configured when it
\* was admitted, whatever is configured later; and no policy that a
\* configuration can hold makes a valid request invalid.
THEOREM PoliciesAreKept == PlanSpec => []PolicyAsAdmitted
  BY PlansLeadOn, PolicyHere, PTL

------------------------------------------------------------------------------
(* A room's session.                                                       *)

AtMostOne(S) == \A x, y \in S : x = y

Statuses == Outcome!Outcomes \cup {"idle", "pending"}
AppType ==
    [seen : SUBSET SpeakerType, stale : BOOLEAN, status : Statuses, recovery : BOOLEAN]
SonosType == [prepared : BOOLEAN, base : SUBSET SpeakerType, proven : BOOLEAN]

\* Where a call may stand: before its plan, in it, and after it.
Executing == {"check", "dispatch", "send", "wait", "mute", "setMute", "sendMute"}
Based == Executing \cup {"prepareCheck", "verify"}
Ending == {"settle", "conclude", "finish"}
Commands == Based \cup {"toggleRead", "prepareRead"} \cup Ending
Pcs == Commands \cup {"idle", "reconcile"}

JobType ==
    [kind : {"none", "read", "toggle", "submit"}, pc : Pcs, intent : Intents,
     todo : Seq(Operations), completed : BOOLEAN, result : {"ok", "failed", "uncertain"},
     cancelled : BOOLEAN, preempted : BOOLEAN, late : BOOLEAN, again : BOOLEAN]
HistType ==
    [start : SpeakerType, effect : {"none", "some", "unknown"}, touched : BOOLEAN,
     movedOn : Int, strays : Nat, slipped : BOOLEAN]

Typed ==
    /\ spk \in SpeakerType /\ spk.content >= 0
    /\ app \in AppType /\ retained \in AppType
    /\ sonos \in SonosType /\ job \in JobType /\ hist \in HistType
    /\ AtMostOne(app.seen) /\ AtMostOne(retained.seen) /\ AtMostOne(sonos.base)

PlanOK ==
    /\ job.kind = "none" <=> job.pc = "idle"
    /\ job.kind = "none" => job = NoJob
    /\ job.kind = "read" => job.pc \in {"reconcile", "finish"} /\ job.intent = EmptyIntent
    /\ job.kind \in Mutations => job.pc \in Commands /\ ~job.preempted
    /\ job.pc = "toggleRead" => job.kind = "toggle"
    /\ job.pc \in Based \cup {"prepareRead"} => validateIntent(job.intent) /\ job.result = "ok"
    /\ job.pc \in Based => sonos.base # {}
    /\ job.pc \in Executing \cup {"prepareCheck"} =>
        /\ job.todo # <<>> /\ Ordered(job.todo)
        /\ Ops(job.todo) \subseteq OperationsOf(job.intent)
    /\ job.pc \in Executing /\ ~job.completed => job.todo = makePlan(job.intent)
    /\ job.pc = "prepareCheck" => job.todo = makePlan(job.intent) /\ ~job.completed
    /\ job.pc \in {"toggleRead", "prepareRead"} => ~job.completed /\ job.result = "ok"
    /\ job.pc = "wait" => Head(job.todo) \in {"ClearQueue", "AddSource"}
    /\ job.pc \in {"mute", "setMute", "sendMute"} =>
        Head(job.todo) = "ApplyMode" /\ job.intent.source # {} /\ job.completed
    /\ job.pc = "verify" => job.todo = <<>>
    /\ job.pc = "settle" => job.result # "ok"
    /\ sonos.prepared => sonos.base # {}

\* What an ended command says of itself.
Honest(status) ==
    /\ status \in Outcome!Outcomes
    /\ status = "failed" => hist.effect = "none"
    /\ hist.effect = "unknown" => status = "uncertain"

EffectOK ==
    /\ job.kind \in Mutations =>
        /\ ~retained.recovery
        /\ job.pc # "finish" => ~app.recovery
        /\ job.pc \in {"toggleRead", "prepareRead", "prepareCheck"} => hist.effect = "none"
        /\ job.pc = "toggleRead" => app.status = retained.status
        /\ job.pc \in {"check", "dispatch", "send"} =>
            hist.effect # "unknown" /\ (hist.effect = "some" => job.completed)
        /\ job.pc \in {"wait", "mute", "setMute", "sendMute", "verify"} => hist.effect # "unknown"
        /\ job.pc = "verify" => job.completed
        /\ job.pc \in {"settle", "conclude"} =>
            /\ hist.effect = "unknown" => job.result = "uncertain"
            /\ job.result = "failed" /\ ~job.completed => hist.effect = "none"
        /\ job.pc = "finish" =>
            \/ Honest(app.status) /\ app.recovery = (app.status = "uncertain")
            \/ hist.effect = "none" /\ app.status = retained.status /\ ~app.recovery
    /\ job.kind = "read" =>
        app.status = retained.status /\ app.recovery \in {FALSE, retained.recovery}

\* The last move within the content was made in the content there is.
PlaceOK ==
    /\ spk.moved = "sought" => hist.movedOn = spk.content
    /\ job.pc \in Based =>
        Base.content >= 0 \/ (job.pc \in {"prepareCheck", "check"} /\ ~spk.here)
    /\ job.pc \in {"conclude", "finish"} /\ job.result = "ok" /\ job.intent.seek # {} =>
        hist.movedOn = Base.content

\* How far a plan has brought a speaker that nobody else touches.
Progress(i, b, s, q) ==
    /\ OfQueue(i) => /\ "AddSource" \in Ops(q) \/ s.queue = "requested"
                     /\ "AddSource" \notin Ops(q) => "ClearQueue" \notin Ops(q)
    /\ ~OfQueue(i) => s.queue = b.queue
    /\ ~Placed(i) /\ ~Advancing(i) => s.moved = b.moved
    /\ Advancing(i) => {"Next", "Previous"} \cap Ops(q) # {} \/ s.moved = "skipped"
    /\ i.source = {} => s.playing = b.playing
    /\ i.source = {} /\ ~Placed(i) /\ i.transport \cap {"play", "pause"} = {} =>
        s.transport = b.transport

OppositeOf(transport) ==
    [EmptyIntent EXCEPT !.transport = {IF transport = "PLAYING" THEN "pause" ELSE "play"}]

UntouchedOK ==
    job.kind \in Mutations /\ ~hist.touched =>
        /\ spk.here /\ ~spk.grouped /\ spk.mute = hist.start.mute
        /\ job.pc \in {"toggleRead", "prepareRead", "prepareCheck"} => spk = hist.start
        /\ job.kind = "toggle" /\ job.pc \in Based \cup {"prepareRead"} =>
            job.intent = OppositeOf(hist.start.transport)
        /\ job.pc \in Based => Base = hist.start
        /\ job.pc \in Executing \cup {"verify"} =>
            Progress(job.intent, hist.start, spk, job.todo)
        /\ job.pc = "wait" /\ Head(job.todo) = "AddSource" => spk.queue = "requested"
        /\ job.pc \in {"conclude", "finish"} /\ job.result = "ok" =>
            /\ AsAsked(job.intent, hist.start, spk)
            /\ job.kind = "toggle" =>
                (spk.transport = "PLAYING") = (hist.start.transport # "PLAYING")

EInv == Typed /\ PlanOK /\ EffectOK /\ PlaceOK /\ UntouchedOK

----------------------------------------------------------------------------
(* The ways a job goes on.                                                 *)

\* Both records of a job but for where it stands.
SameCall(j, k) ==
    /\ k.kind = j.kind /\ k.intent = j.intent /\ k.cancelled = j.cancelled
    /\ k.preempted = j.preempted /\ k.late = j.late

LEMMA Went ==
    ASSUME Typed, NEW pc \in Pcs, Goto(pc)
    PROVE  /\ job' \in JobType /\ SameCall(job, job') /\ job'.pc = pc
           /\ job'.todo = job.todo /\ job'.completed = job.completed /\ job'.result = job.result
BY DEF Typed, Goto, JobType, SameCall

LEMMA Failed ==
    ASSUME Typed, NEW uncertain \in BOOLEAN, Fails(uncertain)
    PROVE  /\ job' \in JobType /\ SameCall(job, job') /\ job'.pc = "settle"
           /\ job'.todo = job.todo /\ job'.completed = job.completed
           /\ job'.result = IF uncertain THEN "uncertain" ELSE "failed"
<1>1. "settle" \in Pcs
  BY DEF Pcs, Commands, Ending
<1>2. PICK r \in {"failed", "uncertain"} :
          /\ r = IF uncertain THEN "uncertain" ELSE "failed"
          /\ job' = [job EXCEPT !.pc = "settle", !.result = r]
  BY DEF Fails
<1> QED
  BY <1>1, <1>2 DEF Typed, JobType, SameCall

LEMMA GaveUp ==
    ASSUME Typed, GiveUp
    PROVE  /\ job' \in JobType /\ SameCall(job, job') /\ job'.pc = "finish"
           /\ job'.todo = job.todo /\ job'.completed = job.completed /\ job'.result = "failed"
<1>1. "finish" \in Pcs
  BY DEF Pcs, Commands, Ending
<1> QED
  BY <1>1 DEF GiveUp, Typed, JobType, SameCall

LEMMA Proceeded ==
    ASSUME Typed, PlanOK, job.pc \in Executing, Proceed
    PROVE  /\ job' \in JobType /\ SameCall(job, job')
           /\ job'.todo = Tail(job.todo) /\ job'.completed /\ job'.result = job.result
           /\ job'.pc = IF job'.todo = <<>> THEN "verify" ELSE "check"
           /\ Fits(job'.todo, job.intent)
           /\ Ops(job.todo) = Ops(job'.todo) \cup {Head(job.todo)}
           /\ Head(job.todo) = "AddSource" => "ClearQueue" \notin Ops(job'.todo)
<1>1. /\ job.todo \in Seq(Operations) /\ job.todo # <<>> /\ Ordered(job.todo)
      /\ Ops(job.todo) \subseteq OperationsOf(job.intent)
  BY DEF Typed, JobType, PlanOK
<1> DEFINE rest == Tail(job.todo)
<1>2. /\ rest \in Seq(Operations) /\ Ordered(rest)
      /\ Len(job.todo) = 1 <=> rest = <<>>
      /\ Ops(job.todo) = Ops(rest) \cup {Head(job.todo)}
      /\ Head(job.todo) = "AddSource" => "ClearQueue" \notin Ops(rest)
  BY <1>1, Advanced
<1> HIDE DEF rest
<1>3. PICK pc \in {"verify", "check"} :
          /\ pc = IF rest = <<>> THEN "verify" ELSE "check"
          /\ job' = [job EXCEPT !.todo = rest, !.completed = TRUE, !.pc = pc]
  BY <1>2 DEF Proceed, rest
<1>4. pc \in Pcs
  BY <1>3 DEF Pcs, Commands, Based, Executing
<1>5. /\ job' \in JobType /\ SameCall(job, job') /\ job'.completed /\ job'.result = job.result
      /\ job'.todo = rest /\ job'.pc = pc
  BY <1>2, <1>3, <1>4 DEF Typed, JobType, SameCall
<1> QED
  BY <1>1, <1>2, <1>3, <1>5 DEF Fits, rest

LEMMA Repeated ==
    ASSUME Typed, Again
    PROVE  \/ /\ job' \in JobType /\ SameCall(job, job') /\ job'.pc = job.pc
              /\ job'.todo = job.todo /\ job'.completed = job.completed
              /\ job'.result = job.result
           \/ Fails(TRUE)
<1>1. job.again \in BOOLEAN
  BY DEF Typed, JobType
<1>2. CASE job' = [job EXCEPT !.again = ~@]
  BY <1>1, <1>2 DEF Typed, JobType, SameCall
<1> QED
  BY <1>2 DEF Again

\* What a read reports, and the speaker a plan was made for.
LEMMA Views ==
    ASSUME NEW s \in SpeakerType
    PROVE  /\ View(s) \in SpeakerType
           /\ View(s).content = IF s.here THEN s.content ELSE -1
           /\ View(s).moved = s.moved /\ View(s).transport = s.transport
           /\ View(s).playing = s.playing /\ View(s).queue = s.queue /\ View(s).mute = s.mute
           /\ s.here => View(s).volume = s.volume
           /\ s.here /\ ~s.grouped => View(s) = s
<1> DEFINE content == IF s.here THEN s.content ELSE -1
           volume == IF s.here THEN s.volume ELSE 0
           d == [s EXCEPT !.grouped = FALSE, !.here = TRUE, !.content = content,
                          !.volume = volume]
<1>1. View(s) = d
  BY DEF View
<1>2. content \in Int /\ volume \in 0 .. 100
  BY DEF SpeakerType
<1>3. s.here => content = s.content /\ volume = s.volume
  OBVIOUS
<1>4. content = IF s.here THEN s.content ELSE -1
  OBVIOUS
<1> HIDE DEF content, volume
<1>5. /\ d \in SpeakerType /\ d.content = content /\ d.volume = volume /\ d.moved = s.moved
      /\ d.transport = s.transport /\ d.playing = s.playing /\ d.queue = s.queue
      /\ d.mute = s.mute
  BY <1>2 DEF SpeakerType
<1>6. s.here /\ ~s.grouped => d = s
  BY <1>3 DEF SpeakerType
<1> HIDE DEF d
<1> QED
  BY <1>1, <1>3, <1>4, <1>5, <1>6

LEMMA Bases ==
    ASSUME Typed, sonos.base # {}
    PROVE  Base \in SpeakerType /\ sonos.base = {Base}
<1>1. PICK s \in sonos.base : TRUE
  OBVIOUS
<1>2. s \in SpeakerType /\ sonos.base = {s}
  BY <1>1 DEF Typed, SonosType, AtMostOne
<1> QED
  BY <1>2 DEF Base, The

\* The operation that is sent: the last one of a plan may be Play or Pause.
LEMMA Operates ==
    ASSUME Typed, PlanOK, job.pc \in Executing
    PROVE  /\ Op \in Operations /\ Head(job.todo) \in OperationsOf(job.intent)
           /\ Op = Head(job.todo) \/ (Head(job.todo) = "RestoreTransport" /\ Op \in {"Play", "Pause"})
           /\ Op = "SetVolume" => job.intent.volume # {}
<1>1. Head(job.todo) \in Ops(job.todo) /\ Ops(job.todo) \subseteq OperationsOf(job.intent)
  BY Advanced DEF Typed, JobType, PlanOK
<1>2. "Play" \in Operations /\ "Pause" \in Operations
  BY DEF Operations
<1> QED
  BY <1>1, <1>2 DEF Op, OperationsOf

----------------------------------------------------------------------------
(* The steps of a call.                                                    *)

\* Everything but the job and what Application holds is as it was, and the
\* request is for the same baseline.
Rests ==
    /\ UNCHANGED <<spk, hist, retained>>
    /\ sonos' \in SonosType /\ sonos'.base = sonos.base
    /\ sonos'.prepared => sonos.prepared

\* What Application holds changes by a read at most.
Reread ==
    app' \in AppType /\ AtMostOne(app'.seen) /\ app'.status = app.status
      /\ app'.recovery = app.recovery

LEMMA Reads ==
    ASSUME Typed,
           \/ UNCHANGED app
           \/ app' = [app EXCEPT !.stale = TRUE]
           \/ app' = Observed(app, View(spk))
    PROVE  Reread
<1>1. CASE UNCHANGED app
  BY <1>1 DEF Typed, Reread
<1>2. CASE app' = [app EXCEPT !.stale = TRUE]
  BY <1>2 DEF Typed, Reread, AppType
<1>3. CASE app' = Observed(app, View(spk))
  <2>1. PICK v \in SpeakerType : app' = [app EXCEPT !.seen = {v}, !.stale = FALSE]
    BY <1>3, Views DEF Typed, Observed
  <2>2. {v} \in SUBSET SpeakerType /\ AtMostOne({v})
    BY DEF AtMostOne
  <2> QED
    BY <2>1, <2>2 DEF Typed, Reread, AppType
<1> QED
  BY <1>1, <1>2, <1>3

\* An exchange that fails once the plan is under way.
LEMMA FailedKeeps ==
    ASSUME EInv, NEW uncertain \in BOOLEAN, Fails(uncertain), Rests, Reread,
           job.pc \in Based \cup {"prepareRead"},
           ~uncertain => job.completed \/ hist.effect = "none"
    PROVE  EInv'
<1>1. /\ job' \in JobType /\ SameCall(job, job') /\ job'.pc = "settle"
      /\ job'.todo = job.todo /\ job'.completed = job.completed
      /\ job'.result = IF uncertain THEN "uncertain" ELSE "failed"
  BY Failed DEF EInv
<1>2. job.kind \in Mutations /\ hist.effect # "unknown"
  BY DEF EInv, PlanOK, EffectOK, Typed, JobType, Mutations, Based, Executing, HistType, Pcs
<1>3. Typed'
  BY <1>1 DEF EInv, Typed, Rests, Reread, AtMostOne
<1>4. PlanOK'
  BY <1>1, <1>2 DEF EInv, PlanOK, Rests, SameCall, Based, Executing, Commands, Ending, Mutations
<1>5. EffectOK'
  BY <1>1, <1>2 DEF EInv, EffectOK, Rests, Reread, SameCall, Based, Executing, Mutations, Honest
<1>6. PlaceOK'
  BY <1>1 DEF EInv, PlaceOK, Rests, Based, Executing, SameCall, Base
<1>7. UntouchedOK'
  BY <1>1 DEF EInv, UntouchedOK, Rests, Based, Executing, SameCall, Base
<1> QED
  BY <1>3, <1>4, <1>5, <1>6, <1>7 DEF EInv, Rests

\* An operation that is done, or need not be.
LEMMA ProceededKeeps ==
    ASSUME EInv, Proceed, Rests, UNCHANGED app, job.pc \in Executing,
           job.pc = "check" =>
               Base.content >= 0 /\ Head(job.todo) \notin {"AddSource", "Next", "Previous"},
           job.pc \notin {"dispatch", "send"}
    PROVE  EInv'
<1>1. /\ job' \in JobType /\ SameCall(job, job')
      /\ job'.todo = Tail(job.todo) /\ job'.completed /\ job'.result = job.result
      /\ job'.pc = IF job'.todo = <<>> THEN "verify" ELSE "check"
      /\ Fits(job'.todo, job.intent)
      /\ Ops(job.todo) = Ops(job'.todo) \cup {Head(job.todo)}
      /\ Head(job.todo) = "AddSource" => "ClearQueue" \notin Ops(job'.todo)
  BY Proceeded DEF EInv
<1>2. job.kind \in Mutations /\ hist.effect # "unknown"
  BY DEF EInv, PlanOK, EffectOK, Typed, JobType, Mutations, Based, Executing, HistType, Pcs
<1>3. Typed'
  BY <1>1 DEF EInv, Typed, Rests, AtMostOne
<1>4. PlanOK'
  BY <1>1, <1>2 DEF EInv, PlanOK, Rests, SameCall, Based, Executing, Commands, Ending, Mutations, Fits
<1>5. EffectOK'
  BY <1>1, <1>2 DEF EInv, EffectOK, Rests, SameCall, Based, Executing, Mutations
<1>6. PlaceOK'
  BY <1>1 DEF EInv, PlaceOK, Rests, Based, Executing, SameCall, Base
<1>7. UntouchedOK'
  BY <1>1 DEF EInv, UntouchedOK, Rests, Based, Executing, SameCall, Base, Progress, PlanOK
<1> QED
  BY <1>3, <1>4, <1>5, <1>6, <1>7 DEF EInv, Rests

\* A poll that is repeated.
LEMMA AgainKeeps ==
    ASSUME EInv, Again, Rests, job.pc \in {"wait", "verify"}, Reread
    PROVE  EInv'
<1>1. CASE Fails(TRUE)
  BY <1>1, FailedKeeps DEF Based, Executing
<1>2. CASE /\ job' \in JobType /\ SameCall(job, job') /\ job'.pc = job.pc
           /\ job'.todo = job.todo /\ job'.completed = job.completed
           /\ job'.result = job.result
  <2>1. Typed'
    BY <1>2 DEF EInv, Typed, Rests, Reread, AtMostOne
  <2>2. PlanOK'
    BY <1>2 DEF EInv, PlanOK, Rests, SameCall, Based, Executing, Commands, Ending, Mutations, Typed, JobType
  <2>3. EffectOK'
    BY <1>2 DEF EInv, EffectOK, Rests, Reread, SameCall, Mutations
  <2>4. PlaceOK'
    BY <1>2 DEF EInv, PlaceOK, Rests, Based, Executing, SameCall, Base
  <2>5. UntouchedOK'
    BY <1>2 DEF EInv, UntouchedOK, Rests, Based, Executing, SameCall, Base
  <2> QED
    BY <2>1, <2>2, <2>3, <2>4, <2>5 DEF EInv, Rests
<1> QED
  BY <1>1, <1>2, Repeated DEF EInv

LEMMA CheckStep ==
    ASSUME EInv, Check PROVE EInv'
<1>1. /\ job.pc = "check" /\ sonos.base # {} /\ sonos \in SonosType /\ job.kind \in Mutations
      /\ UNCHANGED <<spk, app, hist, retained>>
  BY DEF EInv, PlanOK, Typed, JobType, Mutations, Based, Executing, Check, At, Keep
<1>2. /\ Op = Head(job.todo) \/ (Head(job.todo) = "RestoreTransport" /\ Op \in {"Play", "Pause"})
  BY <1>1, Operates DEF EInv, Executing
<1>3. CASE /\ Identified /\ sonos' = [sonos EXCEPT !.proven = TRUE]
           /\ IF NothingToDo THEN Proceed ELSE Goto("dispatch")
  <2>1. Rests
    BY <1>1, <1>3 DEF Rests, SonosType
  <2>2. Base.content >= 0
    BY <1>1, <1>3 DEF EInv, PlaceOK, Identified, Based, Executing
  <2>3. CASE NothingToDo /\ Proceed
    <3>1. Head(job.todo) \notin {"AddSource", "Next", "Previous"}
      BY <1>2, <2>3 DEF NothingToDo
    <3> QED
      BY <1>1, <2>1, <2>2, <2>3, <3>1, ProceededKeeps DEF Executing
  <2>4. CASE Goto("dispatch")
    <3>1. /\ job' \in JobType /\ SameCall(job, job') /\ job'.pc = "dispatch"
          /\ job'.todo = job.todo /\ job'.completed = job.completed /\ job'.result = job.result
      BY <2>4, Went DEF EInv, Pcs, Commands, Based, Executing
    <3>2. Typed'
      BY <1>1, <2>1, <3>1 DEF EInv, Typed, Rests, AtMostOne
    <3>3. PlanOK'
      BY <1>1, <2>1, <3>1
         DEF EInv, PlanOK, Rests, SameCall, Based, Executing, Commands, Ending, Mutations
    <3>4. EffectOK'
      BY <1>1, <2>1, <3>1 DEF EInv, EffectOK, Rests, SameCall, Mutations
    <3>5. PlaceOK'
      BY <1>1, <2>1, <2>2, <3>1 DEF EInv, PlaceOK, Rests, Based, Executing, SameCall, Base
    <3>6. UntouchedOK'
      BY <1>1, <2>1, <3>1 DEF EInv, UntouchedOK, Rests, Based, Executing, SameCall, Base
    <3> QED
      BY <1>1, <3>2, <3>3, <3>4, <3>5, <3>6 DEF EInv
  <2> QED
    BY <1>3, <2>3, <2>4
<1>4. CASE sonos' \in {sonos, [sonos EXCEPT !.proven = FALSE]} /\ Fails(FALSE)
  <2>1. Rests
    BY <1>1, <1>4 DEF Rests, SonosType
  <2>2. job.completed \/ hist.effect = "none"
    BY <1>1 DEF EInv, EffectOK, Typed, HistType
  <2> QED
    BY <1>1, <1>4, <2>1, <2>2, FailedKeeps, Reads DEF EInv, Based, Executing
<1> QED
  BY <1>3, <1>4 DEF Check

LEMMA WaitStep ==
    ASSUME EInv, Wait PROVE EInv'
<1>1. job.pc = "wait" /\ UNCHANGED app /\ Rests
  BY DEF Wait, At, Keep, Rests, EInv, Typed
<1>2. CASE Proceed
  BY <1>1, <1>2, ProceededKeeps DEF Executing
<1>3. CASE Fails(TRUE)
  BY <1>1, <1>3, FailedKeeps, Reads DEF EInv, Based, Executing
<1>4. CASE Again
  <2>1. Reread
    BY <1>1, Reads DEF EInv
  <2> QED
    BY <1>1, <1>4, <2>1, AgainKeeps
<1> QED
  BY <1>2, <1>3, <1>4 DEF Wait

LEMMA MuteStep ==
    ASSUME EInv, Mute PROVE EInv'
<1>1. job.pc = "mute" /\ job.completed /\ UNCHANGED app /\ Rests
  BY DEF Mute, At, Keep, Rests, EInv, Typed, PlanOK
<1>2. CASE Proceed
  BY <1>1, <1>2, ProceededKeeps DEF Executing
<1>3. CASE Fails(FALSE)
  BY <1>1, <1>3, FailedKeeps, Reads DEF EInv, Based, Executing
<1>4. CASE Goto("setMute")
  <2>1. /\ job' \in JobType /\ SameCall(job, job') /\ job'.pc = "setMute"
        /\ job'.todo = job.todo /\ job'.completed = job.completed /\ job'.result = job.result
    BY <1>4, Went DEF EInv, Pcs, Commands, Based, Executing
  <2>2. Typed'
    BY <1>1, <2>1 DEF EInv, Typed, Rests, AtMostOne
  <2>3. PlanOK'
    BY <1>1, <2>1
       DEF EInv, PlanOK, Rests, SameCall, Based, Executing, Commands, Ending, Mutations
  <2>4. EffectOK'
    BY <1>1, <2>1 DEF EInv, EffectOK, Rests, SameCall, Mutations
  <2>5. PlaceOK'
    BY <1>1, <2>1 DEF EInv, PlaceOK, Rests, Based, Executing, SameCall, Base
  <2>6. UntouchedOK'
    BY <1>1, <2>1 DEF EInv, UntouchedOK, Rests, Based, Executing, SameCall, Base
  <2> QED
    BY <1>1, <2>2, <2>3, <2>4, <2>5, <2>6 DEF EInv, Rests
<1> QED
  BY <1>2, <1>3, <1>4 DEF Mute

LEMMA GuardStep ==
    ASSUME EInv, Guard PROVE EInv'
<1>1. /\ job.pc \in {"dispatch", "setMute"} /\ UNCHANGED app /\ Rests
      /\ job.kind \in Mutations
  BY DEF Guard, At, Keep, Rests, EInv, Typed, JobType, PlanOK, Mutations, Based, Executing
<1>2. CASE Fails(FALSE)
  <2>1. job.completed \/ hist.effect = "none"
    BY <1>1 DEF EInv, PlanOK, EffectOK, Typed, HistType
  <2> QED
    BY <1>1, <1>2, <2>1, FailedKeeps, Reads DEF EInv, Based, Executing
<1>3. CASE Goto(IF At("dispatch") THEN "send" ELSE "sendMute")
  <2>1. PICK pc \in Sending :
            Goto(pc) /\ (pc = "send" <=> job.pc = "dispatch")
    BY <1>1, <1>3 DEF At, Sending
  <2>2. /\ job' \in JobType /\ SameCall(job, job') /\ job'.pc = pc
        /\ job'.todo = job.todo /\ job'.completed = job.completed /\ job'.result = job.result
    BY <2>1, Went DEF EInv, Sending, Pcs, Commands, Based, Executing
  <2>3. Typed'
    BY <1>1, <2>2 DEF EInv, Typed, Rests, AtMostOne
  <2>4. PlanOK'
    BY <1>1, <2>1, <2>2
       DEF EInv, PlanOK, Rests, SameCall, Based, Executing, Commands, Ending, Mutations, Sending
  <2>5. EffectOK'
    BY <1>1, <2>1, <2>2 DEF EInv, EffectOK, Rests, SameCall, Mutations, Sending
  <2>6. PlaceOK'
    BY <1>1, <2>1, <2>2 DEF EInv, PlaceOK, Rests, Based, Executing, SameCall, Base, Sending
  <2>7. UntouchedOK'
    BY <1>1, <2>1, <2>2 DEF EInv, UntouchedOK, Rests, Based, Executing, SameCall, Base, Sending
  <2> QED
    BY <2>3, <2>4, <2>5, <2>6, <2>7 DEF EInv
<1> QED
  BY <1>2, <1>3 DEF Guard

\* How far an operation brings a speaker, and the plan that is left.
LEMMA ProgressMade ==
    ASSUME NEW i \in Intents, validateIntent(i), NEW b \in SpeakerType, NEW s \in SpeakerType,
           NEW d, NEW whole, NEW rest, NEW h \in OperationsOf(i), NEW op,
           op = h \/ (h = "RestoreTransport" /\ op \in {"Play", "Pause"}),
           Moved(op, s, d), Progress(i, b, s, whole), Ops(whole) = Ops(rest) \cup {h}
    PROVE  /\ Progress(i, b, d, whole)
           /\ h \notin {"AddSource", "ClearQueue"} => Progress(i, b, d, rest)
<1>1. /\ op \in {"ClearQueue", "AddSource", "SelectQueue"} => OfQueue(i)
      /\ op \in {"Stop", "SelectStation"} => i.source # {}
      /\ op = "RestoreTransport" => i.source # {}
      /\ op = "Play" => i.transport = {"play"} \/ i.source # {}
      /\ op = "Pause" => i.transport = {"pause"} \/ i.source # {}
      /\ op = "Next" => i.transport = {"next"}
      /\ op = "Previous" => i.transport = {"previous"}
      /\ op = "Seek" => i.seek # {}
      /\ op = "SelectQueueItem" => i.queueIndex # {}
  BY DEF OperationsOf
<1>2. /\ op \in {"ClearQueue", "AddSource"} <=> h \in {"ClearQueue", "AddSource"}
      /\ op = "ClearQueue" <=> h = "ClearQueue"
      /\ op \in {"Next", "Previous"} <=> h \in {"Next", "Previous"}
  OBVIOUS
<1>3. ~(Placed(i) /\ Advancing(i)) /\ (OfQueue(i) => i.source # {})
  BY DEF validateIntent, Placed, Advancing, OfQueue
<1>4. /\ op \in {"Next", "Previous"} => Advancing(i)
      /\ op \in {"Seek", "SelectQueueItem"} => Placed(i)
  BY <1>1 DEF Advancing, Advances, Placed
<1>5. ASSUME NEW q, q = whole \/ (q = rest /\ h \notin {"AddSource", "ClearQueue"})
      PROVE  Progress(i, b, d, q)
  <2>1. "AddSource" \in Ops(q) <=> "AddSource" \in Ops(whole)
    BY <1>5
  <2>2. "ClearQueue" \in Ops(q) <=> "ClearQueue" \in Ops(whole)
    BY <1>5
  <2>3. OfQueue(i) => /\ "AddSource" \in Ops(q) \/ d.queue = "requested"
                      /\ "AddSource" \notin Ops(q) => "ClearQueue" \notin Ops(q)
    <3>1. op = "ClearQueue" => "ClearQueue" \in Ops(whole)
      BY <1>2
    <3> QED
      BY <2>1, <2>2, <3>1 DEF Moved, Progress
  <2>4. ~OfQueue(i) => d.queue = b.queue
    BY <1>1 DEF Moved, Progress
  <2>5. ~Placed(i) /\ ~Advancing(i) => d.moved = b.moved
    BY <1>4 DEF Moved, Progress
  <2>6. Advancing(i) => {"Next", "Previous"} \cap Ops(q) # {} \/ d.moved = "skipped"
    <3>1. Advancing(i) => op \notin {"Seek", "SelectQueueItem"}
      BY <1>3, <1>4
    <3>2. h \notin {"Next", "Previous"} /\ {"Next", "Previous"} \cap Ops(whole) # {}
            => {"Next", "Previous"} \cap Ops(q) # {}
      BY <1>5
    <3> QED
      BY <1>2, <3>1, <3>2 DEF Moved, Progress
  <2>7. i.source = {} => d.playing = b.playing
    BY <1>1, <1>3 DEF Moved, Progress
  <2>8. i.source = {} /\ ~Placed(i) /\ i.transport \cap {"play", "pause"} = {} =>
            d.transport = b.transport
    <3>1. i.source = {} /\ i.transport \cap {"play", "pause"} = {} =>
              op \notin {"Play", "Pause", "RestoreTransport", "Stop"}
      BY <1>1
    <3> QED
      BY <3>1 DEF Moved, Progress
  <2> QED
    BY <2>3, <2>4, <2>5, <2>6, <2>7, <2>8 DEF Progress
<1> QED
  BY <1>5

LEMMA Noted ==
    ASSUME Typed, NEW effect \in {"some", "unknown"}, hist' = Note(effect)
    PROVE  /\ hist' \in HistType /\ hist'.start = hist.start /\ hist'.touched = hist.touched
           /\ hist'.effect = effect
           /\ hist'.movedOn = IF Op \in {"Seek", "SelectQueueItem"} THEN spk.content
                              ELSE hist.movedOn
           /\ hist'.strays = (IF spk.here THEN hist.strays ELSE hist.strays + 1)
           /\ hist'.slipped = hist.slipped
<1>1. PICK n \in Int, k \in Nat :
          /\ n = IF Op \in {"Seek", "SelectQueueItem"} THEN spk.content ELSE hist.movedOn
          /\ k = IF spk.here THEN hist.strays ELSE hist.strays + 1
          /\ hist' = [hist EXCEPT !.effect = effect, !.strays = k, !.movedOn = n]
  <2> DEFINE n == IF Op \in {"Seek", "SelectQueueItem"} THEN spk.content ELSE hist.movedOn
             k == IF spk.here THEN hist.strays ELSE hist.strays + 1
  <2>1. n \in Int /\ k \in Nat
    BY DEF Typed, SpeakerType, HistType
  <2> QED
    BY <2>1 DEF Note
<1> QED
  BY <1>1 DEF Typed, HistType

LEMMA DispatchStep ==
    ASSUME EInv, Dispatch PROVE EInv'
<1>1. /\ job.pc = "send" /\ job.kind \in Mutations /\ UNCHANGED <<app, sonos, retained>>
      /\ job.intent \in Intents /\ validateIntent(job.intent) /\ spk \in SpeakerType
  BY DEF EInv, PlanOK, Typed, JobType, Mutations, Based, Executing, Dispatch, At, Keep
<1>2. /\ Op \in Operations /\ Head(job.todo) \in OperationsOf(job.intent)
      /\ Op = Head(job.todo) \/ (Head(job.todo) = "RestoreTransport" /\ Op \in {"Play", "Pause"})
      /\ Op = "SetVolume" => job.intent.volume # {}
  BY <1>1, Operates DEF EInv, Executing
<1>3. Base \in SpeakerType
  BY <1>1, Bases DEF EInv, PlanOK, Based, Executing
<1>4. CASE UNCHANGED <<spk, hist>> /\ Fails(FALSE)
  <2>1. Rests
    BY <1>1, <1>4 DEF Rests, EInv, Typed
  <2>2. job.completed \/ hist.effect = "none"
    BY <1>1 DEF EInv, EffectOK, Typed, HistType
  <2> QED
    BY <1>1, <1>4, <2>1, <2>2, FailedKeeps, Reads DEF EInv, Based, Executing
<1> DEFINE d == Applied(Op, job.intent, Base, spk)
<1>5. Moved(Op, spk, d)
  BY <1>1, <1>2, <1>3, OperationsMove
<1>6. /\ Carried = (IF spk.here THEN d ELSE spk)
      /\ ~hist.touched => spk.here
  BY <1>1 DEF Carried, Sent, EInv, UntouchedOK
<1> HIDE DEF d
<1>7. CASE /\ Open /\ spk' \in {spk, Carried} /\ hist' = Note("unknown")
           /\ Fails(LostIsUncertain)
  <2>1. spk' = spk \/ spk' = d
    BY <1>6, <1>7
  <2>2. /\ hist' \in HistType /\ hist'.start = hist.start /\ hist'.touched = hist.touched
        /\ hist'.effect = "unknown"
        /\ hist'.movedOn = IF Op \in {"Seek", "SelectQueueItem"} THEN spk.content
                           ELSE hist.movedOn
    BY <1>7, Noted DEF EInv
  <2>3. /\ job' \in JobType /\ SameCall(job, job') /\ job'.pc = "settle"
        /\ job'.result = "uncertain"
    BY <1>7, Failed DEF EInv, LostIsUncertain
  <2>4. /\ spk' \in SpeakerType /\ spk'.content = spk.content /\ spk'.here = spk.here /\ spk'.mute = spk.mute
        /\ spk'.grouped = spk.grouped
        /\ spk'.moved = "sought" => spk.moved = "sought" \/ Op = "Seek"
    BY <1>1, <1>5, <2>1 DEF Moved
  <2>5. Typed'
    BY <1>1, <2>2, <2>3, <2>4 DEF EInv, Typed, AtMostOne
  <2>6. PlanOK'
    BY <1>1, <2>3 DEF EInv, PlanOK, SameCall, Based, Executing, Commands, Ending, Mutations
  <2>7. EffectOK'
    BY <1>1, <2>2, <2>3 DEF EInv, EffectOK, SameCall, Mutations
  <2>8. PlaceOK'
    BY <1>1, <2>2, <2>3, <2>4 DEF EInv, PlaceOK, Based, Executing
  <2>9. UntouchedOK'
    BY <1>1, <1>6, <2>2, <2>3, <2>4 DEF EInv, UntouchedOK, Based, Executing, SameCall
  <2> QED
    BY <2>2, <2>5, <2>6, <2>7, <2>8, <2>9 DEF EInv
<1>8. CASE /\ Open /\ spk' = Carried /\ hist' = Note("some")
           /\ IF AfterReply = "proceed" THEN Proceed ELSE Goto(AfterReply)
  <2>1. (spk.here /\ spk' = d) \/ (~spk.here /\ spk' = spk)
    BY <1>6, <1>8
  <2>2. /\ hist' \in HistType /\ hist'.start = hist.start /\ hist'.touched = hist.touched
        /\ hist'.effect = "some"
        /\ hist'.movedOn = IF Op \in {"Seek", "SelectQueueItem"} THEN spk.content
                           ELSE hist.movedOn
    BY <1>8, Noted DEF EInv
  <2>3. /\ spk' \in SpeakerType /\ spk'.content = spk.content /\ spk'.here = spk.here /\ spk'.mute = spk.mute
        /\ spk'.grouped = spk.grouped
        /\ spk'.moved = "sought" =>
               spk.moved = "sought" \/ Op = "Seek"
        /\ Op = "AddSource" /\ spk.here => spk'.queue = "requested"
    BY <1>1, <1>5, <2>1 DEF Moved
  <2>4. job.todo \in Seq(Operations) /\ job.todo # <<>> /\ Ordered(job.todo)
    BY <1>1 DEF EInv, Typed, JobType, PlanOK, Executing
  <2>5. Ops(job.todo) = Ops(Tail(job.todo)) \cup {Head(job.todo)}
    BY <2>4, Advanced
  <2>6. ASSUME ~hist.touched
        PROVE  /\ Progress(job.intent, hist.start, spk', job.todo)
               /\ Head(job.todo) \notin {"AddSource", "ClearQueue"}
                    => Progress(job.intent, hist.start, spk', Tail(job.todo))
    <3>1. Progress(job.intent, hist.start, spk, job.todo) /\ hist.start \in SpeakerType
      BY <1>1, <2>6 DEF EInv, UntouchedOK, Executing, Typed, HistType
    <3>2. spk' = d
      BY <1>6, <2>1, <2>6
    <3> QED
      BY <1>1, <1>2, <1>5, <2>5, <3>1, <3>2, ProgressMade
  <2>7. AfterReply = "proceed" => Head(job.todo) \notin {"AddSource", "ClearQueue"}
    BY <1>2 DEF AfterReply
  <2>8. CASE AfterReply = "proceed" /\ Proceed
    <3>1. /\ job' \in JobType /\ SameCall(job, job')
          /\ job'.todo = Tail(job.todo) /\ job'.completed /\ job'.result = job.result
          /\ job'.pc = IF job'.todo = <<>> THEN "verify" ELSE "check"
          /\ Fits(job'.todo, job.intent)
      BY <1>1, <2>8, Proceeded DEF EInv, Executing
    <3>2. job'.pc \in {"verify", "check"} /\ (job'.pc = "verify" <=> job'.todo = <<>>)
      BY <3>1
    <3>5. Typed'
      BY <1>1, <2>2, <2>3, <3>1 DEF EInv, Typed, AtMostOne
    <3>6. PlanOK'
      BY <1>1, <3>1, <3>2
         DEF EInv, PlanOK, SameCall, Based, Executing, Commands, Ending, Mutations, Fits
    <3>7. EffectOK'
      BY <1>1, <2>2, <3>1, <3>2 DEF EInv, EffectOK, SameCall, Mutations
    <3>8. PlaceOK'
      BY <1>1, <2>2, <2>3, <3>2 DEF EInv, PlaceOK, Based, Executing, Base
    <3>9. UntouchedOK'
      BY <1>1, <2>2, <2>3, <2>6, <2>7, <2>8, <3>1, <3>2
         DEF EInv, UntouchedOK, Based, Executing, SameCall, Base
    <3> QED
      BY <2>2, <3>5, <3>6, <3>7, <3>8, <3>9 DEF EInv
  <2>9. CASE AfterReply # "proceed" /\ Goto(AfterReply)
    <3>1. /\ AfterReply \in {"wait", "mute"}
          /\ AfterReply = "wait" => Op \in {"AddSource", "ClearQueue"} /\ Op = Head(job.todo)
          /\ AfterReply = "mute" => Head(job.todo) = "ApplyMode" /\ job.intent.source # {}
      BY <1>2, <2>9 DEF AfterReply
    <3>2. AfterReply \in Pcs
      BY <3>1 DEF Pcs, Commands, Based, Executing
    <3>3. /\ job' \in JobType /\ SameCall(job, job') /\ job'.pc = AfterReply
          /\ job'.todo = job.todo /\ job'.completed = job.completed /\ job'.result = job.result
      BY <2>9, <3>2, Went DEF EInv
    <3>4. job'.pc = "mute" => job.completed
      <4>1. SUFFICES ASSUME job'.pc = "mute", ~job.completed PROVE FALSE
        OBVIOUS
      <4>2. job.todo = makePlan(job.intent)
        BY <1>1, <4>1 DEF EInv, PlanOK, Executing
      <4> QED
        BY <1>1, <3>1, <3>3, <4>1, <4>2, Plans
    <3>5. Typed'
      BY <1>1, <2>2, <2>3, <3>3 DEF EInv, Typed, AtMostOne
    <3>6. PlanOK'
      BY <1>1, <3>1, <3>3, <3>4
         DEF EInv, PlanOK, SameCall, Based, Executing, Commands, Ending, Mutations
    <3>7. EffectOK'
      BY <1>1, <2>2, <3>1, <3>3 DEF EInv, EffectOK, SameCall, Mutations
    <3>8. PlaceOK'
      BY <1>1, <2>2, <2>3, <3>1, <3>3 DEF EInv, PlaceOK, Based, Executing, Base
    <3>9. UntouchedOK'
      BY <1>1, <1>6, <2>2, <2>3, <2>6, <3>1, <3>3
         DEF EInv, UntouchedOK, Based, Executing, SameCall, Base
    <3> QED
      BY <2>2, <3>5, <3>6, <3>7, <3>8, <3>9 DEF EInv
  <2> QED
    BY <1>8, <2>8, <2>9
<1> QED
  BY <1>4, <1>7, <1>8 DEF Dispatch

LEMMA SetMuteStep ==
    ASSUME EInv, SetMute PROVE EInv'
<1>1. /\ job.pc = "sendMute" /\ job.completed /\ job.kind \in Mutations /\ Base \in SpeakerType
      /\ UNCHANGED <<app, sonos, retained>> /\ Head(job.todo) = "ApplyMode"
  BY Bases DEF SetMute, At, Keep, EInv, Typed, JobType, PlanOK, Mutations, Based, Executing
<1>2. CASE UNCHANGED <<spk, hist>> /\ Fails(FALSE)
  <2>1. Rests
    BY <1>1, <1>2 DEF Rests, EInv, Typed
  <2> QED
    BY <1>1, <1>2, <2>1, FailedKeeps, Reads DEF EInv, Based, Executing
<1> DEFINE d == [spk EXCEPT !.mute = Base.mute]
<1>3. SameBut("mute", spk, d) /\ d.mute = Base.mute
  BY <1>1 DEF SameBut, EInv, Typed, SpeakerType
<1>4. ~hist.touched => Base.mute = hist.start.mute /\ spk.mute = hist.start.mute
  BY <1>1 DEF EInv, UntouchedOK, Based, Executing
<1>7. /\ Unmuted = (IF spk.here THEN d ELSE spk)
      /\ ~hist.touched => spk.here
  BY <1>1 DEF Unmuted, Sent, EInv, UntouchedOK
<1>8. Op = "ApplyMode"
  BY <1>1 DEF Op
<1> HIDE DEF d
<1>5. CASE /\ Open /\ spk' \in {spk, Unmuted} /\ hist' = Note("unknown")
           /\ Fails(LostIsUncertain)
  <2>1. /\ spk' \in SpeakerType /\ spk'.content = spk.content /\ spk'.here = spk.here
        /\ spk'.grouped = spk.grouped /\ spk'.moved = spk.moved
        /\ ~hist.touched => spk'.mute = hist.start.mute
    BY <1>3, <1>4, <1>5, <1>7 DEF SameBut, EInv, Typed
  <2>2. /\ hist' \in HistType /\ hist'.start = hist.start /\ hist'.touched = hist.touched
        /\ hist'.effect = "unknown"
        /\ hist'.movedOn = hist.movedOn
    BY <1>5, <1>8, Noted DEF EInv
  <2>3. /\ job' \in JobType /\ SameCall(job, job') /\ job'.pc = "settle"
        /\ job'.result = "uncertain"
    BY <1>5, Failed DEF EInv, LostIsUncertain
  <2>5. Typed'
    BY <1>1, <2>1, <2>2, <2>3 DEF EInv, Typed, AtMostOne
  <2>6. PlanOK'
    BY <1>1, <2>3 DEF EInv, PlanOK, SameCall, Based, Executing, Commands, Ending, Mutations
  <2>7. EffectOK'
    BY <1>1, <2>2, <2>3 DEF EInv, EffectOK, SameCall, Mutations
  <2>8. PlaceOK'
    BY <1>1, <2>1, <2>2, <2>3 DEF EInv, PlaceOK, Based, Executing
  <2>9. UntouchedOK'
    BY <1>1, <2>1, <2>2, <2>3 DEF EInv, UntouchedOK, Based, Executing, SameCall
  <2> QED
    BY <2>2, <2>5, <2>6, <2>7, <2>8, <2>9 DEF EInv
<1>6. CASE Open /\ spk' = Unmuted /\ Proceed /\ hist' = Note("some")
  <2>8. /\ spk' \in SpeakerType /\ SameBut("mute", spk, spk')
        /\ ~hist.touched => spk'.mute = Base.mute
    <3>1. SameBut("mute", spk, spk) /\ spk \in SpeakerType
      BY DEF SameBut, EInv, Typed
    <3> QED
      BY <1>3, <1>6, <1>7, <3>1 DEF SameBut
  <2>9. /\ hist' \in HistType /\ hist'.start = hist.start /\ hist'.touched = hist.touched
        /\ hist'.effect = "some" /\ hist'.movedOn = hist.movedOn
    BY <1>6, <1>8, Noted DEF EInv
  <2>1. /\ job' \in JobType /\ SameCall(job, job')
        /\ job'.todo = Tail(job.todo) /\ job'.completed /\ job'.result = job.result
        /\ job'.pc = IF job'.todo = <<>> THEN "verify" ELSE "check"
        /\ Fits(job'.todo, job.intent)
        /\ Ops(job.todo) = Ops(job'.todo) \cup {"ApplyMode"}
    BY <1>1, <1>6, Proceeded DEF EInv, Executing
  <2>2. job'.pc \in {"verify", "check"} /\ (job'.pc = "verify" <=> job'.todo = <<>>)
    BY <2>1
  <2>3. Typed'
    BY <1>1, <2>1, <2>8, <2>9 DEF EInv, Typed, AtMostOne, SameBut
  <2>4. PlanOK'
    BY <1>1, <2>1, <2>2
       DEF EInv, PlanOK, SameCall, Based, Executing, Commands, Ending, Mutations, Fits
  <2>5. EffectOK'
    BY <1>1, <2>1, <2>2, <2>9 DEF EInv, EffectOK, SameCall, Mutations
  <2>6. PlaceOK'
    BY <1>1, <2>2, <2>8, <2>9 DEF EInv, PlaceOK, Based, Executing, Base, SameBut
  <2>7. UntouchedOK'
    <3>1. ~hist.touched => Progress(job.intent, hist.start, spk', job'.todo)
      BY <1>1, <2>1, <2>8 DEF EInv, UntouchedOK, Progress, SameBut, Executing
    <3> QED
      BY <1>1, <1>4, <2>1, <2>2, <2>8, <2>9, <3>1
         DEF EInv, UntouchedOK, Based, Executing, SameCall, Base, SameBut
  <2> QED
    BY <2>3, <2>4, <2>5, <2>6, <2>7 DEF EInv
<1> QED
  BY <1>2, <1>5, <1>6 DEF SetMute, d

\* A speaker that nobody else touched, and that matches, is as asked.
LEMMA Verified ==
    ASSUME NEW i \in Intents, validateIntent(i), NEW b \in SpeakerType, NEW s \in SpeakerType,
           Progress(i, b, s, <<>>), Matches(i, b, s)
    PROVE  AsAsked(i, b, s)
<1>1. Ops(<<>>) = {}
  BY DEF Ops
<1>2. /\ Placed(i) => i.source = {} /\ ~Advancing(i)
      /\ Advancing(i) => i.source = {}
      /\ OfQueue(i) => i.source # {}
  BY DEF validateIntent, Placed, Advancing, OfQueue
<1>3. i.transport \in {{}, {"play"}, {"pause"}, {"next"}, {"previous"}}
  BY DEF Intents, Optional, Transports
<1>4. Advancing(i) <=> i.transport \in {{"next"}, {"previous"}}
  BY <1>3 DEF Advancing, Advances
<1>5. i.transport \cap {"play", "pause"} # {} <=> i.transport \in {{"play"}, {"pause"}}
  BY <1>3
<1>6. Placed(i) <=> i.seek # {} \/ i.queueIndex # {}
  BY DEF Placed
<1>7. s.playing = (IF OfQueue(i) THEN "queue" ELSE IF i.source # {} THEN "station" ELSE b.playing)
  BY <1>2 DEF Matches, MatchesSettings, Progress
<1>8. s.queue = (IF OfQueue(i) THEN "requested" ELSE b.queue)
  BY <1>1 DEF Progress
<1>9. s.moved = (CASE i.seek # {} -> "sought" [] i.queueIndex # {} -> "selected"
                   [] i.transport \cap Advances # {} -> "skipped" [] OTHER -> b.moved)
  <2>1. i.seek = {} \/ i.queueIndex = {}
    BY DEF validateIntent
  <2>2. CASE i.seek # {}
    BY <1>2, <1>6, <2>1, <2>2 DEF Matches, MatchesPlace, Advancing
  <2>3. CASE i.queueIndex # {}
    BY <1>2, <1>6, <2>1, <2>3 DEF Matches, MatchesPlace, Advancing
  <2>4. CASE i.seek = {} /\ i.queueIndex = {} /\ Advancing(i)
    BY <1>1, <2>4 DEF Progress, Advancing
  <2>5. CASE i.seek = {} /\ i.queueIndex = {} /\ ~Advancing(i)
    BY <1>6, <2>5 DEF Progress, Advancing
  <2> QED
    BY <1>6, <2>2, <2>3, <2>4, <2>5, Zenon
<1>10. (s.transport = "PLAYING") <=> IF i.transport \cap {"play", "pause"} # {}
                                     THEN i.transport = {"play"} ELSE b.transport = "PLAYING"
  <2>1. CASE i.transport \in {{"play"}, {"pause"}}
    BY <1>5, <2>1 DEF Matches, MatchesTransport
  <2>2. CASE i.transport = {} /\ (Placed(i) \/ i.source # {})
    BY <1>5, <2>2 DEF Matches, MatchesTransport
  <2>3. CASE i.transport \notin {{"play"}, {"pause"}} /\ i.source = {} /\ ~Placed(i)
    BY <1>5, <2>3 DEF Progress
  <2> QED
    BY <1>2, <1>3, <1>4, <2>1, <2>2, <2>3
<1>11. IF i.volume = {} THEN s.volume = b.volume
       ELSE \E v \in i.volume :
                LET to == IF v.relative THEN b.volume + v.value ELSE v.value
                IN  /\ s.volume \in 0 .. 100
                    /\ \/ s.volume = to
                       \/ s.volume = 0 /\ to < 0
                       \/ s.volume = 100 /\ to > 100
  <2>1. CASE i.volume = {}
    BY <2>1 DEF Matches, MatchesSettings
  <2>2. CASE i.volume # {}
    <3>1. s.volume = The(DesiredVolume(i, b.volume)) /\ b.volume \in 0 .. 100
      BY <2>2 DEF Matches, MatchesSettings, SpeakerType
    <3>2. Led(i, b.volume, The(DesiredVolume(i, b.volume)))
      BY <2>2, <3>1, VolumesClamped
    <3>3. Led(i, b.volume, s.volume)
      BY <3>1, <3>2
    <3> QED
      BY <2>2, <3>3 DEF Led
  <2> QED
    BY <2>1, <2>2
<1> QED
  BY <1>7, <1>8, <1>9, <1>10, <1>11 DEF AsAsked

LEMMA VerifyStep ==
    ASSUME EInv, Verify PROVE EInv'
<1>1. /\ job.pc = "verify" /\ Rests /\ job.todo = <<>> /\ job.kind \in Mutations
      /\ Base \in SpeakerType /\ job.intent \in Intents /\ validateIntent(job.intent)
      /\ job.result = "ok" /\ spk \in SpeakerType
  BY Bases DEF Verify, At, Keep, Rests, EInv, Typed, JobType, PlanOK, Mutations, Based, Executing
<1>2. Reread
  BY Reads DEF Verify, EInv
<1>3. CASE Fails(TRUE)
  BY <1>1, <1>2, <1>3, FailedKeeps DEF Based
<1>4. CASE Again
  BY <1>1, <1>2, <1>4, AgainKeeps
<1>5. CASE Matches(job.intent, Base, View(spk)) /\ Goto("conclude")
  <2>1. /\ job' \in JobType /\ SameCall(job, job') /\ job'.pc = "conclude"
        /\ job'.todo = job.todo /\ job'.completed = job.completed /\ job'.result = job.result
    BY <1>5, Went DEF EInv, Pcs, Commands, Ending
  <2>2. Typed'
    BY <1>1, <1>2, <2>1 DEF EInv, Typed, Rests, Reread, AtMostOne
  <2>3. PlanOK'
    BY <1>1, <2>1 DEF EInv, PlanOK, Rests, SameCall, Based, Executing, Commands, Ending, Mutations
  <2>4. EffectOK'
    BY <1>1, <1>2, <2>1 DEF EInv, EffectOK, Rests, Reread, SameCall, Mutations
  <2>5. PlaceOK'
    <3>1. job.intent.seek # {} => hist.movedOn = Base.content
      <4>1. Base.content >= 0 /\ (spk.moved = "sought" => hist.movedOn = spk.content)
        BY <1>1 DEF EInv, PlaceOK, Based
      <4>2. job.intent.seek # {} => View(spk).moved = "sought" /\ View(spk).content = Base.content
        BY <1>5 DEF Matches, MatchesPlace
      <4>3. View(spk).moved = spk.moved /\ View(spk).content = IF spk.here THEN spk.content ELSE -1
        BY <1>1, Views
      <4> QED
        BY <4>1, <4>2, <4>3
    <3> QED
      BY <1>1, <2>1, <3>1 DEF EInv, PlaceOK, Rests, Based, Executing, SameCall, Base
  <2>6. UntouchedOK'
    <3>1. ASSUME ~hist.touched
          PROVE  /\ AsAsked(job.intent, hist.start, spk)
                 /\ job.kind = "toggle" =>
                        (spk.transport = "PLAYING") = (hist.start.transport # "PLAYING")
      <4>1. /\ spk.here /\ ~spk.grouped /\ Base = hist.start
            /\ Progress(job.intent, hist.start, spk, <<>>)
            /\ job.kind = "toggle" => job.intent = OppositeOf(hist.start.transport)
        BY <1>1, <3>1 DEF EInv, UntouchedOK, Based
      <4>2. View(spk) = spk
        BY <1>1, <4>1, Views
      <4>3. Matches(job.intent, hist.start, spk)
        BY <1>5, <4>1, <4>2
      <4>4. AsAsked(job.intent, hist.start, spk)
        BY <1>1, <4>1, <4>3, Verified
      <4>5. job.kind = "toggle" => job.intent.transport =
                {IF hist.start.transport = "PLAYING" THEN "pause" ELSE "play"}
        BY <4>1 DEF OppositeOf, EmptyIntent
      <4> QED
        BY <4>3, <4>4, <4>5 DEF Matches, MatchesTransport
    <3> QED
      BY <1>1, <2>1, <3>1 DEF EInv, UntouchedOK, Rests, Based, Executing, SameCall, Base
  <2> QED
    BY <1>1, <2>2, <2>3, <2>4, <2>5, <2>6 DEF EInv, Rests
<1> QED
  BY <1>3, <1>4, <1>5 DEF Verify

LEMMA SettleStep ==
    ASSUME EInv, Settle PROVE EInv'
<1>1. job.pc = "settle" /\ Rests /\ Goto("conclude")
  BY DEF Settle, At, Keep, Rests, EInv, Typed
<1>2. Reread
  BY Reads DEF Settle, EInv
<1>3. /\ job' \in JobType /\ SameCall(job, job') /\ job'.pc = "conclude"
      /\ job'.todo = job.todo /\ job'.completed = job.completed /\ job'.result = job.result
  BY <1>1, Went DEF EInv, Pcs, Commands, Ending
<1>4. Typed'
  BY <1>1, <1>2, <1>3 DEF EInv, Typed, Rests, Reread, AtMostOne
<1>5. PlanOK'
  BY <1>1, <1>3 DEF EInv, PlanOK, Rests, SameCall, Based, Executing, Commands, Ending, Mutations
<1>6. EffectOK'
  BY <1>1, <1>2, <1>3 DEF EInv, EffectOK, Rests, Reread, SameCall, Mutations, PlanOK
<1>7. PlaceOK'
  BY <1>1, <1>3 DEF EInv, PlaceOK, Rests, Based, Executing, SameCall, Base, PlanOK
<1>8. UntouchedOK'
  BY <1>1, <1>3 DEF EInv, UntouchedOK, Rests, Based, Executing, SameCall, Base, PlanOK
<1> QED
  BY <1>1, <1>4, <1>5, <1>6, <1>7, <1>8 DEF EInv, Rests

LEMMA ConcludeStep ==
    ASSUME EInv, Conclude PROVE EInv'
<1>1. /\ job.pc = "conclude" /\ Rests /\ Goto("finish") /\ job.kind \in Mutations
      /\ job.result \in {"ok", "failed", "uncertain"} /\ job.completed \in BOOLEAN
  BY DEF Conclude, At, Keep, Rests, EInv, Typed, JobType, PlanOK, Mutations
<1>2. /\ job' \in JobType /\ SameCall(job, job') /\ job'.pc = "finish"
      /\ job'.todo = job.todo /\ job'.completed = job.completed /\ job'.result = job.result
  BY <1>1, Went DEF EInv, Pcs, Commands, Ending
<1>3. /\ Status \in Outcome!Outcomes
      /\ Status = "failed" => job.result = "failed" /\ ~job.completed
      /\ Status = "uncertain" <=> job.result = "uncertain"
  BY <1>1 DEF Status, Outcome!Outcomes
<1>4. /\ app' \in AppType /\ app'.seen = app.seen /\ app'.status = Status
      /\ app'.recovery = (Status = "uncertain")
  <2>1. PICK t \in Statuses, r \in BOOLEAN :
            t = Status /\ r = (Status = "uncertain")
              /\ app' = [app EXCEPT !.status = t, !.recovery = r]
    BY <1>3 DEF Conclude, Statuses
  <2> QED
    BY <2>1 DEF EInv, Typed, AppType
<1>5. Typed'
  BY <1>1, <1>2, <1>4 DEF EInv, Typed, Rests, AtMostOne
<1>6. PlanOK'
  BY <1>1, <1>2 DEF EInv, PlanOK, Rests, SameCall, Based, Executing, Commands, Ending, Mutations
<1>7. EffectOK'
  <2>1. Honest(Status)
    BY <1>1, <1>3 DEF Honest, EInv, EffectOK
  <2> QED
    BY <1>1, <1>2, <1>4, <2>1 DEF EInv, EffectOK, Rests, SameCall, Mutations, Honest
<1>8. PlaceOK'
  BY <1>1, <1>2 DEF EInv, PlaceOK, Rests, Based, Executing, SameCall, Base
<1>9. UntouchedOK'
  BY <1>1, <1>2 DEF EInv, UntouchedOK, Rests, Based, Executing, SameCall, Base
<1> QED
  BY <1>1, <1>5, <1>6, <1>7, <1>8, <1>9 DEF EInv, Rests

LEMMA Discards ==
    ASSUME Typed, Finish
    PROVE  app' \in AppType /\ AtMostOne(app'.seen)
<1>1. \A m \in BOOLEAN : Discarded(m) \in AppType /\ Discarded(m).seen = retained.seen
  BY DEF Typed, AppType, Discarded, Statuses, Outcome!Outcomes
<1>2. Discarded(job.kind \in Mutations) \in {Discarded(TRUE), Discarded(FALSE)}
  <2>1. CASE job.kind \in Mutations
    BY <2>1 DEF Discarded
  <2>2. CASE job.kind \notin Mutations
    BY <2>2 DEF Discarded
  <2> QED
    BY <2>1, <2>2
<1>3. app' \in {Discarded(TRUE), Discarded(FALSE), retained, app}
  BY <1>2 DEF Finish
<1> QED
  BY <1>1, <1>3 DEF Typed

LEMMA NoJobTyped == NoJob \in JobType
<1>1. EmptyIntent \in Intents
  BY DEF EmptyIntent, Intents, Optional
<1> QED
  BY <1>1 DEF NoJob, JobType, Pcs

LEMMA FinishStep ==
    ASSUME EInv, Finish PROVE EInv'
<1>1. /\ job' = NoJob /\ retained' = app' /\ UNCHANGED <<spk, sonos, hist>>
      /\ app' \in AppType /\ AtMostOne(app'.seen)
  BY Discards DEF Finish, EInv
<1>2. NoJob \in JobType /\ NoJob.kind = "none" /\ NoJob.pc = "idle" /\ NoJob.todo = <<>>
  BY NoJobTyped DEF NoJob
<1>3. Typed'
  BY <1>1, <1>2 DEF EInv, Typed, AtMostOne
<1>4. PlanOK'
  BY <1>1, <1>2 DEF EInv, PlanOK, Based, Executing, Commands, Ending, Mutations
<1>5. EffectOK'
  BY <1>1, <1>2 DEF EInv, EffectOK, Mutations
<1>6. PlaceOK'
  BY <1>1, <1>2 DEF EInv, PlaceOK, Based, Executing
<1>7. UntouchedOK'
  BY <1>1, <1>2 DEF UntouchedOK, Mutations
<1> QED
  BY <1>1, <1>3, <1>4, <1>5, <1>6, <1>7 DEF EInv

LEMMA PrepareReadStep ==
    ASSUME EInv, PrepareRead PROVE EInv'
<1>1. /\ job.pc = "prepareRead" /\ job.kind \in Mutations /\ UNCHANGED <<spk, app, hist, retained>>
      /\ job.intent \in Intents /\ validateIntent(job.intent) /\ job.result = "ok"
      /\ ~job.completed /\ hist.effect = "none" /\ spk \in SpeakerType /\ spk.content >= 0
  BY DEF PrepareRead, At, Keep, EInv, Typed, JobType, PlanOK, EffectOK, Mutations
<1>2. CASE sonos' = [sonos EXCEPT !.prepared = FALSE] /\ Fails(FALSE)
  <2>1. Rests
    BY <1>1, <1>2 DEF Rests, EInv, Typed, SonosType
  <2> QED
    BY <1>1, <1>2, <2>1, FailedKeeps, Reads DEF EInv
<1>3. CASE /\ sonos' = [prepared |-> FALSE, base |-> {View(spk)}, proven |-> TRUE]
           /\ job' = [job EXCEPT !.pc = "prepareCheck", !.todo = makePlan(job.intent)]
  <2>1. PICK v \in SpeakerType, plan \in Seq(Operations) : v = View(spk) /\ plan = makePlan(job.intent)
    BY <1>1, Views, Plans DEF Fits
  <2>2. "prepareCheck" \in Pcs
    BY DEF Pcs, Commands, Based
  <2>3. /\ job' \in JobType /\ SameCall(job, job') /\ job'.pc = "prepareCheck"
        /\ job'.todo = plan /\ job'.completed = job.completed /\ job'.result = job.result
    BY <1>3, <2>1, <2>2 DEF EInv, Typed, JobType, SameCall
  <2>4. sonos' \in SonosType /\ sonos'.base = {v} /\ AtMostOne({v}) /\ sonos'.base # {}
        /\ ~sonos'.prepared
    BY <1>3, <2>1 DEF SonosType, AtMostOne
  <2>5. Base' = v
    BY <2>4 DEF Base, The
  <2>6. /\ plan # <<>> /\ Ordered(plan) /\ Ops(plan) \subseteq OperationsOf(job.intent)
    BY <1>1, <2>1, Plans DEF Fits
  <2>7. Typed'
    BY <1>1, <2>3, <2>4 DEF EInv, Typed, AtMostOne
  <2>8. PlanOK'
    BY <1>1, <2>1, <2>3, <2>4, <2>6
       DEF EInv, PlanOK, SameCall, Based, Executing, Commands, Ending, Mutations
  <2>9. EffectOK'
    BY <1>1, <2>3 DEF EInv, EffectOK, SameCall, Mutations
  <2>10. PlaceOK'
    BY <1>1, <2>1, <2>3, <2>5, Views DEF EInv, PlaceOK, Based, Executing
  <2>11. UntouchedOK'
    BY <1>1, <2>1, <2>3, <2>5, Views DEF EInv, UntouchedOK, Based, Executing, SameCall
  <2> QED
    BY <1>1, <2>7, <2>8, <2>9, <2>10, <2>11 DEF EInv
<1> QED
  BY <1>2, <1>3 DEF PrepareRead

LEMMA PrepareCheckStep ==
    ASSUME EInv, PrepareCheck PROVE EInv'
<1>1. /\ job.pc = "prepareCheck" /\ job.kind \in Mutations /\ UNCHANGED <<spk, app, hist, retained>>
      /\ job.intent \in Intents /\ validateIntent(job.intent) /\ job.result = "ok"
      /\ ~job.completed /\ hist.effect = "none" /\ spk \in SpeakerType /\ spk.mute \in BOOLEAN
      /\ job.todo = makePlan(job.intent) /\ Base \in SpeakerType
  BY Bases DEF PrepareCheck, At, Keep, EInv, Typed, JobType, PlanOK, EffectOK, Mutations, Based,
               SpeakerType
<1>2. CASE UNCHANGED sonos /\ Fails(FALSE)
  <2>1. Rests
    BY <1>1, <1>2 DEF Rests, EInv, Typed
  <2> QED
    BY <1>1, <1>2, <2>1, FailedKeeps, Reads DEF EInv, Based
<1>3. CASE /\ sonos' = [sonos EXCEPT !.prepared = TRUE, !.base = {[Base EXCEPT !.mute = spk.mute]}]
           /\ Goto("check")
  <2> DEFINE b == [Base EXCEPT !.mute = spk.mute]
  <2>1. /\ b \in SpeakerType /\ b.content = Base.content
        /\ Base = spk => b = spk
    BY <1>1 DEF SpeakerType
  <2>2. sonos' = [sonos EXCEPT !.prepared = TRUE, !.base = {b}]
    BY <1>3
  <2> HIDE DEF b
  <2>3. sonos' \in SonosType /\ sonos'.base = {b} /\ AtMostOne({b}) /\ sonos'.base # {}
    BY <2>1, <2>2 DEF SonosType, AtMostOne, EInv, Typed
  <2>4. Base' = b
    BY <2>3 DEF Base, The
  <2>5. /\ job' \in JobType /\ SameCall(job, job') /\ job'.pc = "check"
        /\ job'.todo = job.todo /\ job'.completed = job.completed /\ job'.result = job.result
    BY <1>3, Went DEF EInv, Pcs, Commands, Based, Executing
  <2>6. Typed'
    BY <1>1, <2>3, <2>5 DEF EInv, Typed, AtMostOne
  <2>7. PlanOK'
    BY <1>1, <2>3, <2>5
       DEF EInv, PlanOK, SameCall, Based, Executing, Commands, Ending, Mutations
  <2>8. EffectOK'
    BY <1>1, <2>5 DEF EInv, EffectOK, SameCall, Mutations
  <2>9. PlaceOK'
    BY <1>1, <2>1, <2>4, <2>5 DEF EInv, PlaceOK, Based, Executing
  <2>10. UntouchedOK'
    <3>1. ~hist.touched => spk = hist.start /\ Base = hist.start
      BY <1>1 DEF EInv, UntouchedOK, Based
    <3>2. Progress(job.intent, spk, spk, job.todo)
      BY <1>1, Plans DEF Progress
    <3>3. ~hist.touched => b = hist.start /\ Progress(job.intent, hist.start, spk, job.todo)
      BY <2>1, <3>1, <3>2
    <3> QED
      BY <1>1, <2>4, <2>5, <3>3 DEF EInv, UntouchedOK, Based, Executing, SameCall
  <2> QED
    BY <1>1, <2>6, <2>7, <2>8, <2>9, <2>10 DEF EInv
<1> QED
  BY <1>2, <1>3 DEF PrepareCheck

LEMMA ReconcileStep ==
    ASSUME EInv, Reconcile PROVE EInv'
<1>1. /\ job.pc = "reconcile" /\ job.kind = "read" /\ UNCHANGED <<spk, hist, retained>>
      /\ job.intent = EmptyIntent
  BY DEF Reconcile, ReadObservation, At, Keep, EInv, PlanOK, Typed, JobType, Mutations, Commands,
         Based, Executing, Ending
<1>2. sonos' \in SonosType /\ sonos'.base = {} /\ ~sonos'.prepared
  <2>1. Retired(sonos) \in SonosType /\ Retired(sonos).base = {} /\ ~Retired(sonos).prepared
    BY DEF Retired, EInv, Typed, SonosType
  <2>2. PICK p \in BOOLEAN : sonos' = [Retired(sonos) EXCEPT !.proven = p]
    <3>1. Readable \in BOOLEAN /\ sonos.proven \in BOOLEAN
      BY DEF Readable, Open, EInv, Typed, SonosType, JobType, SpeakerType
    <3>2. Retired(sonos).proven = sonos.proven
      BY DEF Retired, EInv, Typed, SonosType
    <3>3. sonos' = [Retired(sonos) EXCEPT !.proven = @ \/ Readable]
      BY DEF Reconcile, ReadObservation
    <3> QED
      BY <3>1, <3>2, <3>3
  <2> QED
    BY <2>1, <2>2 DEF SonosType
<1>3. /\ app' \in AppType /\ AtMostOne(app'.seen) /\ app'.status = app.status
      /\ app'.recovery \in {FALSE, app.recovery}
  <2>1. CASE app' = [app EXCEPT !.stale = TRUE]
    BY <2>1, Reads DEF EInv, Reread
  <2>2. CASE app' = [Observed(app, View(spk)) EXCEPT !.recovery = FALSE]
    <3>1. PICK v \in SpeakerType :
              app' = [app EXCEPT !.seen = {v}, !.stale = FALSE, !.recovery = FALSE]
      BY <2>2, Views DEF EInv, Typed, Observed
    <3>2. {v} \in SUBSET SpeakerType /\ AtMostOne({v})
      BY DEF AtMostOne
    <3> QED
      BY <3>1, <3>2 DEF EInv, Typed, AppType
  <2> QED
    BY <2>1, <2>2 DEF Reconcile
<1>4. /\ job' \in JobType /\ SameCall(job, job') /\ job'.pc = "finish"
  BY Went, GaveUp DEF EInv, Pcs, Commands, Ending, Reconcile
<1>5. Typed'
  BY <1>1, <1>2, <1>3, <1>4 DEF EInv, Typed, AtMostOne
<1>6. PlanOK'
  BY <1>1, <1>2, <1>4 DEF EInv, PlanOK, SameCall, Based, Executing, Commands, Ending, Mutations
<1>7. EffectOK'
  BY <1>1, <1>3, <1>4 DEF EInv, EffectOK, SameCall, Mutations
<1>8. PlaceOK'
  BY <1>1, <1>4 DEF EInv, PlaceOK, SameCall, Based, Executing, EmptyIntent
<1>9. UntouchedOK'
  BY <1>1, <1>4 DEF UntouchedOK, Mutations, SameCall
<1> QED
  BY <1>1, <1>5, <1>6, <1>7, <1>8, <1>9 DEF EInv

LEMMA Opposites ==
    ASSUME NEW transport
    PROVE  OppositeOf(transport) \in Intents /\ validateIntent(OppositeOf(transport))
<1> DEFINE how == IF transport = "PLAYING" THEN "pause" ELSE "play"
           i == [EmptyIntent EXCEPT !.transport = {how}]
<1>1. how \in Transports /\ how \notin Advances
  BY DEF Transports, Advances
<1>2. OppositeOf(transport) = i
  BY DEF OppositeOf
<1> HIDE DEF how
<1>3. i.source = {} /\ i.transport = {how} /\ i.shuffle = {} /\ i.repeat = {} /\ i.volume = {}
      /\ i.seek = {} /\ i.queueIndex = {}
  BY DEF EmptyIntent
<1>4. i \in Intents
  BY <1>1 DEF EmptyIntent, Intents, Optional
<1>5. i # EmptyIntent
  BY <1>3 DEF EmptyIntent
<1> HIDE DEF i
<1>6. validateIntent(i)
  BY <1>1, <1>3, <1>5 DEF validateIntent
<1> QED
  BY <1>2, <1>4, <1>6

LEMMA ToggleReadStep ==
    ASSUME EInv, ToggleRead PROVE EInv'
<1>1. /\ job.pc = "toggleRead" /\ job.kind = "toggle" /\ UNCHANGED <<spk, hist, retained>>
      /\ ~job.completed /\ job.result = "ok" /\ hist.effect = "none" /\ ~app.recovery
      /\ app.status = retained.status
  BY DEF ToggleRead, ReadObservation, At, Keep, EInv, PlanOK, EffectOK, Mutations
<1>2. sonos' \in SonosType /\ sonos'.base = sonos.base /\ sonos'.prepared = sonos.prepared
  <2>1. PICK p \in BOOLEAN : sonos' = [sonos EXCEPT !.proven = p]
    <3>1. Readable \in BOOLEAN /\ sonos.proven \in BOOLEAN
      BY DEF Readable, Open, EInv, Typed, SonosType, JobType, SpeakerType
    <3>2. sonos' = [sonos EXCEPT !.proven = @ \/ Readable]
      BY DEF ToggleRead, ReadObservation
    <3> QED
      BY <3>1, <3>2
  <2> QED
    BY <2>1 DEF EInv, Typed, SonosType
<1>3. Toggled(app, View(spk)) = spk.transport
  BY Views DEF Toggled, EInv, Typed
<1>4. ASSUME NEW t \in Statuses, app' = [Observed(app, View(spk)) EXCEPT !.status = t]
      PROVE  /\ app' \in AppType /\ AtMostOne(app'.seen) /\ app'.status = t
             /\ app'.recovery = app.recovery
  <2>1. PICK v \in SpeakerType : app' = [app EXCEPT !.seen = {v}, !.stale = FALSE, !.status = t]
    BY <1>4, Views DEF EInv, Typed, Observed
  <2>2. {v} \in SUBSET SpeakerType /\ AtMostOne({v})
    BY DEF AtMostOne
  <2> QED
    BY <2>1, <2>2 DEF EInv, Typed, AppType
<1>5. CASE /\ job' = [job EXCEPT !.pc = "prepareRead", !.intent = OppositeOf(spk.transport)]
           /\ app' = [Observed(app, View(spk)) EXCEPT !.status = "pending"]
  <2>1. /\ app' \in AppType /\ AtMostOne(app'.seen) /\ app'.recovery = app.recovery
    BY <1>4, <1>5 DEF Statuses
  <2>2. PICK i \in Intents : i = OppositeOf(spk.transport) /\ validateIntent(i)
    BY Opposites
  <2>3. "prepareRead" \in Pcs
    BY DEF Pcs, Commands
  <2>4. /\ job' \in JobType /\ job'.pc = "prepareRead" /\ job'.kind = job.kind /\ job'.intent = i
        /\ job'.todo = job.todo /\ job'.completed = job.completed /\ job'.result = job.result
        /\ job'.preempted = job.preempted
    BY <1>5, <2>2, <2>3 DEF EInv, Typed, JobType
  <2>5. Typed'
    BY <1>1, <1>2, <2>1, <2>4 DEF EInv, Typed, AtMostOne
  <2>6. PlanOK'
    BY <1>1, <1>2, <2>2, <2>4 DEF EInv, PlanOK, Based, Executing, Commands, Ending, Mutations
  <2>7. EffectOK'
    BY <1>1, <2>1, <2>4 DEF EInv, EffectOK, Mutations
  <2>8. PlaceOK'
    BY <1>1, <2>4 DEF EInv, PlaceOK, Based, Executing
  <2>9. UntouchedOK'
    BY <1>1, <2>2, <2>4 DEF EInv, UntouchedOK, Based, Executing, Mutations
  <2> QED
    BY <1>1, <2>5, <2>6, <2>7, <2>8, <2>9 DEF EInv
<1>6. CASE /\ GiveUp
           /\ \/ app' = [Observed(app, View(spk)) EXCEPT !.status = "failed"]
              \/ app' = [app EXCEPT !.stale = TRUE]
  <2>1. /\ job' \in JobType /\ SameCall(job, job') /\ job'.pc = "finish"
        /\ job'.todo = job.todo /\ job'.completed = job.completed /\ job'.result = "failed"
    BY <1>6, GaveUp DEF EInv
  <2>2. /\ app' \in AppType /\ AtMostOne(app'.seen) /\ app'.recovery = app.recovery
        /\ app'.status \in {app.status, "failed"}
    <3>1. CASE app' = [app EXCEPT !.stale = TRUE]
      BY <3>1, Reads DEF EInv, Reread
    <3>2. CASE app' = [Observed(app, View(spk)) EXCEPT !.status = "failed"]
      BY <1>4, <3>2 DEF Statuses, Outcome!Outcomes
    <3> QED
      BY <1>6, <3>1, <3>2
  <2>5. Typed'
    BY <1>1, <1>2, <2>1, <2>2 DEF EInv, Typed, AtMostOne
  <2>6. PlanOK'
    BY <1>1, <1>2, <2>1 DEF EInv, PlanOK, SameCall, Based, Executing, Commands, Ending, Mutations
  <2>7. EffectOK'
    <3>1. CASE app'.status = app.status
      BY <1>1, <2>1, <2>2, <3>1 DEF EInv, EffectOK, SameCall, Mutations
    <3>2. CASE app'.status = "failed"
      <4>1. (Honest(app.status))' /\ app'.recovery = (app'.status = "uncertain")
        BY <1>1, <2>2, <3>2 DEF Honest, Outcome!Outcomes, AppType
      <4> QED
        BY <1>1, <2>1, <2>2, <4>1 DEF EInv, EffectOK, SameCall, Mutations
    <3> QED
      BY <2>2, <3>1, <3>2
  <2>8. PlaceOK'
    BY <1>1, <2>1 DEF EInv, PlaceOK, Based, Executing
  <2>9. UntouchedOK'
    BY <1>1, <2>1 DEF EInv, UntouchedOK, Based, Executing, SameCall, Mutations
  <2> QED
    BY <1>1, <2>5, <2>6, <2>7, <2>8, <2>9 DEF EInv
<1> QED
  BY <1>3, <1>5, <1>6 DEF ToggleRead, SubmitOpposite, OppositeOf

LEMMA BeginStep ==
    ASSUME EInv,
           NEW kind \in {"read", "toggle", "submit"}, NEW pc, NEW i \in Intents,
           kind = "read" => pc = "reconcile" /\ i = EmptyIntent,
           kind = "toggle" => pc = "toggleRead" /\ ~app.recovery,
           kind = "submit" => pc = "prepareRead" /\ ~app.recovery /\ validateIntent(i),
           BeginJob(kind, pc, i),
           \/ UNCHANGED app
           \/ kind = "submit" /\ app' = [app EXCEPT !.status = "pending"]
    PROVE  EInv'
<1>1. /\ pc \in Pcs \ (Based \cup Ending \cup {"idle"}) /\ job.pc = "idle" /\ ~spk.grouped
      /\ retained' = app
  BY DEF BeginJob, At, Pcs, Commands, Based, Executing, Ending
<1>2. /\ job' \in JobType /\ job'.kind = kind /\ job'.pc = pc /\ job'.intent = i
      /\ job'.todo = <<>> /\ ~job'.completed /\ job'.result = "ok" /\ ~job'.preempted
  <2>1. job' = [NoJob EXCEPT !.kind = kind, !.pc = pc, !.intent = i]
    BY DEF BeginJob
  <2>2. job' \in JobType
    BY <1>1, <2>1, NoJobTyped DEF JobType
  <2> QED
    BY <2>1, <2>2 DEF NoJob
<1>3. /\ spk' \in SpeakerType /\ spk'.content = spk.content /\ spk'.moved = spk.moved
      /\ spk'.grouped = spk.grouped /\ spk'.here
  BY DEF BeginJob, EInv, Typed, SpeakerType
<1>4. sonos' \in SonosType /\ sonos'.base = sonos.base /\ sonos'.prepared = sonos.prepared
  <2>1. PICK p \in BOOLEAN : sonos' = [sonos EXCEPT !.proven = p]
    BY DEF BeginJob, EInv, Typed, SonosType, SpeakerType
  <2> QED
    BY <2>1 DEF EInv, Typed, SonosType
<1>5. /\ hist' \in HistType /\ hist'.start = spk' /\ ~hist'.touched
      /\ hist'.movedOn = hist.movedOn
      /\ kind \in Mutations => hist'.effect = "none"
  <2>1. PICK e \in {"none", "some", "unknown"} :
            /\ hist' = [hist EXCEPT !.start = spk', !.touched = FALSE, !.strays = 0,
                                    !.slipped = FALSE, !.effect = e]
            /\ kind # "read" => e = "none"
    BY DEF BeginJob, EInv, Typed, HistType
  <2> QED
    BY <1>3, <2>1 DEF EInv, Typed, HistType, Mutations
<1>6. /\ app' \in AppType /\ AtMostOne(app'.seen) /\ app'.recovery = app.recovery
      /\ kind # "submit" => app'.status = app.status
  <2>1. "pending" \in Statuses
    BY DEF Statuses
  <2> QED
    BY <2>1 DEF EInv, Typed, AppType
<1>7. Typed'
  BY <1>1, <1>2, <1>3, <1>4, <1>5, <1>6 DEF EInv, Typed, AtMostOne
<1>8. PlanOK'
  BY <1>1, <1>2, <1>4 DEF EInv, PlanOK, Based, Executing, Commands, Ending, Mutations
<1>9. EffectOK'
  BY <1>1, <1>2, <1>5, <1>6 DEF EInv, EffectOK, Mutations, Ending, Based, Executing
<1>10. PlaceOK'
  BY <1>1, <1>2, <1>3, <1>5 DEF EInv, PlaceOK, Based, Executing, Ending
<1>11. UntouchedOK'
  BY <1>1, <1>2, <1>3, <1>5 DEF EInv, UntouchedOK, Based, Executing, Mutations, Ending
<1> QED
  BY <1>5, <1>7, <1>8, <1>9, <1>10, <1>11 DEF EInv

\* A flag of the job that no part of the invariant reads, or that only a read has.
LEMMA FlagStep ==
    ASSUME EInv, Cancel \/ Expire PROVE EInv'
<1>1. UNCHANGED <<spk, app, sonos, hist, retained>> /\ job.kind # "none"
  BY DEF Cancel, Expire, Keep, At, EInv, PlanOK, Mutations
<1>2. /\ job' \in JobType /\ job'.kind = job.kind /\ job'.pc = job.pc /\ job'.intent = job.intent
      /\ job'.todo = job.todo /\ job'.completed = job.completed /\ job'.result = job.result
      /\ job'.preempted = job.preempted \/ job.kind = "read"
  BY DEF Cancel, Expire, EInv, Typed, JobType
<1>3. Typed'
  BY <1>1, <1>2 DEF EInv, Typed, AtMostOne
<1>4. PlanOK'
  BY <1>1, <1>2 DEF EInv, PlanOK, Based, Executing, Commands, Ending, Mutations
<1>5. EffectOK'
  BY <1>1, <1>2 DEF EInv, EffectOK, Honest
<1>6. PlaceOK'
  BY <1>1, <1>2 DEF EInv, PlaceOK, Base
<1>7. UntouchedOK'
  BY <1>1, <1>2 DEF EInv, UntouchedOK, Base
<1> QED
  BY <1>1, <1>3, <1>4, <1>5, <1>6, <1>7 DEF EInv

LEMMA TamperStep ==
    ASSUME EInv, Tamper PROVE EInv'
<1>1. UNCHANGED <<app, sonos, job, retained>>
  BY DEF Tamper
<1>2. /\ spk' \in SpeakerType /\ spk'.content >= 0
      /\ spk'.moved = "sought" => spk.moved = "sought" /\ spk'.content = spk.content
      /\ spk'.here => spk.here
  <2>1. PICK n \in Nat, m \in Nat, t \in {"PLAYING", "PAUSED", "TRANSITIONING"},
             mute \in BOOLEAN, grouped \in BOOLEAN :
            \/ spk' = [spk EXCEPT !.content = n, !.moved = "no"]
            \/ spk' = [spk EXCEPT !.rev = m, !.queue = "other"]
            \/ spk' = [spk EXCEPT !.transport = t]
            \/ spk' = [spk EXCEPT !.volume = 50]
            \/ spk' = [spk EXCEPT !.mute = mute]
            \/ spk' = [spk EXCEPT !.grouped = grouped]
            \/ spk' = [spk EXCEPT !.here = FALSE]
    <3>1. /\ spk.content + 1 \in Nat /\ spk.rev + 1 \in Nat
          /\ (IF spk.transport = "PLAYING" THEN "PAUSED" ELSE "PLAYING") \in {"PLAYING", "PAUSED"}
          /\ (~spk.mute) \in BOOLEAN /\ (~spk.grouped) \in BOOLEAN
      BY DEF EInv, Typed, SpeakerType
    <3>2. spk' \in Tampered
      BY DEF Tamper
    <3> QED
      BY <3>1, <3>2 DEF Tampered
  <2>7. spk \in SpeakerType /\ spk.content >= 0
    BY DEF EInv, Typed
  <2>2. CASE spk' = [spk EXCEPT !.content = n, !.moved = "no"]
    <3>1. n \in Int /\ n >= 0 /\ "no" # "sought"
      OBVIOUS
    <3>2. spk' \in SpeakerType
      BY <2>2, <2>7, <3>1 DEF SpeakerType
    <3>3. spk'.content = n /\ spk'.moved = "no" /\ spk'.here = spk.here
      BY <2>2, <2>7 DEF SpeakerType
    <3> QED
      BY <3>1, <3>2, <3>3
  <2>3. CASE spk' = [spk EXCEPT !.rev = m, !.queue = "other"]
    BY <2>3, <2>7 DEF SpeakerType
  <2>4. CASE spk' = [spk EXCEPT !.transport = t]
    BY <2>4, <2>7 DEF SpeakerType
  <2>5. CASE spk' = [spk EXCEPT !.volume = 50] \/ spk' = [spk EXCEPT !.mute = mute]
    BY <2>5, <2>7 DEF SpeakerType
  <2>6. CASE spk' = [spk EXCEPT !.grouped = grouped] \/ spk' = [spk EXCEPT !.here = FALSE]
    BY <2>6, <2>7 DEF SpeakerType
  <2> QED
    BY <2>1, <2>2, <2>3, <2>4, <2>5, <2>6, Zenon
<1>3. /\ hist' \in HistType /\ hist'.start = hist.start /\ hist'.touched
      /\ hist'.effect = hist.effect /\ hist'.movedOn = hist.movedOn
  <2>1. PICK b \in BOOLEAN : hist' = [hist EXCEPT !.touched = TRUE, !.slipped = b]
    BY <1>2 DEF Tamper, EInv, Typed, HistType, SpeakerType
  <2> QED
    BY <2>1 DEF EInv, Typed, HistType
<1>4. Typed'
  BY <1>1, <1>2, <1>3 DEF EInv, Typed, AtMostOne
<1>5. PlanOK'
  BY <1>1 DEF EInv, PlanOK
<1>6. EffectOK'
  BY <1>1, <1>3 DEF EInv, EffectOK, Honest
<1>7. PlaceOK'
  BY <1>1, <1>2, <1>3 DEF EInv, PlaceOK, Base
<1>8. UntouchedOK'
  BY <1>3 DEF UntouchedOK
<1> QED
  BY <1>3, <1>4, <1>5, <1>6, <1>7, <1>8 DEF EInv

LEMMA InitHolds == Init => EInv
<1> SUFFICES ASSUME Init PROVE EInv
  OBVIOUS
<1>1. spk \in SpeakerType /\ spk.moved = "no" /\ spk.content >= 0
  BY ExecutorAssumption DEF Init
<1>2. /\ job = NoJob /\ NoJob \in JobType /\ job.kind = "none" /\ job.pc = "idle"
      /\ job.todo = <<>> /\ ~job.completed
  BY NoJobTyped DEF Init, NoJob
<1>3. app \in AppType /\ retained \in AppType /\ app.seen = {} /\ retained.seen = {}
  BY DEF Init, AppType, Statuses
<1>4. sonos \in SonosType /\ sonos.base = {} /\ ~sonos.prepared
  BY DEF Init, SonosType
<1>5. hist \in HistType
  BY <1>1 DEF Init, HistType
<1>6. Typed
  BY <1>1, <1>2, <1>3, <1>4, <1>5 DEF Typed, AtMostOne
<1>7. PlanOK
  BY <1>2, <1>4 DEF PlanOK, Based, Executing, Commands, Ending, Mutations
<1>8. EffectOK /\ PlaceOK /\ UntouchedOK
  BY <1>1, <1>2 DEF EffectOK, PlaceOK, UntouchedOK, Based, Executing, Mutations
<1> QED
  BY <1>5, <1>6, <1>7, <1>8 DEF EInv

LEMMA StepKeeps == EInv /\ [Next]_executorVars => EInv'
<1> SUFFICES ASSUME EInv, [Next]_executorVars PROVE EInv'
  OBVIOUS
<1>1. CASE UNCHANGED executorVars
  <2>1. UNCHANGED <<spk, app, sonos, job, retained, hist>>
    BY <1>1 DEF executorVars
  <2>2. Typed' /\ PlanOK'
    BY <2>1 DEF EInv, Typed, PlanOK
  <2>3. EffectOK' /\ PlaceOK' /\ UntouchedOK'
    <3>1. EffectOK'
      BY <2>1 DEF EInv, EffectOK, Honest
    <3>2. PlaceOK'
      BY <2>1 DEF EInv, PlaceOK, Base
    <3>3. UntouchedOK'
      BY <2>1 DEF EInv, UntouchedOK, Base
    <3> QED
      BY <3>1, <3>2, <3>3
  <2> QED
    BY <2>1, <2>2, <2>3 DEF EInv
<1>2. CASE Read
  <2>1. EmptyIntent \in Intents
    BY DEF EmptyIntent, Intents, Optional
  <2> QED
    BY <1>2, <2>1, BeginStep DEF Read
<1>3. CASE Toggle
  <2>1. EmptyIntent \in Intents
    BY DEF EmptyIntent, Intents, Optional
  <2> QED
    BY <1>3, <2>1, BeginStep DEF Toggle
<1>4. CASE Submit
  <2>1. PICK i \in Requests : BeginJob("submit", "prepareRead", i)
    BY <1>4 DEF Submit
  <2>2. i \in Intents /\ validateIntent(i)
    BY ExecutorAssumption
  <2>3. ~app.recovery /\ app' = [app EXCEPT !.status = "pending"]
    BY <1>4 DEF Submit
  <2> QED
    BY <2>1, <2>2, <2>3, BeginStep
<1>5. CASE Calls
  BY <1>5, ReconcileStep, ToggleReadStep, PrepareReadStep, PrepareCheckStep, CheckStep,
     GuardStep, DispatchStep, WaitStep, MuteStep, SetMuteStep, VerifyStep, SettleStep, ConcludeStep,
     FinishStep DEF Calls
<1> QED
  BY <1>1, <1>2, <1>3, <1>4, <1>5, FlagStep, TamperStep DEF Next, Rest

----------------------------------------------------------------------------
(* Where the mutations of a job arrive: at most one at another player, and *)
(* only if the address slipped away while that one was on its way.         *)

StrayOK ==
    /\ hist.strays = 0 \/ (hist.strays = 1 /\ hist.slipped /\ ~spk.here)
    /\ job.pc \in Sending => hist.strays = 0 /\ (spk.here \/ hist.slipped)

\* Where a call goes on, fails, gives up or tries again.
LEMMA Lands ==
    ASSUME Typed
    PROVE  /\ \A pc : Goto(pc) => job'.pc = pc
           /\ \A u : Fails(u) => job'.pc = "settle"
           /\ Proceed => job'.pc \in {"verify", "check"}
           /\ GiveUp => job'.pc = "finish"
           /\ Again => job'.pc \in {job.pc, "settle"}
<1>1. ASSUME NEW pc, NEW j, j = [job EXCEPT !.pc = pc] PROVE j.pc = pc
  BY <1>1 DEF Typed, JobType
<1>2. \A pc : Goto(pc) => job'.pc = pc
  BY <1>1 DEF Goto
<1>3. \A u : Fails(u) => job'.pc = "settle"
  BY DEF Fails, Typed, JobType
<1>4. Proceed => job'.pc \in {"verify", "check"}
  BY DEF Proceed, Typed, JobType
<1>5. GiveUp => job'.pc = "finish"
  BY DEF GiveUp, Typed, JobType
<1>6. Again => job'.pc \in {job.pc, "settle"}
  BY <1>3 DEF Again, Typed, JobType
<1> QED
  BY <1>2, <1>3, <1>4, <1>5, <1>6

\* The steps that send no mutation.
LEMMA NothingSent ==
    ASSUME EInv, StrayOK,
           Reconcile \/ ToggleRead \/ PrepareRead \/ PrepareCheck \/ Check \/ Wait \/ Mute
             \/ Verify \/ Settle \/ Conclude \/ Finish \/ Cancel \/ Expire
    PROVE  StrayOK'
<1>1. UNCHANGED <<spk, hist>>
  BY DEF Reconcile, ToggleRead, PrepareRead, PrepareCheck, Check, Wait, Mute, Verify, Settle,
         Conclude, Finish, Cancel, Expire, ReadObservation
<1>2. job'.pc \notin Sending \/ job'.pc = job.pc
  <2>1. CASE Reconcile
    BY <2>1, Lands DEF EInv, Reconcile, Sending
  <2>2. CASE ToggleRead \/ PrepareRead
    <3>1. ASSUME NEW i, job' = [job EXCEPT !.pc = "prepareRead", !.intent = i]
          PROVE  job'.pc = "prepareRead"
      BY <3>1 DEF EInv, Typed, JobType
    <3>2. ASSUME NEW q, job' = [job EXCEPT !.pc = "prepareCheck", !.todo = q]
          PROVE  job'.pc = "prepareCheck"
      BY <3>2 DEF EInv, Typed, JobType
    <3>3. job'.pc \in {"prepareRead", "prepareCheck", "settle", "finish"}
      BY <2>2, <3>1, <3>2, Lands DEF EInv, ToggleRead, SubmitOpposite, PrepareRead
    <3> QED
      BY <3>3 DEF Sending
  <2>3. CASE PrepareCheck \/ Check
    BY <2>3, Lands DEF EInv, PrepareCheck, Check, Sending
  <2>4. CASE Wait \/ Mute
    BY <2>4, Lands DEF EInv, Wait, Mute, Sending
  <2>5. CASE Verify \/ Settle \/ Conclude
    BY <2>5, Lands DEF EInv, Verify, Settle, Conclude, Sending
  <2>6. CASE Finish
    BY <2>6 DEF Finish, NoJob, Sending
  <2>7. CASE Cancel \/ Expire
    BY <2>7 DEF Cancel, Expire, EInv, Typed, JobType
  <2> QED
    BY <2>1, <2>2, <2>3, <2>4, <2>5, <2>6, <2>7
<1> QED
  BY <1>1, <1>2 DEF StrayOK

\* The identity answer: its player is the target, so no mutation has strayed yet.
LEMMA GuardedHere ==
    ASSUME EInv, StrayOK, Guard PROVE StrayOK'
<1>1. UNCHANGED <<spk, hist>>
  BY DEF Guard
<1>2. CASE Guarded
  BY <1>1, <1>2 DEF StrayOK, Guarded, Identified
<1>3. CASE Fails(FALSE)
  BY <1>1, <1>3, Lands DEF EInv, StrayOK, Sending
<1> QED
  BY <1>2, <1>3 DEF Guard

\* A mutation is sent, to whoever is at the address.
LEMMA OneStrays ==
    ASSUME EInv, StrayOK, Dispatch \/ SetMute PROVE StrayOK'
<1>1. job.pc \in Sending /\ hist.strays = 0 /\ (spk.here \/ hist.slipped)
  BY DEF Dispatch, SetMute, At, StrayOK, Sending
<1>2. job'.pc \notin Sending
  <2>1. CASE Dispatch
    <3>1. AfterReply \in {"wait", "mute", "proceed"}
      BY DEF AfterReply
    <3> QED
      BY <2>1, <3>1, Lands DEF EInv, Dispatch, Sending
  <2>2. CASE SetMute
    BY <2>2, Lands DEF EInv, SetMute, Sending
  <2> QED
    BY <2>1, <2>2
<1>3. CASE UNCHANGED <<spk, hist>>
  BY <1>1, <1>2, <1>3 DEF StrayOK
<1>4. CASE /\ spk' \in {spk, Carried, Unmuted}
           /\ hist' = Note("some") \/ hist' = Note("unknown")
  <2>1. /\ hist'.strays = (IF spk.here THEN hist.strays ELSE hist.strays + 1)
        /\ hist'.slipped = hist.slipped
    BY <1>4, Noted DEF EInv
  <2>2. ~spk.here => spk' = spk
    BY <1>4 DEF Carried, Unmuted, Sent
  <2> QED
    BY <1>1, <1>2, <2>1, <2>2 DEF StrayOK
<1> QED
  BY <1>3, <1>4 DEF Dispatch, SetMute

\* The world, and a new job.
LEMMA SlipsAreNoted ==
    ASSUME EInv, StrayOK, Tamper \/ Read \/ Toggle \/ Submit PROVE StrayOK'
<1>1. CASE Tamper
  <2>1. job' = job
    BY <1>1 DEF Tamper
  <2>2. spk'.here => spk.here
    <3>1. spk' \in Tampered
      BY <1>1 DEF Tamper
    <3> QED
      BY <3>1 DEF Tampered, EInv, Typed, SpeakerType
  <2>3. /\ hist'.strays = hist.strays
        /\ hist'.slipped = (hist.slipped \/ (spk.here /\ ~spk'.here /\ job.pc \in Sending))
    BY <1>1 DEF Tamper, EInv, Typed, HistType
  <2> QED
    BY <2>1, <2>2, <2>3 DEF StrayOK
<1>2. ASSUME NEW kind, NEW pc \in {"reconcile", "toggleRead", "prepareRead"}, NEW i,
             BeginJob(kind, pc, i)
      PROVE  StrayOK'
  <2>1. job'.pc = pc
    BY <1>2 DEF BeginJob, NoJob
  <2>2. hist'.strays = 0
    BY <1>2 DEF BeginJob, EInv, Typed, HistType
  <2> QED
    BY <2>1, <2>2 DEF StrayOK, Sending
<1> QED
  BY <1>1, <1>2 DEF Read, Toggle, Submit

LEMMA StrayKept == EInv /\ StrayOK /\ [Next]_executorVars => StrayOK'
<1> SUFFICES ASSUME EInv, StrayOK, [Next]_executorVars PROVE StrayOK'
  OBVIOUS
<1>1. CASE UNCHANGED executorVars
  BY <1>1 DEF executorVars, StrayOK
<1> QED
  BY <1>1, NothingSent, GuardedHere, OneStrays, SlipsAreNoted DEF Next, Calls, Rest

----------------------------------------------------------------------------
(* The theorems.                                                           *)

\* The inductive invariant: whatever the worker, the other controllers and the
\* network do, a job stands where its plan says, its outcome admits no more than
\* it knows, and the speaker is as near to the request as the plan has come.
THEOREM SessionInvariance == Spec => []EInv
BY InitHolds, StepKeeps, PTL DEF Spec

\* A success is true (Application::submit and submitToggle, DirectSonos::verify):
\* for every set of requests and speakers, when a command has succeeded and nobody
\* else acted since it began, the speaker is as asked and otherwise as it was, and
\* a toggle has reversed what the room was doing.
THEOREM SuccessHolds == Spec => []SuccessIsTrue
<1>1. EInv => SuccessIsTrue
  <2> SUFFICES ASSUME EInv PROVE SuccessIsTrue
    OBVIOUS
  <2>1. ASSUME Succeeded, job.kind \in Mutations, ~hist.touched
        PROVE  /\ AsAsked(job.intent, hist.start, spk) /\ spk.mute = hist.start.mute
               /\ job.kind = "toggle" =>
                      (spk.transport = "PLAYING") = (hist.start.transport # "PLAYING")
    BY <2>1 DEF EInv, UntouchedOK, Succeeded, At
  <2>2. CommandAsAsked
    BY <2>1 DEF CommandAsAsked, Mutations
  <2>3. ToggleReverses
    BY <2>1 DEF ToggleReverses, Mutations
  <2> QED
    BY <2>2, <2>3 DEF SuccessIsTrue
<1> QED
  BY <1>1, SessionInvariance, PTL

\* A seek that is reported as reached was made in the content it was chosen in
\* (DirectSonos::execute and verify), whatever changed between the last check, the
\* dispatch and the verification.
THEOREM PlacesHold == Spec => []PlaceIsTheOneChosen
<1>1. EInv => PlaceIsTheOneChosen
  BY DEF EInv, PlaceOK, PlaceIsTheOneChosen, Succeeded, At
<1> QED
  BY <1>1, SessionInvariance, PTL

\* Whatever other controllers and the network do, and wherever the address passes to
\* another player: a mutation of a job reaches that player only if the address passed
\* on between this mutation's own identity answer and the mutation, and no other of
\* the job's mutations does (GuardedHttp::request); and what a session holds keeps its
\* shape.
THEOREM TargetHolds == Spec => []OnlyTheTarget
<1>1. ASSUME NEW S, AtMostOne(S) PROVE Cardinality(S) <= 1
  <2>1. CASE S = {}
    BY <2>1, FS_EmptySet
  <2>2. CASE S # {}
    <3>1. PICK x \in S : S = {x}
      BY <1>1, <2>2 DEF AtMostOne
    <3> QED
      BY <3>1, FS_Singleton
  <2> QED
    BY <2>1, <2>2
<1>2. EInv /\ StrayOK => OnlyTheTarget
  <2> SUFFICES ASSUME EInv, StrayOK PROVE OnlyTheTarget
    OBVIOUS
  <2>1. Cardinality(sonos.base) <= 1 /\ Cardinality(app.seen) <= 1
    BY <1>1 DEF EInv, Typed
  <2>2. app.status \in Outcome!Outcomes \cup {"idle", "pending"}
    BY DEF EInv, Typed, AppType, Statuses
  <2>3. /\ sonos.prepared => sonos.base # {}
        /\ \A n \in DOMAIN job.todo : job.todo[n] \in Operations
    BY DEF EInv, Typed, JobType, PlanOK
  <2>4. OnlyTheSlipped
    BY DEF StrayOK, OnlyTheSlipped
  <2> QED
    BY <2>1, <2>2, <2>3, <2>4 DEF OnlyTheTarget, Shape
<1>3. Init => StrayOK
  BY DEF Init, NoJob, StrayOK, Sending
<1> QED
  BY <1>2, <1>3, StrayKept, SessionInvariance, PTL DEF Spec

----------------------------------------------------------------------------
(* The session implements CommandOutcome.                                  *)

\* What the abstract specification sees as the outcome, and as a block.
SeenOutcome == IF Commanding THEN retained.status ELSE app.status
SeenBlock == IF At("idle") THEN app.recovery ELSE retained.recovery

\* A step it does not see.
LEMMA Unseen ==
    ASSUME Commanding' = Commanding, hist'.effect = hist.effect,
           SeenOutcome' = SeenOutcome, SeenBlock' = SeenBlock
    PROVE  UNCHANGED Outcome!outcomeVars
BY DEF Outcome!outcomeVars, SeenOutcome, SeenBlock

\* The exchanges of a call that is neither beginning nor ending.
LEMMA Underway ==
    ASSUME EInv, EInv', job.pc # "idle", job'.kind = job.kind, UNCHANGED retained,
           job.kind = "read" => app'.status = app.status
    PROVE  /\ Commanding' = Commanding /\ SeenOutcome' = SeenOutcome /\ SeenBlock' = SeenBlock
           /\ hist'.effect = hist.effect => UNCHANGED Outcome!outcomeVars
<1>1. job'.pc # "idle" /\ (Commanding \/ job.kind = "read")
  BY DEF EInv, PlanOK, Commanding, Mutations, Typed, JobType
<1>2. Commanding' = Commanding
  BY DEF Commanding
<1>3. SeenOutcome' = SeenOutcome
  BY <1>1, <1>2 DEF SeenOutcome
<1>4. SeenBlock' = SeenBlock
  BY <1>1 DEF SeenBlock, At
<1> QED
  BY <1>2, <1>3, <1>4, Unseen

\* No exchange changes the kind of its job.
LEMMA SameKind ==
    ASSUME Typed, \/ \E pc : Goto(pc)
                  \/ \E uncertain \in BOOLEAN : Fails(uncertain)
                  \/ Proceed \/ GiveUp \/ Again
                  \/ \E pc, i : job' = [job EXCEPT !.pc = pc, !.intent = i]
                  \/ \E pc, q : job' = [job EXCEPT !.pc = pc, !.todo = q]
    PROVE  job'.kind = job.kind
<1>1. ASSUME NEW u PROVE Fails(u) => job'.kind = job.kind
  BY DEF Typed, JobType, Fails
<1>2. Proceed => job'.kind = job.kind
  BY DEF Typed, JobType, Proceed
<1>3. GiveUp => job'.kind = job.kind
  BY DEF Typed, JobType, GiveUp
<1>4. Again => job'.kind = job.kind
  BY <1>1 DEF Typed, JobType, Again
<1>5. ASSUME NEW pc PROVE Goto(pc) => job'.kind = job.kind
  BY DEF Typed, JobType, Goto
<1>6. ASSUME NEW pc, NEW x
      PROVE  \/ job' = [job EXCEPT !.pc = pc, !.intent = x]
             \/ job' = [job EXCEPT !.pc = pc, !.todo = x]
             => job'.kind = job.kind
  BY DEF Typed, JobType
<1> QED
  BY <1>1, <1>2, <1>3, <1>4, <1>5, <1>6

\* The exchanges after which the abstract specification sees what it saw.
LEMMA UnseenCalls ==
    ASSUME EInv, EInv',
           Reconcile \/ ToggleRead \/ PrepareRead \/ PrepareCheck \/ Check \/ Guard \/ Wait \/ Mute
             \/ Verify \/ Settle \/ Conclude
    PROVE  UNCHANGED Outcome!outcomeVars
<1>1. UNCHANGED <<hist, retained>> /\ job.pc # "idle"
  BY DEF Reconcile, ToggleRead, PrepareRead, PrepareCheck, Check, Guard, Wait, Mute, Verify, Settle,
         Conclude, ReadObservation, Keep, At
<1>2. job'.kind = job.kind
  <2>1. CASE Reconcile \/ ToggleRead
    BY <2>1, SameKind DEF EInv, Reconcile, ToggleRead, SubmitOpposite
  <2>2. CASE PrepareRead \/ PrepareCheck
    BY <2>2, SameKind DEF EInv, PrepareRead, PrepareCheck
  <2>3. CASE Check \/ Guard \/ Wait \/ Mute
    BY <2>3, SameKind DEF EInv, Check, Guard, Wait, Mute
  <2>4. CASE Verify \/ Settle \/ Conclude
    BY <2>4, SameKind DEF EInv, Verify, Settle, Conclude
  <2> QED
    BY <2>1, <2>2, <2>3, <2>4
<1>3. job.kind = "read" => app'.status = app.status
  <2>1. job'.kind = "read" => app'.status = retained'.status
    BY DEF EInv, EffectOK
  <2>2. job.kind = "read" => app.status = retained.status
    BY DEF EInv, EffectOK
  <2> QED
    BY <1>1, <1>2, <2>1, <2>2
<1> QED
  BY <1>1, <1>2, <1>3, Underway

LEMMA FlagsUnseen ==
    ASSUME EInv, EInv', Cancel \/ Expire \/ Tamper PROVE UNCHANGED Outcome!outcomeVars
<1>1. /\ UNCHANGED <<app, retained>> /\ hist'.effect = hist.effect /\ job'.kind = job.kind
      /\ job'.pc = job.pc
  <2>1. CASE Cancel \/ Expire
    BY <2>1 DEF Cancel, Expire, Keep, EInv, Typed, JobType
  <2>2. CASE Tamper
    BY <2>2 DEF Tamper, EInv, Typed, HistType
  <2> QED
    BY <2>1, <2>2
<1>2. /\ Commanding' = Commanding /\ SeenOutcome' = SeenOutcome /\ SeenBlock' = SeenBlock
  BY <1>1 DEF Commanding, SeenOutcome, SeenBlock, At
<1> QED
  BY <1>1, <1>2, Unseen

\* A command begins; a read is not seen.
LEMMA BeginSeen ==
    ASSUME EInv, NEW kind, NEW pc, NEW i, BeginJob(kind, pc, i), pc # "idle",
           kind \in Mutations => ~app.recovery, kind \notin Mutations => kind = "read",
           app'.status = app.status \/ kind \in Mutations
    PROVE  Outcome!Begin \/ UNCHANGED Outcome!outcomeVars
<1>1. /\ job.pc = "idle" /\ job.kind = "none" /\ job'.kind = kind /\ job'.pc = pc
      /\ retained' = app
  BY DEF BeginJob, At, EInv, PlanOK, NoJob
<1>2. hist'.effect = IF kind = "read" THEN hist.effect ELSE "none"
  BY DEF BeginJob, EInv, Typed, HistType
<1>3. /\ ~Commanding /\ Commanding = FALSE /\ SeenOutcome = app.status /\ SeenBlock = app.recovery
      /\ SeenBlock' = app.recovery
  BY <1>1 DEF Commanding, Mutations, SeenOutcome, SeenBlock, At
<1>4. CASE kind \in Mutations
  <2>1. Commanding' = TRUE /\ SeenOutcome' = app.status
    BY <1>1, <1>4 DEF Commanding, SeenOutcome
  <2>2. hist'.effect = "none"
    BY <1>2, <1>4 DEF Mutations
  <2>3. ~SeenBlock
    BY <1>3, <1>4
  <2> QED
    BY <1>3, <2>1, <2>2, <2>3 DEF Outcome!Begin, SeenOutcome, SeenBlock
<1>5. CASE kind = "read"
  <2>1. Commanding' = FALSE /\ SeenOutcome' = app'.status
    BY <1>1, <1>5 DEF Commanding, Mutations, SeenOutcome
  <2>2. app'.status = app.status
    BY <1>5 DEF Mutations
  <2> QED
    BY <1>2, <1>3, <1>5, <2>1, <2>2, Unseen
<1> QED
  BY <1>4, <1>5

\* An operation reaches the speaker.
LEMMA ChangeSeen ==
    ASSUME EInv, EInv', Dispatch \/ SetMute
    PROVE  Outcome!Change \/ UNCHANGED Outcome!outcomeVars
<1>1. /\ job.pc \in {"send", "sendMute"} /\ UNCHANGED <<app, retained>>
      /\ job.kind \in Mutations /\ hist.effect # "unknown"
  BY DEF Dispatch, SetMute, At, Keep, EInv, PlanOK, EffectOK, Typed, JobType, Mutations
<1>2. job'.kind = job.kind
  BY SameKind DEF EInv, Dispatch, SetMute, LostIsUncertain
<1>3. /\ Commanding' = Commanding /\ SeenOutcome' = SeenOutcome /\ SeenBlock' = SeenBlock
      /\ hist'.effect = hist.effect => UNCHANGED Outcome!outcomeVars
  BY <1>1, <1>2, Underway
<1>4. hist'.effect \in {hist.effect, "some", "unknown"}
  BY DEF Dispatch, SetMute, Note, EInv, Typed, HistType
<1>5. Commanding = TRUE
  BY <1>1 DEF Commanding
<1> QED
  BY <1>1, <1>3, <1>4, <1>5 DEF Outcome!Change, SeenOutcome, SeenBlock

\* A job ends: a command with an outcome or without, a read with or without an
\* observation.
LEMMA FinishSeen ==
    ASSUME EInv, Finish
    PROVE  \/ Outcome!End \/ Outcome!Refuse \/ Outcome!Reconcile
           \/ UNCHANGED Outcome!outcomeVars
<1>1. /\ job.pc = "finish" /\ job' = NoJob /\ retained' = app' /\ UNCHANGED hist
      /\ app' = IF job.cancelled THEN Discarded(Commanding)
                ELSE IF job.preempted THEN retained ELSE app
  BY DEF Finish, At, Commanding
<1>2. Commanding' = FALSE /\ SeenOutcome' = app'.status /\ SeenBlock' = app'.recovery
  BY <1>1 DEF Commanding, SeenOutcome, SeenBlock, At, NoJob, Mutations
<1>3. SeenBlock = retained.recovery
  BY <1>1 DEF SeenBlock, At
<1>4. CASE job.kind = "read"
  <2>1. ~Commanding /\ Commanding = FALSE /\ SeenOutcome = app.status
    BY <1>4 DEF Commanding, Mutations, SeenOutcome
  <2>2. app.status = retained.status /\ app.recovery \in {FALSE, retained.recovery}
    BY <1>4 DEF EInv, EffectOK
  <2>3. Discarded(FALSE).status = retained.status /\ Discarded(FALSE).recovery = retained.recovery
    BY DEF Discarded, EInv, Typed, AppType
  <2>4. app'.status = app.status /\ app'.recovery \in {FALSE, retained.recovery}
    BY <1>1, <2>1, <2>2, <2>3
  <2>5. CASE app'.recovery = retained.recovery
    BY <1>1, <1>2, <1>3, <2>1, <2>4, <2>5, Unseen
  <2>6. CASE app'.recovery = FALSE
    BY <1>1, <1>2, <1>3, <2>1, <2>4, <2>6 DEF Outcome!Reconcile, SeenOutcome, SeenBlock
  <2> QED
    BY <2>4, <2>5, <2>6
<1>5. CASE job.kind \in Mutations
  <2>1. Commanding = TRUE /\ SeenOutcome = retained.status /\ ~job.preempted
    BY <1>5 DEF Commanding, SeenOutcome, EInv, PlanOK
  <2>2. CASE job.cancelled
    <3>1. app'.status = "uncertain" /\ app'.recovery = TRUE
      BY <1>1, <2>1, <2>2 DEF Discarded, EInv, Typed, AppType
    <3> QED
      BY <1>1, <1>2, <2>1, <3>1
         DEF Outcome!End, Outcome!Outcomes, SeenOutcome, SeenBlock
  <2>3. CASE ~job.cancelled /\ Honest(app.status) /\ app.recovery = (app.status = "uncertain")
    <3>1. app' = app
      BY <1>1, <2>1, <2>3
    <3> QED
      BY <1>1, <1>2, <2>1, <2>3, <3>1 DEF Outcome!End, Honest, SeenOutcome, SeenBlock
  <2>4. CASE /\ ~job.cancelled /\ hist.effect = "none" /\ app.status = retained.status
             /\ ~app.recovery
    <3>1. app' = app
      BY <1>1, <2>1, <2>4
    <3>2. app.recovery = retained.recovery
      BY <1>5, <2>4 DEF EInv, EffectOK, Typed, AppType
    <3> QED
      BY <1>1, <1>2, <1>3, <2>1, <2>4, <3>1, <3>2
         DEF Outcome!Refuse, SeenOutcome, SeenBlock
  <2> QED
    BY <1>1, <1>5, <2>2, <2>3, <2>4 DEF EInv, EffectOK
<1> QED
  BY <1>1, <1>4, <1>5 DEF EInv, PlanOK, Typed, JobType, Mutations

\* The refinement: whatever is lost, late, cancelled or preempted, the outcome of a
\* command (Application::execute, RuntimeService's discardCancelledResult) means what
\* CommandOutcome says: "failed" that nothing was changed, "uncertain" for an effect
\* the device does not know of, and then no command before a read that counts.
THEOREM OutcomesImplemented == Spec => ImplementsOutcome
<1>1. Init => Outcome!Init
  BY DEF Init, Outcome!Init, NoJob, Commanding, At, Mutations
<1>2. EInv /\ [Next]_executorVars /\ EInv' => [Outcome!Next]_(Outcome!outcomeVars)
  <2> SUFFICES ASSUME EInv, [Next]_executorVars, EInv'
               PROVE  Outcome!Next \/ UNCHANGED Outcome!outcomeVars
    OBVIOUS
  <2>1. CASE UNCHANGED executorVars
    <3>1. UNCHANGED <<app, job, retained, hist>>
      BY <2>1 DEF executorVars
    <3>2. Commanding' = Commanding /\ SeenOutcome' = SeenOutcome /\ SeenBlock' = SeenBlock
      BY <3>1 DEF Commanding, SeenOutcome, SeenBlock, At
    <3> QED
      BY <3>1, <3>2, Unseen
  <2>2. CASE Read
    <3>1. BeginJob("read", "reconcile", EmptyIntent) /\ UNCHANGED app
      BY <2>2 DEF Read
    <3>2. Outcome!Begin \/ UNCHANGED Outcome!outcomeVars
      BY <3>1, BeginSeen DEF Mutations
    <3> QED
      BY <3>2 DEF Outcome!Next
  <2>3. CASE Toggle \/ Submit
    <3>1. PICK kind \in Mutations, pc \in {"toggleRead", "prepareRead"}, i \in Requests \cup {EmptyIntent} :
              BeginJob(kind, pc, i) /\ ~app.recovery
      BY <2>3 DEF Toggle, Submit, Mutations
    <3>2. Outcome!Begin \/ UNCHANGED Outcome!outcomeVars
      BY <3>1, BeginSeen
    <3> QED
      BY <3>2 DEF Outcome!Next
  <2>4. CASE Calls
    <3>1. CASE Dispatch \/ SetMute
      BY <3>1, ChangeSeen DEF Outcome!Next
    <3>2. CASE Finish
      BY <3>2, FinishSeen DEF Outcome!Next
    <3>3. CASE Reconcile \/ ToggleRead \/ PrepareRead \/ PrepareCheck \/ Check \/ Guard \/ Wait \/ Mute
                 \/ Verify \/ Settle \/ Conclude
      BY <3>3, UnseenCalls
    <3> QED
      BY <2>4, <3>1, <3>2, <3>3 DEF Calls
  <2>5. CASE Cancel \/ Expire \/ Tamper
    BY <2>5, FlagsUnseen
  <2> QED
    BY <2>1, <2>2, <2>3, <2>4, <2>5 DEF Next, Rest
<1> QED
  BY <1>1, <1>2, SessionInvariance, PTL DEF Spec, ImplementsOutcome, Outcome!Spec
===============================================================================

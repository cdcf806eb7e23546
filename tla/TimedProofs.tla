----------------------------- MODULE TimedProofs -----------------------------
(***************************************************************************)
(* The machines in which durations matter, for every value of the          *)
(* constants: an HTTP exchange is bounded, a cover is of the track on      *)
(* display, a lease is backed by its publisher, and an authoritative read  *)
(* is asked for exactly when it is owed.                                   *)
(***************************************************************************)
EXTENDS Household, TopologyLease, DeadlineClient, Artwork, LifecycleProofs

USE DEF NoId

------------------------------------------------------------------------------
(* One HTTP exchange *)

ClientType ==
    [left : Nat, active : BOOLEAN, closed : BOOLEAN, remaining : Nat, timeout : Nat]
Phases == {"connect", "write", "head", "body", "done", "failed"}
ExchangeType ==
    [phase : Phases, at : {"check", "act", "wait", "end"}, rest : Nat \ {0}, idle : Nat, budget : Nat]
HistType == [got : Nat, late : Nat, strays : Nat]

ClientTypeOK == client \in ClientType /\ exchange \in ExchangeType /\ hist \in HistType

\* What has been done since the exchange lost its right to go on, by where its
\* loop stands: nothing before the call that was already checked is over.
LateAt(at) == CASE at = "act" -> 0 [] at = "wait" -> 1 [] at = "check" -> 2 [] at = "end" -> 3
StraysAt(at) == IF at = "act" THEN 0 ELSE 1

ClientInv ==
    /\ ClientTypeOK
    /\ hist.got + client.remaining = MaxRead
    /\ client.closed => client.timeout = 0
    /\ exchange.at = "act" /\ Reading => client.remaining > 0
    /\ hist.late <= LateAt(exchange.at) /\ hist.strays <= StraysAt(exchange.at)
    /\ ~Lapsed => hist.late = 0 /\ hist.strays = 0

\* A step of the loop: what it leaves of the client, and how it is counted.
LEMMA CountedStep ==
    ASSUME ClientInv, NEW attempt \in BOOLEAN, Counted(attempt)
    PROVE  /\ hist' \in HistType /\ hist'.got = hist.got
           /\ hist'.late <= hist.late + 1
           /\ hist'.strays <= hist.strays + 1
           /\ attempt = FALSE => hist'.strays = hist.strays
           /\ ~Lapsed => hist' = hist
<1>1. hist \in HistType
  BY DEF ClientInv, ClientTypeOK
<1>2. CASE Lapsed
  <2> DEFINE n == IF attempt THEN 1 ELSE 0
  <2>1. hist' = [hist EXCEPT !.late = @ + 1, !.strays = @ + n]
    BY <1>2, Zenon DEF Counted
  <2>2. n \in {0, 1}
    OBVIOUS
  <2>3. attempt = FALSE => n = 0
    OBVIOUS
  <2>4. n \in Nat
    BY <2>2
  <2> HIDE DEF n
  <2>5. hist' \in HistType /\ hist'.got = hist.got /\ hist'.late = hist.late + 1
        /\ hist'.strays = hist.strays + n /\ hist.late \in Nat /\ hist.strays \in Nat
    <3>1. hist.got \in Nat /\ hist.late \in Nat /\ hist.strays \in Nat
      BY <1>1 DEF HistType
    <3>2. hist' = [got |-> hist.got, late |-> hist.late + 1, strays |-> hist.strays + n]
      BY <1>1, <2>1 DEF HistType
    <3>3. hist.late + 1 \in Nat /\ hist.strays + n \in Nat
      BY <3>1, <2>4
    <3> QED
      BY <3>1, <3>2, <3>3 DEF HistType
  <2> QED
    <3>1. hist'.late <= hist.late + 1 /\ hist'.strays <= hist.strays + 1
      BY <2>2, <2>5
    <3>2. attempt = FALSE => hist'.strays = hist.strays
      BY <2>3, <2>5
    <3> QED
      BY <1>2, <2>5, <3>1, <3>2, Zenon
<1>3. CASE ~Lapsed
  <2>1. hist' = hist
    BY <1>3 DEF Counted
  <2> QED
    BY <1>1, <1>3, <2>1 DEF HistType
<1> QED
  BY <1>2, <1>3

\* An exchange starts with nothing received and nothing done too late.
LEMMA ClientInitInv == ClientInit => ClientInv
<1> SUFFICES ASSUME ClientInit PROVE ClientInv
  OBVIOUS
<1>1. ClientTypeOK
  BY ClientAssumption
  DEF ClientInit, ClientTypeOK, ClientType, ExchangeType, Phases, HistType
<1> QED
  BY <1>1, ClientAssumption DEF ClientInit, ClientInv, Reading, LateAt, StraysAt

\* The check before an attempt lets nothing through once the exchange has
\* lapsed: it closes the client and ends the loop.
LEMMA CheckKeeps == ClientInv /\ Check => ClientInv'
<1> SUFFICES ASSUME ClientInv, Check PROVE ClientInv'
  OBVIOUS
<1>1. client \in ClientType /\ exchange \in ExchangeType /\ hist \in HistType
  BY DEF ClientInv, ClientTypeOK
<1>2. /\ hist' \in HistType /\ hist'.got = hist.got /\ hist'.late <= hist.late + 1
      /\ hist'.strays <= hist.strays /\ (~Lapsed => hist' = hist)
  <2>1. Counted(FALSE)
    BY DEF Check
  <2> QED
    <3>1. /\ hist' \in HistType /\ hist'.got = hist.got /\ hist'.late <= hist.late + 1
          /\ hist'.strays = hist.strays /\ (~Lapsed => hist' = hist)
      BY <2>1, CountedStep, Zenon
    <3> QED
      BY <1>1, <3>1 DEF HistType
<1>3. exchange.at = "check" /\ hist.late <= 2 /\ hist.strays <= 1
  BY DEF Check, ClientInv, LateAt, StraysAt
<1>4. CASE readable
  <2>1. ~Lapsed /\ hist' = hist /\ hist.late = 0 /\ hist.strays = 0 /\ client' = client
    BY <1>2, <1>4 DEF readable, usable, ClientInv, Check
  <2>2. exchange' \in ExchangeType /\ exchange'.at = "act" /\ exchange'.phase = exchange.phase
    <3> DEFINE idle == IF exchange.phase = "connect" THEN 0 ELSE exchange.idle
               budget == IF client.left < ConnectTimeout THEN client.left ELSE ConnectTimeout
    <3>1. exchange' = [exchange EXCEPT !.at = "act", !.idle = idle, !.budget = budget]
      BY <1>4 DEF Check
    <3>2. idle \in Nat /\ budget \in Nat
      BY <1>1, ClientAssumption DEF ExchangeType, ClientType
    <3> HIDE DEF idle, budget
    <3> QED
      BY <1>1, <3>1, <3>2 DEF ExchangeType
  <2>3. Reading' => client'.remaining > 0
    BY <1>4, <2>1, <2>2 DEF readable, Reading
  <2> QED
    BY <1>1, <1>2, <2>1, <2>2, <2>3 DEF ClientInv, ClientTypeOK, LateAt, StraysAt, Lapsed, Reading
<1>5. CASE ~readable
  <2>1. /\ client' \in ClientType /\ client'.closed /\ client'.timeout = 0
        /\ client'.remaining = client.remaining
        /\ client'.left = client.left /\ client'.active = client.active
    <3>1. client' = IF client.closed THEN client ELSE stop
      BY <1>5 DEF Check
    <3>2. CASE client.closed
      BY <1>1, <3>1, <3>2 DEF ClientInv
    <3>3. CASE ~client.closed
      BY <1>1, <3>1, <3>3 DEF stop, ClientType
    <3> QED
      BY <3>2, <3>3
  <2>2. exchange' = [exchange EXCEPT !.phase = "failed", !.at = "end"]
    <3>1. ~(exchange.idle < client'.timeout)
      BY <1>1, <2>1 DEF ExchangeType
    <3> QED
      BY <1>5, <3>1 DEF Check, Fail, Goto
  <2>3. exchange' \in ExchangeType /\ exchange'.at = "end"
    BY <1>1, <2>2 DEF ExchangeType, Phases
  <2>4. Lapsed' <=> Lapsed
    BY <2>1 DEF Lapsed
  <2> QED
    BY <1>1, <1>2, <1>3, <2>1, <2>3, <2>4
    DEF ClientInv, ClientTypeOK, HistType, ClientType, LateAt, StraysAt
<1> QED
  BY <1>4, <1>5

\* After an attempt: what it leaves of the client and of the exchange is enough
\* for the invariant, for it was checked before the exchange had lapsed.
LEMMA AttemptKeeps ==
    ASSUME ClientInv, exchange.at = "act",
           client' \in ClientType, exchange' \in ExchangeType, hist' \in HistType,
           exchange'.at # "act",
           hist'.got + client'.remaining = hist.got + client.remaining,
           client'.closed => client'.timeout = 0,
           client'.left = client.left, client'.active = client.active,
           hist'.late <= hist.late + 1, hist'.strays <= hist.strays + 1,
           ~Lapsed => hist'.late = hist.late /\ hist'.strays = hist.strays
    PROVE  ClientInv'
<1>1. client \in ClientType /\ exchange \in ExchangeType /\ hist \in HistType
  BY DEF ClientInv, ClientTypeOK
<1>2. hist.late = 0 /\ hist.strays = 0
  BY <1>1 DEF ClientInv, LateAt, StraysAt, HistType
<1>3. hist'.late <= LateAt(exchange'.at) /\ hist'.strays <= StraysAt(exchange'.at)
  BY <1>2 DEF LateAt, StraysAt, ExchangeType, HistType
<1>4. Lapsed' <=> Lapsed
  BY DEF Lapsed
<1>5. ~Lapsed' => hist'.late = 0 /\ hist'.strays = 0
  BY <1>2, <1>4, Zenon
<1>6. hist'.got + client'.remaining = MaxRead
  BY DEF ClientInv
<1> QED
  BY <1>3, <1>5, <1>6 DEF ClientInv, ClientTypeOK

\* Nothing moved: the loop waits or gives up, within the type of the exchange.
LEMMA IdleKeepsType ==
    ASSUME ClientInv, exchange.at = "act", Idle \/ Fail
    PROVE  exchange' \in ExchangeType /\ exchange'.at # "act"
<1>1. exchange \in ExchangeType
  BY DEF ClientInv, ClientTypeOK
<1>2. \/ exchange' = [exchange EXCEPT !.phase = "failed", !.at = "end"]
      \/ exchange' = [exchange EXCEPT !.phase = exchange.phase, !.at = "wait"]
  BY DEF Idle, Fail, Goto
<1> QED
  BY <1>1, <1>2 DEF ExchangeType, Phases

\* A connect touches nothing but the connection.
LEMMA ConnectKeeps == ClientInv /\ Connect => ClientInv'
<1> SUFFICES ASSUME ClientInv, Connect PROVE ClientInv'
  OBVIOUS
<1>1. client \in ClientType /\ exchange \in ExchangeType /\ hist \in HistType
  BY DEF ClientInv, ClientTypeOK
<1>2. exchange.at = "act" /\ exchange.phase = "connect"
  BY DEF Connect, At
<1>3. /\ hist' \in HistType /\ hist'.got = hist.got /\ hist'.late <= hist.late + 1
      /\ hist'.strays = hist.strays /\ (~Lapsed => hist' = hist)
  <2>1. Counted(FALSE)
    BY DEF Connect
  <2> QED
    BY <2>1, CountedStep, Zenon
<1>4. /\ client' \in ClientType /\ client'.remaining = client.remaining
      /\ client'.left = client.left /\ client'.active = client.active
      /\ client'.closed => client'.timeout = 0
  <2>1. client' \in {client, stop}
    BY DEF Connect
  <2>2. CASE client' = client
    BY <1>1, <2>2 DEF ClientInv
  <2>3. CASE client' = stop
    BY <1>1, <2>3 DEF stop, ClientType
  <2> QED
    BY <2>1, <2>2, <2>3
<1>5. exchange' \in ExchangeType /\ exchange'.at # "act"
  <2>1. CASE Fail
    BY <1>2, <2>1, IdleKeepsType
  <2>2. CASE exchange' = [exchange EXCEPT !.phase = "write", !.at = "check", !.idle = 0]
    BY <1>1, <2>2 DEF ExchangeType, Phases
  <2> QED
    BY <2>1, <2>2 DEF Connect
<1>6. hist'.got + client'.remaining = hist.got + client.remaining /\ hist'.strays <= hist.strays + 1
  BY <1>1, <1>3, <1>4 DEF HistType
<1> QED
  BY <1>2, <1>3, <1>4, <1>5, <1>6, AttemptKeeps

\* A write that goes out, waits or fails reads nothing.
LEMMA WriteKeeps == ClientInv /\ Write => ClientInv'
<1> SUFFICES ASSUME ClientInv, Write PROVE ClientInv'
  OBVIOUS
<1>1. client \in ClientType /\ exchange \in ExchangeType /\ hist \in HistType
  BY DEF ClientInv, ClientTypeOK
<1>2. exchange.at = "act" /\ exchange.phase = "write"
  BY DEF Write, At
<1>3. /\ hist' \in HistType /\ hist'.got = hist.got /\ hist'.late <= hist.late + 1
      /\ hist'.strays <= hist.strays + 1 /\ (~Lapsed => hist' = hist)
  <2>1. Counted(TRUE)
    BY DEF Write
  <2> QED
    BY <2>1, CountedStep, Zenon
<1>4. /\ client' \in ClientType /\ client'.remaining = client.remaining
      /\ client'.left = client.left /\ client'.active = client.active
      /\ client'.closed => client'.timeout = 0
  <2>1. client' \in {client, stop}
    BY DEF Write
  <2>2. CASE client' = client
    BY <1>1, <2>2 DEF ClientInv
  <2>3. CASE client' = stop
    BY <1>1, <2>3 DEF stop, ClientType
  <2> QED
    BY <2>1, <2>2, <2>3
<1>5. exchange' \in ExchangeType /\ exchange'.at # "act"
  <2>1. CASE Idle \/ Fail
    BY <1>2, <2>1, IdleKeepsType
  <2>2. CASE exchange' = IF exchange.rest = 1
                         THEN [exchange EXCEPT !.phase = "head", !.at = "check", !.idle = 0]
                         ELSE [exchange EXCEPT !.at = "check", !.rest = @ - 1, !.idle = 0]
    <3>1. CASE exchange.rest = 1
      BY <1>1, <2>2, <3>1 DEF ExchangeType, Phases
    <3>2. CASE exchange.rest # 1
      <4>1. exchange.rest - 1 \in Nat \ {0}
        BY <1>1, <3>2 DEF ExchangeType
      <4> QED
        BY <1>1, <2>2, <3>2, <4>1 DEF ExchangeType
    <3> QED
      BY <3>1, <3>2
  <2> QED
    BY <2>1, <2>2 DEF Write
<1>6. hist'.got + client'.remaining = hist.got + client.remaining
  BY <1>3, <1>4
<1> QED
  BY <1>2, <1>3, <1>4, <1>5, <1>6, AttemptKeeps

\* A byte that is received is counted against what may still be.
LEMMA TookKeeps ==
    ASSUME ClientInv, exchange.at = "act", Reading, client' = Received, Took,
           exchange' \in ExchangeType, exchange'.at # "act"
    PROVE  ClientInv'
<1>1. client \in ClientType /\ exchange \in ExchangeType /\ hist \in HistType
  BY DEF ClientInv, ClientTypeOK
<1>2. client.remaining > 0
  BY DEF ClientInv
<1> DEFINE n == IF Lapsed THEN 1 ELSE 0
<1>3. n \in Nat /\ n <= 1 /\ (~Lapsed => n = 0)
  OBVIOUS
<1>4. hist' = [hist EXCEPT !.got = @ + 1, !.late = @ + n, !.strays = @ + n]
  BY DEF Took
<1> HIDE DEF n
<1>5. hist.got \in Nat /\ hist.late \in Nat /\ hist.strays \in Nat
  BY <1>1 DEF HistType
<1>6. hist' = [got |-> hist.got + 1, late |-> hist.late + n, strays |-> hist.strays + n]
  BY <1>1, <1>4 DEF HistType
<1>7. /\ hist' \in HistType /\ hist'.got = hist.got + 1
      /\ hist'.late = hist.late + n /\ hist'.strays = hist.strays + n
  BY <1>3, <1>5, <1>6 DEF HistType
<1>8. /\ client' \in ClientType /\ client'.remaining = client.remaining - 1
      /\ client'.left = client.left /\ client'.active = client.active
      /\ client'.closed => client'.timeout = 0
  <2>1. CASE client.remaining = 1
    <3>1. client' = [stop EXCEPT !.remaining = 0]
      BY <2>1 DEF Received
    <3>2. /\ stop \in ClientType /\ stop.timeout = 0
          /\ stop.left = client.left /\ stop.active = client.active
      BY <1>1 DEF stop, ClientType
    <3>3. /\ client' \in ClientType /\ client'.remaining = 0 /\ client'.timeout = 0
          /\ client'.left = client.left /\ client'.active = client.active
      BY <3>1, <3>2 DEF ClientType
    <3>4. 0 = client.remaining - 1
      BY <2>1
    <3> QED
      BY <3>3, <3>4
  <2>2. CASE client.remaining # 1
    <3>1. client' = [client EXCEPT !.remaining = client.remaining - 1]
      BY <2>2 DEF Received
    <3>2. client.remaining - 1 \in Nat
      BY <1>1, <1>2 DEF ClientType
    <3> QED
      <4>1. /\ client' \in ClientType /\ client'.remaining = client.remaining - 1
            /\ client'.left = client.left /\ client'.active = client.active
            /\ client'.closed = client.closed /\ client'.timeout = client.timeout
        BY <1>1, <3>1, <3>2 DEF ClientType
      <4>2. client.closed => client.timeout = 0
        BY DEF ClientInv
      <4> QED
        BY <4>1, <4>2
  <2> QED
    BY <2>1, <2>2
<1>9. hist'.got + client'.remaining = hist.got + client.remaining
  BY <1>1, <1>5, <1>7, <1>8 DEF ClientType
<1>10. /\ hist'.late <= hist.late + 1 /\ hist'.strays <= hist.strays + 1
       /\ ~Lapsed => hist'.late = hist.late /\ hist'.strays = hist.strays
  BY <1>3, <1>5, <1>7
<1> QED
  BY <1>7, <1>8, <1>9, <1>10, AttemptKeeps

\* A byte of the head, or the wait for one.
LEMMA ReadHeadKeeps == ClientInv /\ ReadHead => ClientInv'
<1> SUFFICES ASSUME ClientInv, ReadHead PROVE ClientInv'
  OBVIOUS
<1>1. client \in ClientType /\ exchange \in ExchangeType /\ hist \in HistType
  BY DEF ClientInv, ClientTypeOK
<1>2. exchange.at = "act" /\ exchange.phase = "head" /\ Reading
  BY DEF ReadHead, At, Reading
<1>3. ASSUME client' = Received, Took, NEW ends \in BOOLEAN,
             exchange' = IF ends THEN [exchange EXCEPT !.phase = "body", !.at = "check", !.idle = 0,
                                                       !.rest = BodySize]
                         ELSE [exchange EXCEPT !.at = "check", !.idle = 0]
      PROVE  ClientInv'
  <2>1. exchange' \in ExchangeType /\ exchange'.at # "act"
    <3>1. CASE ends = TRUE
      BY <1>1, <1>3, <3>1, ClientAssumption DEF ExchangeType, Phases
    <3>2. CASE ends = FALSE
      BY <1>1, <1>3, <3>2 DEF ExchangeType
    <3> QED
      BY <3>1, <3>2
  <2> QED
    BY <1>2, <1>3, <2>1, TookKeeps
<1>4. ASSUME IF exchange.idle < client.timeout THEN Goto("head", "check") ELSE Fail,
             client' = client, Counted(TRUE)
      PROVE  ClientInv'
  <2>1. /\ hist' \in HistType /\ hist'.got = hist.got /\ hist'.late <= hist.late + 1
        /\ hist'.strays <= hist.strays + 1 /\ (~Lapsed => hist' = hist)
    BY <1>4, CountedStep, Zenon
  <2>2. exchange' \in ExchangeType /\ exchange'.at # "act"
    <3>1. \/ exchange' = [exchange EXCEPT !.phase = "head", !.at = "check"]
          \/ exchange' = [exchange EXCEPT !.phase = "failed", !.at = "end"]
      BY <1>4 DEF Goto, Fail
    <3> QED
      BY <1>1, <3>1 DEF ExchangeType, Phases
  <2>3. hist'.got + client'.remaining = hist.got + client.remaining
        /\ (client'.closed => client'.timeout = 0)
    BY <1>4, <2>1 DEF ClientInv
  <2> QED
    BY <1>1, <1>2, <1>4, <2>1, <2>2, <2>3, AttemptKeeps
<1> QED
  BY <1>3, <1>4 DEF ReadHead

\* A byte of the body, the wait for one, or its end.
LEMMA ReadBodyKeeps == ClientInv /\ ReadBody => ClientInv'
<1> SUFFICES ASSUME ClientInv, ReadBody PROVE ClientInv'
  OBVIOUS
<1>1. client \in ClientType /\ exchange \in ExchangeType /\ hist \in HistType
  BY DEF ClientInv, ClientTypeOK
<1>2. exchange.at = "act" /\ exchange.phase = "body" /\ Reading
  BY DEF ReadBody, At, Reading
<1>3. ASSUME client' = Received, Took,
             exchange' = IF exchange.rest = 1 THEN [exchange EXCEPT !.phase = "done", !.at = "end"]
                         ELSE [exchange EXCEPT !.at = "check", !.rest = @ - 1, !.idle = 0]
      PROVE  ClientInv'
  <2>1. CASE exchange.rest = 1
    <3>1. exchange' \in ExchangeType /\ exchange'.at # "act"
      BY <1>1, <1>3, <2>1 DEF ExchangeType, Phases
    <3> QED
      BY <1>2, <1>3, <3>1, TookKeeps
  <2>2. CASE exchange.rest # 1
    <3>1. exchange.rest - 1 \in Nat \ {0}
      BY <1>1, <2>2 DEF ExchangeType
    <3>2. exchange' \in ExchangeType /\ exchange'.at # "act"
      BY <1>1, <1>3, <2>2, <3>1 DEF ExchangeType
    <3> QED
      BY <1>2, <1>3, <3>2, TookKeeps
  <2> QED
    BY <2>1, <2>2
<1>4. ASSUME Idle \/ Fail, client' = client, Counted(TRUE)
      PROVE  ClientInv'
  <2>1. /\ hist' \in HistType /\ hist'.got = hist.got /\ hist'.late <= hist.late + 1
        /\ hist'.strays <= hist.strays + 1 /\ (~Lapsed => hist' = hist)
    BY <1>4, CountedStep, Zenon
  <2>2. exchange' \in ExchangeType /\ exchange'.at # "act"
    BY <1>2, <1>4, IdleKeepsType
  <2>3. hist'.got + client'.remaining = hist.got + client.remaining
        /\ (client'.closed => client'.timeout = 0)
    BY <1>4, <2>1 DEF ClientInv
  <2> QED
    BY <1>1, <1>2, <1>4, <2>1, <2>2, <2>3, AttemptKeeps
<1> QED
  BY <1>3, <1>4 DEF ReadBody

\* The wait between two attempts ends with another check.
LEMMA WaitKeeps == ClientInv /\ Wait => ClientInv'
<1> SUFFICES ASSUME ClientInv, Wait PROVE ClientInv'
  OBVIOUS
<1>1. client \in ClientType /\ exchange \in ExchangeType /\ hist \in HistType
  BY DEF ClientInv, ClientTypeOK
<1>2. exchange.at = "wait" /\ client' = client /\ hist.late <= 1 /\ hist.strays <= 1
  BY DEF Wait, ClientInv, LateAt, StraysAt
<1>3. /\ hist' \in HistType /\ hist'.got = hist.got /\ hist'.late <= hist.late + 1
      /\ hist'.strays = hist.strays /\ (~Lapsed => hist' = hist)
  <2>1. Counted(FALSE)
    BY DEF Wait
  <2> QED
    BY <2>1, CountedStep, Zenon
<1>4. exchange' \in ExchangeType /\ exchange'.at = "check"
  <2>1. exchange' = [exchange EXCEPT !.phase = exchange.phase, !.at = "check"]
    BY DEF Wait, Goto
  <2> QED
    BY <1>1, <2>1 DEF ExchangeType
<1>5. hist'.late <= LateAt(exchange'.at) /\ hist'.strays <= StraysAt(exchange'.at)
  BY <1>1, <1>2, <1>3, <1>4 DEF LateAt, StraysAt, HistType
<1>6. ~Lapsed' => hist'.late = 0 /\ hist'.strays = 0
  BY <1>2, <1>3 DEF ClientInv, Lapsed
<1>7. hist'.got + client'.remaining = MaxRead /\ (client'.closed => client'.timeout = 0)
  BY <1>2, <1>3 DEF ClientInv
<1> QED
  BY <1>1, <1>2, <1>3, <1>4, <1>5, <1>6, <1>7 DEF ClientInv, ClientTypeOK

\* The deadline or the end of the job may come in the middle of anything.
LEMMA LapseKeeps == ClientInv /\ (ClientTick \/ JobEnds \/ UNCHANGED clientVars) => ClientInv'
<1> SUFFICES ASSUME ClientInv, ClientTick \/ JobEnds \/ UNCHANGED clientVars PROVE ClientInv'
  OBVIOUS
<1>1. client \in ClientType /\ exchange \in ExchangeType /\ hist \in HistType
  BY DEF ClientInv, ClientTypeOK
<1>2. /\ client' \in ClientType /\ client'.remaining = client.remaining
      /\ client'.closed = client.closed /\ client'.timeout = client.timeout
      /\ Lapsed => Lapsed'
  <2>1. CASE ClientTick
    <3> DEFINE left == IF client.left = 0 THEN 0 ELSE client.left - 1
    <3>1. left \in Nat /\ (client.left = 0 => left = 0)
      BY <1>1 DEF ClientType
    <3>2. client' = [client EXCEPT !.left = left]
      BY <2>1 DEF ClientTick
    <3> HIDE DEF left
    <3> QED
      BY <1>1, <3>1, <3>2 DEF ClientType, Lapsed
  <2>2. CASE JobEnds
    BY <1>1, <2>2 DEF JobEnds, ClientType, Lapsed
  <2>3. CASE UNCHANGED clientVars
    BY <1>1, <2>3 DEF clientVars, Lapsed
  <2> QED
    BY <2>1, <2>2, <2>3
<1>3. exchange' \in ExchangeType /\ exchange'.at = exchange.at /\ exchange'.phase = exchange.phase
  <2>1. CASE ClientTick
    <3> DEFINE idle == IF exchange.idle < Timeout + ConnectTimeout THEN exchange.idle + 1
                                                                   ELSE exchange.idle
    <3>1. idle \in Nat
      BY <1>1 DEF ExchangeType
    <3>2. exchange' = [exchange EXCEPT !.idle = idle]
      BY <2>1 DEF ClientTick
    <3> HIDE DEF idle
    <3> QED
      BY <1>1, <3>1, <3>2 DEF ExchangeType
  <2>2. CASE JobEnds
    BY <1>1, <2>2 DEF JobEnds
  <2>3. CASE UNCHANGED clientVars
    BY <1>1, <2>3 DEF clientVars
  <2> QED
    BY <2>1, <2>2, <2>3
<1>4. hist' = hist
  BY DEF ClientTick, JobEnds, clientVars
<1> QED
  BY <1>1, <1>2, <1>3, <1>4, Zenon DEF ClientInv, ClientTypeOK, Reading

\* The exchange is bounded at every moment, whatever the peer sends and whenever
\* the job or its deadline ends.
THEOREM ExchangeInvariance == ClientSpec => []ClientInv
<1>1. ClientInit => ClientInv
  BY ClientInitInv
<1>2. ClientInv /\ [ClientNext]_clientVars => ClientInv'
  BY CheckKeeps, ConnectKeeps, WriteKeeps, ReadHeadKeeps, ReadBodyKeeps, WaitKeeps, LapseKeeps
  DEF ClientNext, Step, Rest
<1> QED
  BY <1>1, <1>2, PTL DEF ClientSpec

\* DeadlineClient: after the deadline or the end of the job the socket is touched
\* once more at most, three steps end the loop, and no response is longer than MaxRead.
THEOREM RequestsAreBounded == ClientSpec => []RequestIsBounded
<1>1. ClientInv => RequestIsBounded
  <2> SUFFICES ASSUME ClientInv PROVE RequestIsBounded
    OBVIOUS
  <2>1. client \in ClientType /\ exchange \in ExchangeType /\ hist \in HistType
    BY DEF ClientInv, ClientTypeOK
  <2>2. hist.late <= 3 /\ hist.strays <= 1
    BY <2>1 DEF ClientInv, LateAt, StraysAt, ExchangeType, HistType
  <2>3. hist.got <= MaxRead
    BY <2>1 DEF ClientInv, ClientType, HistType
  <2> QED
    BY <2>2, <2>3 DEF RequestIsBounded
<1> QED
  BY <1>1, ExchangeInvariance, PTL

------------------------------------------------------------------------------
(* The cover *)

\* A queue of one
Queue(S) == {<<>>} \cup {<<x>> : x \in S}

ArtType ==
    [track : Tracks \cup {""}, url : Urls \cup {NoUrl}, generation : Nat, ready : BOOLEAN,
     failed : BOOLEAN, retryAt : Nat]
RequestType == [token : Nat, track : Tracks \cup {""}, url : Urls \cup {NoUrl}]
ResultType == [token : Nat, pixels : SUBSET RequestType]
IoType ==
    [requests : Queue(RequestType), completions : Queue(ResultType), wanted : Nat,
     running : BOOLEAN, started : BOOLEAN, startRetry : Nat, stopping : BOOLEAN]
TaskType ==
    [at : {"wait", "load", "send"}, request : RequestType, pixels : SUBSET RequestType]

CoverTypeOK ==
    /\ observed \in Observations /\ now \in Nat
    /\ art \in ArtType /\ io \in IoType /\ task \in TaskType

\* What carries a token was asked for no later than now; if its token is the
\* present one, it is of what the state is about.
Matches(r, a) ==
    /\ r.token <= a.generation
    /\ r.token = a.generation => r.track = a.track /\ r.url = a.url

\* A result carries the pixels of its own request.
Result(d, a) == \A p \in d.pixels : p.token = d.token /\ Matches(p, a)

\* A request is in one of the three places, exactly while one is running.
InOnePlace ==
    /\ io.requests # <<>> => io.running /\ io.completions = <<>> /\ task.at = "wait"
    /\ io.completions # <<>> => io.running /\ io.requests = <<>> /\ task.at = "wait"
    /\ task.at # "wait" => io.running /\ io.requests = <<>> /\ io.completions = <<>>
    /\ io.running => io.requests # <<>> \/ io.completions # <<>> \/ task.at # "wait"

Shown == \A p \in visible : art.ready /\ p.track = art.track /\ p.url = art.url

CoverInv ==
    /\ CoverTypeOK
    /\ InOnePlace
    /\ \A r \in RequestType : io.requests = <<r>> => Matches(r, art)
    /\ task.at # "wait" => Matches(task.request, art)
    /\ task.pixels \subseteq {task.request}
    /\ \A d \in ResultType : io.completions = <<d>> => Result(d, art)
    /\ Shown

\* A queue is empty or holds one, which is its head.
LEMMA QueueOfOne ==
    ASSUME NEW S, NEW q \in Queue(S)
    PROVE  /\ q = <<>> => Len(q) = 0
           /\ q # <<>> => Len(q) = 1 /\ Head(q) \in S /\ q = <<Head(q)>>
<1>1. CASE q = <<>>
  BY <1>1
<1>2. CASE \E x \in S : q = <<x>>
  <2> PICK x \in S : q = <<x>>
    BY <1>2
  <2>1. Head(q) = x /\ Len(q) = 1
    OBVIOUS
  <2> QED
    BY <2>1
<1> QED
  BY <1>1, <1>2 DEF Queue

\* The places of a request, counted.
LEMMA PlacesCounted ==
    ASSUME CoverTypeOK
    PROVE  InOnePlace <=> InFlight = (IF io.running THEN 1 ELSE 0)
<1>1. /\ io.requests \in Queue(RequestType) /\ io.completions \in Queue(ResultType)
      /\ io.running \in BOOLEAN
  BY DEF CoverTypeOK, IoType
<1>2. /\ io.requests = <<>> => Len(io.requests) = 0
      /\ io.requests # <<>> => Len(io.requests) = 1
  BY <1>1, QueueOfOne
<1>3. /\ io.completions = <<>> => Len(io.completions) = 0
      /\ io.completions # <<>> => Len(io.completions) = 1
  BY <1>1, QueueOfOne
<1> DEFINE busy == task.at # "wait"
           m == Len(io.requests)
           n == Len(io.completions)
<1>4. InFlight = m + n + (IF busy THEN 1 ELSE 0)
  BY DEF InFlight
<1> HIDE DEF m, n
<1>5. (io.requests # <<>> /\ m = 1) \/ (io.requests = <<>> /\ m = 0)
  BY <1>2 DEF m
<1>6. (io.completions # <<>> /\ n = 1) \/ (io.completions = <<>> /\ n = 0)
  BY <1>3 DEF n
<1> QED
  BY <1>1, <1>4, <1>5, <1>6 DEF InOnePlace

\* A reading of the clock is a number.
LEMMA InNat ==
    ASSUME NEW t \in Nat, now \in Nat
    PROVE  In(t) \in Nat
BY ArtworkAssumption DEF In

\* The invariant contains the property it is made for.
LEMMA CoverImplies == CoverInv => CoverIsOfTheTrack
BY PlacesCounted DEF CoverInv, Shown, CoverIsOfTheTrack

\* At the start there is no picture, and nothing on its way.
LEMMA CoverInitInv == CoverInit => CoverInv
<1> SUFFICES ASSUME CoverInit PROVE CoverInv
  OBVIOUS
<1>1. observed \in Observations /\ now \in Nat
  BY ArtworkAssumption DEF CoverInit
<1>2. art = NoPicture /\ NoPicture \in ArtType
  BY DEF CoverInit, NoPicture, ArtType, NoUrl
<1>3. /\ io.requests = <<>> /\ io.completions = <<>> /\ io.running = FALSE
      /\ io \in IoType
  BY DEF CoverInit, IoType, Queue
<1>4. Request(NoPicture) \in RequestType
  BY DEF Request, NoPicture, RequestType, NoUrl
<1>5. task \in TaskType /\ task.at = "wait" /\ task.pixels = {}
  BY <1>4 DEF CoverInit, Waiting, TaskType
<1>6. \A x : <<>> # <<x>>
  OBVIOUS
<1>7. visible = {}
  BY DEF CoverInit
<1> QED
  BY <1>1, <1>2, <1>3, <1>5, <1>6, <1>7 DEF CoverInv, CoverTypeOK, InOnePlace, Shown

\* The selection is another generation exactly if it is of another cover: what
\* matched still does, for a token of the new generation was never given out.
LEMMA Selection ==
    ASSUME CoverTypeOK
    PROVE  /\ selected \in ArtType
           /\ selected = art \/ (selected.generation = art.generation + 1 /\ ~selected.ready)
           /\ selected.generation = art.generation => selected = art
           /\ \A r \in RequestType : Matches(r, art) => Matches(r, selected)
           /\ \A n \in Nat : n <= art.generation => n <= selected.generation
<1>1. art \in ArtType /\ observed \in Observations
  BY DEF CoverTypeOK
<1>2. art.generation \in Nat
  BY <1>1 DEF ArtType
<1>3. CASE art.track = observed.track /\ art.url = observed.url
  <2>1. selected = art
    BY <1>3 DEF selected
  <2> QED
    BY <1>1, <2>1
<1>4. CASE ~(art.track = observed.track /\ art.url = observed.url)
  <2>1. selected = [track |-> observed.track, url |-> observed.url,
                    generation |-> art.generation + 1, ready |-> FALSE, failed |-> FALSE,
                    retryAt |-> 0]
    BY <1>4 DEF selected
  <2>2. selected \in ArtType
    <3>1. observed.track \in Tracks \cup {""} /\ observed.url \in Urls \cup {NoUrl}
      BY <1>1 DEF Observations
    <3>2. art.generation + 1 \in Nat
      BY <1>2
    <3> QED
      BY <2>1, <3>1, <3>2 DEF ArtType
  <2>3. selected.generation = art.generation + 1 /\ selected.ready = FALSE
    BY <2>1
  <2>4. ASSUME NEW r \in RequestType, Matches(r, art)
        PROVE  Matches(r, selected)
    <3>1. r.token \in Nat /\ r.token <= art.generation
      BY <2>4 DEF Matches, RequestType
    <3> QED
      BY <1>2, <2>3, <3>1 DEF Matches
  <2> QED
    BY <1>2, <2>2, <2>3, <2>4
<1> QED
  BY <1>3, <1>4

\* A turn of the main task.
LEMMA UpdateKeeps == CoverInv /\ Update => CoverInv'
<1> SUFFICES ASSUME CoverInv, Update PROVE CoverInv'
  OBVIOUS
<1> DEFINE changed == selected.generation # art.generation
           own     == {d \in Arrived : Accepts(selected, d)}
           pixels  == UNION {d.pixels : d \in own}
           after   == IF own = {} THEN selected ELSE complete(selected, pixels # {})
           running == io.running /\ Arrived = {}
           wants   == ~running /\ wantsLoad(after)
           begins  == wants /\ ~io.started /\ Reached(io.startRetry)
           full    == io.requests # <<>>
<1>1. PICK created \in BOOLEAN :
        LET started == io.started \/ (begins /\ created)
            sends   == wants /\ started
        IN  /\ art' = IF sends /\ full THEN complete(after, FALSE) ELSE after
            /\ visible' = IF own # {} THEN pixels ELSE IF changed THEN {} ELSE visible
            /\ io' = [io EXCEPT
                        !.wanted = selected.generation,
                        !.completions = IF Arrived = {} THEN @ ELSE <<>>,
                        !.running = running \/ (sends /\ ~full),
                        !.started = started,
                        !.startRetry = IF begins THEN In(Retry) ELSE @,
                        !.requests = IF sends /\ ~full THEN <<Request(after)>> ELSE @]
  BY DEF Update
<1> DEFINE started == io.started \/ (begins /\ created)
           sends   == wants /\ started
<1>2. UNCHANGED <<observed, now, task, changes>>
  BY DEF Update
<1>3. /\ CoverTypeOK /\ art \in ArtType /\ io \in IoType /\ task \in TaskType
      /\ observed \in Observations /\ now \in Nat
  BY DEF CoverInv, CoverTypeOK
<1>4. /\ selected \in ArtType
      /\ selected = art \/ (selected.generation = art.generation + 1 /\ ~selected.ready)
      /\ selected.generation = art.generation => selected = art
      /\ \A r \in RequestType : Matches(r, art) => Matches(r, selected)
  BY <1>3, Selection
<1>5. /\ io.requests \in Queue(RequestType) /\ io.completions \in Queue(ResultType)
      /\ io.running \in BOOLEAN /\ io.started \in BOOLEAN /\ io.startRetry \in Nat
  BY <1>3 DEF IoType
<1>6. ASSUME NEW d \in Arrived
      PROVE  d \in ResultType /\ io.completions = <<d>> /\ Result(d, art)
  <2>1. io.completions # <<>> /\ d = Head(io.completions)
    BY DEF Arrived
  <2>2. d \in ResultType /\ io.completions = <<d>>
    BY <1>5, <2>1, QueueOfOne
  <2> QED
    BY <2>2 DEF CoverInv
<1>7. pixels \in SUBSET RequestType
  BY <1>6 DEF ResultType
<1>8. ASSUME NEW p \in pixels
      PROVE  p.track = selected.track /\ p.url = selected.url
  <2>1. PICK d \in own : p \in d.pixels
    OBVIOUS
  <2>2. Result(d, art) /\ d.token = selected.generation
    BY <1>6 DEF Accepts
  <2>3. p.token = selected.generation /\ Matches(p, art)
    BY <2>1, <2>2 DEF Result
  <2>4. Matches(p, selected)
    BY <1>4, <1>7, <2>3
  <2> QED
    BY <2>3, <2>4 DEF Matches
<1> HIDE DEF own, pixels
<1>9. /\ after \in ArtType /\ after.generation = selected.generation
      /\ after.track = selected.track /\ after.url = selected.url
      /\ own = {} => after = selected
      /\ own # {} => (after.ready <=> pixels # {})
  <2>1. In(Retry) \in Nat
    BY <1>3, InNat, ArtworkAssumption
  <2>2. CASE own = {}
    BY <1>4, <2>2
  <2>3. CASE own # {}
    <3> DEFINE success == pixels # {}
    <3>1. after = [selected EXCEPT !.ready = success, !.failed = ~success, !.retryAt = In(Retry)]
      BY <2>3 DEF complete
    <3>2. success \in BOOLEAN
      OBVIOUS
    <3> HIDE DEF success, after
    <3>3. /\ after \in ArtType /\ after.generation = selected.generation
          /\ after.track = selected.track /\ after.url = selected.url
          /\ after.ready = success
      BY <1>4, <2>1, <3>1, <3>2 DEF ArtType
    <3> QED
      BY <2>3, <3>2, <3>3 DEF success
  <2> QED
    BY <2>2, <2>3
<1>10. ~running => io.requests = <<>> /\ task.at = "wait" /\ (io.completions = <<>> \/ Arrived # {})
  <2>1. InOnePlace
    BY DEF CoverInv
  <2>2. CASE io.running
    <3>1. ~running => Arrived # {}
      BY <2>2
    <3>2. Arrived # {} => io.completions # <<>>
      BY DEF Arrived
    <3> QED
      BY <2>1, <3>1, <3>2 DEF InOnePlace
  <2>3. CASE ~io.running
    BY <2>1, <2>3 DEF InOnePlace
  <2> QED
    BY <2>2, <2>3
<1> HIDE DEF changed, after, running
<1>11. art' = after
  BY <1>1, <1>10
<1>12. /\ io' \in IoType
       /\ io'.completions = IF Arrived = {} THEN io.completions ELSE <<>>
       /\ io'.running = (running \/ (sends /\ ~full))
       /\ io'.requests = IF sends /\ ~full THEN <<Request(after)>> ELSE io.requests
  <2> DEFINE completions == IF Arrived = {} THEN io.completions ELSE <<>>
             runs == running \/ (sends /\ ~full)
             startRetry == IF begins THEN In(Retry) ELSE io.startRetry
             requests == IF sends /\ ~full THEN <<Request(after)>> ELSE io.requests
  <2>1. io' = [io EXCEPT !.wanted = selected.generation, !.completions = completions,
                         !.running = runs, !.started = started, !.startRetry = startRetry,
                         !.requests = requests]
    BY <1>1, Zenon
  <2>2. selected.generation \in Nat
    BY <1>4 DEF ArtType
  <2>3. completions \in Queue(ResultType)
    BY <1>5 DEF Queue
  <2>4. runs \in BOOLEAN /\ started \in BOOLEAN
    BY <1>5 DEF running
  <2>5. startRetry \in Nat
    BY <1>3, <1>5, InNat, ArtworkAssumption
  <2>6. requests \in Queue(RequestType)
    <3>1. Request(after) \in RequestType
      BY <1>9 DEF Request, RequestType, ArtType
    <3> QED
      BY <1>5, <3>1 DEF Queue
  <2> HIDE DEF completions, runs, startRetry, requests, started
  <2>7. /\ io' \in IoType /\ io'.completions = completions /\ io'.running = runs
        /\ io'.requests = requests
    BY <1>3, <2>1, <2>2, <2>3, <2>4, <2>5, <2>6 DEF IoType
  <2> QED
    BY <2>7 DEF completions, runs, requests, started
<1>13. CoverTypeOK'
  BY <1>2, <1>3, <1>9, <1>11, <1>12 DEF CoverTypeOK
<1>14. InOnePlace'
  <2>0. task' = task /\ io.running \in BOOLEAN /\ InOnePlace
    BY <1>2, <1>5 DEF CoverInv
  <2>1. CASE running
    <3>1. io.running /\ Arrived = {} /\ ~sends
      BY <2>1 DEF running
    <3>2. /\ io'.running = TRUE /\ io'.completions = io.completions
          /\ io'.requests = io.requests
      BY <1>12, <2>1, <3>1
    <3> QED
      BY <2>0, <3>1, <3>2 DEF InOnePlace
  <2>2. CASE ~running
    <3>1. io.requests = <<>> /\ task.at = "wait" /\ ~full
      BY <1>10, <2>2
    <3>2. io'.completions = <<>>
      BY <1>10, <1>12, <2>2
    <3>3. CASE sends
      <4>1. io'.running = TRUE /\ io'.requests = <<Request(after)>>
        BY <1>12, <3>1, <3>3, Zenon
      <4>2. io'.requests # <<>>
        BY <4>1
      <4> QED
        BY <2>0, <3>1, <3>2, <4>1, <4>2 DEF InOnePlace
    <3>4. CASE ~sends
      <4>1. io'.running = FALSE /\ io'.requests = <<>>
        BY <1>12, <2>2, <3>1, <3>4
      <4> QED
        BY <2>0, <3>1, <3>2, <4>1 DEF InOnePlace
    <3> QED
      BY <3>3, <3>4
  <2> QED
    BY <2>1, <2>2
<1>15. ASSUME NEW r \in RequestType, Matches(r, art)
       PROVE  Matches(r, art')
  BY <1>4, <1>9, <1>11, <1>15 DEF Matches
<1>16. ASSUME NEW r \in RequestType, io'.requests = <<r>>
       PROVE  Matches(r, art')
  <2>1. CASE io'.requests = io.requests
    BY <1>15, <1>16, <2>1 DEF CoverInv
  <2>2. CASE io'.requests = <<Request(after)>>
    <3>1. r = Request(after)
      BY <1>16, <2>2
    <3> QED
      <4>1. r.token = after.generation /\ r.track = after.track /\ r.url = after.url
        BY <3>1 DEF Request
      <4>2. after.generation \in Nat
        BY <1>9 DEF ArtType
      <4> QED
        BY <1>11, <4>1, <4>2 DEF Matches
  <2> QED
    BY <1>12, <2>1, <2>2
<1>17. /\ task'.at # "wait" => Matches(task'.request, art')
       /\ task'.pixels \subseteq {task'.request}
  <2>1. task.request \in RequestType
    BY <1>3 DEF TaskType
  <2> QED
    BY <1>2, <1>15, <2>1 DEF CoverInv
<1>18. ASSUME NEW d \in ResultType, io'.completions = <<d>>
       PROVE  Result(d, art')
  <2>1. io'.completions = io.completions
    BY <1>12, <1>18
  <2>2. Result(d, art)
    BY <1>18, <2>1 DEF CoverInv
  <2> QED
    BY <1>15, <2>2 DEF Result, ResultType
<1>19. Shown'
  <2> SUFFICES ASSUME NEW p \in visible'
               PROVE  after.ready /\ p.track = after.track /\ p.url = after.url
    BY <1>11 DEF Shown
  <2>1. CASE own # {}
    <3>1. visible' = pixels
      BY <1>1, <2>1
    <3> QED
      BY <1>8, <1>9, <2>1, <3>1
  <2>2. CASE own = {}
    <3>1. visible' = visible /\ ~changed
      BY <1>1, <2>2
    <3>2. after = art
      BY <1>4, <1>9, <2>2, <3>1 DEF changed
    <3> QED
      BY <3>1, <3>2 DEF CoverInv, Shown
  <2> QED
    BY <2>1, <2>2
<1> QED
  BY <1>13, <1>14, <1>16, <1>17, <1>18, <1>19 DEF CoverInv

\* The task takes the request it was sent.
LEMMA ReceiveKeeps == CoverInv /\ Receive => CoverInv'
<1> SUFFICES ASSUME CoverInv, Receive PROVE CoverInv'
  OBVIOUS
<1>1. /\ CoverTypeOK /\ io \in IoType /\ InOnePlace
      /\ io.requests \in Queue(RequestType) /\ io.completions \in Queue(ResultType)
  BY DEF CoverInv, CoverTypeOK, IoType
<1>2. io.requests # <<>> /\ UNCHANGED <<observed, now, art, visible, changes>>
  BY DEF Receive
<1> DEFINE r == Head(io.requests)
<1>3. r \in RequestType /\ io.requests = <<r>>
  BY <1>1, <1>2, QueueOfOne
<1>4. Matches(r, art)
  BY <1>3 DEF CoverInv
<1>5. task' = [at |-> "load", request |-> r, pixels |-> {}]
  BY DEF Receive
<1> HIDE DEF r
<1>6. /\ task' \in TaskType /\ task'.at = "load" /\ task'.request = r /\ task'.pixels = {}
  BY <1>3, <1>5 DEF TaskType
<1>7. /\ io' \in IoType /\ io'.requests = <<>> /\ io'.completions = io.completions
      /\ io'.running = io.running
  <2>1. io' = [io EXCEPT !.requests = <<>>] /\ <<>> \in Queue(RequestType)
    BY DEF Receive, Queue
  <2> QED
    BY <1>1, <2>1 DEF IoType
<1>8. CoverTypeOK'
  BY <1>1, <1>2, <1>6, <1>7 DEF CoverTypeOK
<1>9. InOnePlace'
  BY <1>1, <1>2, <1>6, <1>7 DEF InOnePlace
<1>10. Shown' /\ Matches(task'.request, art') /\ task'.pixels \subseteq {task'.request}
  BY <1>2, <1>4, <1>6 DEF CoverInv, Shown
<1>11. ASSUME NEW x \in RequestType, io'.requests = <<x>>
       PROVE  FALSE
  <2>1. <<>> # <<x>>
    OBVIOUS
  <2> QED
    BY <1>7, <1>11, <2>1
<1>12. ASSUME NEW d \in ResultType, io'.completions = <<d>>
       PROVE  Result(d, art')
  BY <1>2, <1>7, <1>12 DEF CoverInv
<1> QED
  BY <1>8, <1>9, <1>10, <1>11, <1>12 DEF CoverInv

\* The task decodes what it received, or fails.
LEMMA LoadKeeps == CoverInv /\ Load => CoverInv'
<1> SUFFICES ASSUME CoverInv, Load PROVE CoverInv'
  OBVIOUS
<1>1. CoverTypeOK /\ task \in TaskType /\ task.request \in RequestType /\ InOnePlace
  BY DEF CoverInv, CoverTypeOK, TaskType
<1>2. task.at = "load" /\ UNCHANGED <<observed, now, art, visible, io, changes>>
  BY DEF Load
<1>3. /\ task' \in TaskType /\ task'.at = "send" /\ task'.request = task.request
      /\ task'.pixels \subseteq {task'.request}
  <2>1. CASE task' = [task EXCEPT !.at = "send", !.pixels = {task.request}]
    BY <1>1, <2>1 DEF TaskType
  <2>2. CASE task' = [task EXCEPT !.at = "send"]
    BY <1>1, <2>2 DEF TaskType, CoverInv
  <2> QED
    BY <2>1, <2>2 DEF Load
<1>4. CoverTypeOK' /\ InOnePlace'
  BY <1>1, <1>2, <1>3 DEF CoverTypeOK, InOnePlace
<1>5. Matches(task'.request, art') /\ Shown'
  BY <1>2, <1>3 DEF CoverInv, Shown
<1> QED
  BY <1>2, <1>3, <1>4, <1>5 DEF CoverInv

\* The task hands its result over: there is room, for a request is in one place.
LEMMA SendKeeps == CoverInv /\ SendCompletion => CoverInv'
<1> SUFFICES ASSUME CoverInv, SendCompletion PROVE CoverInv'
  OBVIOUS
<1>1. /\ CoverTypeOK /\ io \in IoType /\ task \in TaskType /\ InOnePlace
      /\ task.request \in RequestType /\ task.pixels \in SUBSET RequestType
  BY DEF CoverInv, CoverTypeOK, TaskType
<1>2. task.at = "send" /\ UNCHANGED <<observed, now, art, visible, changes>>
  BY DEF SendCompletion
<1>3. io.requests = <<>> /\ io.completions = <<>> /\ io.running
  BY <1>1, <1>2 DEF InOnePlace
<1> DEFINE d == [token |-> task.request.token, pixels |-> task.pixels]
<1>4. d \in ResultType /\ d.token = task.request.token /\ d.pixels = task.pixels
  BY <1>1 DEF ResultType, RequestType
<1>5. Result(d, art)
  BY <1>2, <1>4 DEF CoverInv, Result
<1>6. io' = [io EXCEPT !.completions = <<d>>]
  BY <1>3 DEF SendCompletion
<1> HIDE DEF d
<1>7. <<d>> \in Queue(ResultType) /\ <<d>> # <<>>
  BY <1>4 DEF Queue
<1>8. /\ io' \in IoType /\ io'.completions = <<d>> /\ io'.requests = <<>>
      /\ io'.running = io.running
  BY <1>1, <1>3, <1>6, <1>7 DEF IoType
<1>9. task' \in TaskType /\ task'.at = "wait" /\ task'.pixels = {}
  <2>1. Request(NoPicture) \in RequestType
    BY DEF Request, NoPicture, RequestType, NoUrl
  <2> QED
    BY <2>1 DEF SendCompletion, Waiting, TaskType
<1>10. CoverTypeOK'
  BY <1>1, <1>2, <1>8, <1>9 DEF CoverTypeOK
<1>11. InOnePlace'
  BY <1>3, <1>7, <1>8, <1>9 DEF InOnePlace
<1>12. Shown'
  BY <1>2 DEF CoverInv, Shown
<1>13. ASSUME NEW x \in RequestType, io'.requests = <<x>>
       PROVE  FALSE
  <2>1. <<>> # <<x>>
    OBVIOUS
  <2> QED
    BY <1>8, <1>13, <2>1
<1>14. ASSUME NEW x \in ResultType, io'.completions = <<x>>
       PROVE  Result(x, art')
  <2>1. x = d
    BY <1>8, <1>14
  <2> QED
    BY <1>2, <1>5, <2>1
<1> QED
  BY <1>9, <1>10, <1>11, <1>12, <1>13, <1>14 DEF CoverInv

\* The observation, the clock and the stop touch neither the state nor a request.
LEMMA SurroundingsKeep ==
    CoverInv /\ (Stop \/ Observe \/ CoverTick \/ UNCHANGED artVars) => CoverInv'
<1> SUFFICES ASSUME CoverInv, Stop \/ Observe \/ CoverTick \/ UNCHANGED artVars PROVE CoverInv'
  OBVIOUS
<1>1. /\ CoverTypeOK /\ io \in IoType /\ InOnePlace
      /\ observed \in Observations /\ now \in Nat
  BY DEF CoverInv, CoverTypeOK
<1>2. art' = art /\ visible' = visible /\ task' = task
  BY DEF Stop, Observe, CoverTick, artVars
<1>3. observed' \in Observations
  BY <1>1 DEF Stop, Observe, CoverTick, artVars
<1>4. now' \in Nat
  BY <1>1, InNat DEF Stop, Observe, CoverTick, artVars
<1>5. /\ io' \in IoType /\ io'.requests = io.requests /\ io'.completions = io.completions
      /\ io'.running = io.running
  <2>1. io' \in {io, [io EXCEPT !.stopping = TRUE]}
    BY DEF Stop, Observe, CoverTick, artVars
  <2> QED
    BY <1>1, <2>1 DEF IoType
<1>6. CoverTypeOK' /\ InOnePlace'
  BY <1>1, <1>2, <1>3, <1>4, <1>5 DEF CoverTypeOK, InOnePlace
<1> QED
  BY <1>2, <1>5, <1>6, Zenon DEF CoverInv, Shown

\* Whatever is on its way is of a generation the state has had, and what is on the
\* screen is of the present one.
THEOREM CoverInvariance == CoverSpec => []CoverInv
<1>1. CoverInit => CoverInv
  BY CoverInitInv
<1>2. CoverInv /\ [CoverNext]_artVars => CoverInv'
  BY UpdateKeeps, ReceiveKeeps, LoadKeeps, SendKeeps, SurroundingsKeep DEF CoverNext, Work
<1> QED
  BY <1>1, <1>2, PTL DEF CoverSpec

\* Artwork: the pixels on display are of the track on display, and a request is in
\* one place, wherever millis wraps and however often the observation changes.
THEOREM CoversAreOfTheTrack == CoverSpec => []CoverIsOfTheTrack
<1>1. CoverInv => CoverIsOfTheTrack
  BY CoverImplies
<1> QED
  BY <1>1, CoverInvariance, PTL

------------------------------------------------------------------------------
(* The household *)

\* The authority of the household is owed an authoritative read in every state
\* but Ready, except while a routine refresh is under way.
Owes(x, owes) ==
    /\ x.state \in {"Offline", "Backoff"} => owes = TRUE
    /\ x.state = "Discovering" => owes = x.recovering
    /\ x.state = "Ready" => owes = FALSE

HouseholdInv ==
    /\ SonosOK(s) /\ owed \in BOOLEAN
    /\ Owes(s, owed)

\* An authoritative read is asked for exactly if it is owed, and then no longer is.
Told(x, owes, r, after) ==
    /\ Owes(r.sonos, after)
    /\ "reconcile" \in r.fx <=> x.state = "Discovering" /\ r.sonos.state = "Ready" /\ owes = TRUE
    /\ x.state = "Discovering" /\ r.sonos.state = "Ready" => after = FALSE

After(r, lost, owes) == lost \/ (owes /\ r.sonos.state # "Ready")

\* What the machine does to itself, by what it means to the one who owes.
LEMMA MachineTells ==
    ASSUME NEW x, SonosOK(x), NEW owes \in BOOLEAN, Owes(x, owes), NEW id
    PROVE  /\ Told(x, owes, SonosStays(x), After(SonosStays(x), FALSE, owes))
           /\ x.state \in {"Offline", "Backoff"} =>
                  Told(x, owes, BeginDiscovery(x, id, TRUE),
                       After(BeginDiscovery(x, id, TRUE), FALSE, owes))
           /\ x.state = "Ready" =>
                  Told(x, owes, BeginDiscovery(x, id, FALSE),
                       After(BeginDiscovery(x, id, FALSE), FALSE, owes))
           /\ x.state = "Discovering" =>
                  Told(x, owes, BecomeReady(x), After(BecomeReady(x), FALSE, owes))
           /\ \A failure \in BOOLEAN :
                  Told(x, owes, SonosBackoff(x, failure), After(SonosBackoff(x, failure), TRUE, owes))
           /\ Told(x, owes, SonosStop(x), After(SonosStop(x), TRUE, owes))
<1>1. x \in SonosType /\ x.state \in SonosStates /\ x.recovering \in BOOLEAN
  BY DEF SonosOK, SonosType
<1>2. Told(x, owes, SonosStays(x), After(SonosStays(x), FALSE, owes))
  <2>1. SonosStays(x).sonos = x /\ SonosStays(x).fx = {}
    BY DEF SonosStays
  <2>2. After(SonosStays(x), FALSE, owes) = owes
    BY <2>1 DEF After, Owes
  <2> QED
    BY <2>1, <2>2 DEF Told
<1>3. ASSUME x.state \in {"Offline", "Backoff"}
      PROVE  Told(x, owes, BeginDiscovery(x, id, TRUE), After(BeginDiscovery(x, id, TRUE), FALSE, owes))
  <2> DEFINE r == BeginDiscovery(x, id, TRUE)
  <2>1. r.sonos.state = "Discovering" /\ r.sonos.recovering = TRUE /\ r.fx = {"discoveryRequested"}
    BY <1>1 DEF BeginDiscovery, SonosType
  <2> HIDE DEF r
  <2>2. owes = TRUE /\ After(r, FALSE, owes) = TRUE
    BY <1>3, <2>1 DEF Owes, After
  <2>3. Told(x, owes, r, After(r, FALSE, owes))
    BY <1>3, <2>1, <2>2 DEF Told, Owes
  <2> QED
    BY <2>3 DEF r
<1>4. ASSUME x.state = "Ready"
      PROVE  Told(x, owes, BeginDiscovery(x, id, FALSE), After(BeginDiscovery(x, id, FALSE), FALSE, owes))
  <2> DEFINE r == BeginDiscovery(x, id, FALSE)
  <2>1. r.sonos.state = "Discovering" /\ r.sonos.recovering = FALSE /\ r.fx = {"discoveryRequested"}
    BY <1>1 DEF BeginDiscovery, SonosType
  <2> HIDE DEF r
  <2>2. owes = FALSE /\ After(r, FALSE, owes) = FALSE
    BY <1>4, <2>1 DEF Owes, After
  <2>3. Told(x, owes, r, After(r, FALSE, owes))
    BY <1>4, <2>1, <2>2 DEF Told, Owes
  <2> QED
    BY <2>3 DEF r
<1>5. ASSUME x.state = "Discovering"
      PROVE  Told(x, owes, BecomeReady(x), After(BecomeReady(x), FALSE, owes))
  <2> DEFINE r == BecomeReady(x)
  <2>1. r.sonos.state = "Ready" /\ ("reconcile" \in r.fx <=> x.recovering = TRUE)
    BY <1>1 DEF BecomeReady, SonosType
  <2> HIDE DEF r
  <2>2. owes = x.recovering /\ After(r, FALSE, owes) = FALSE
    BY <1>5, <2>1 DEF Owes, After
  <2>3. Told(x, owes, r, After(r, FALSE, owes))
    BY <1>5, <2>1, <2>2 DEF Told, Owes
  <2> QED
    BY <2>3 DEF r
<1>6. ASSUME NEW failure \in BOOLEAN
      PROVE  Told(x, owes, SonosBackoff(x, failure), After(SonosBackoff(x, failure), TRUE, owes))
  <2> DEFINE r == SonosBackoff(x, failure)
  <2>1. r.sonos.state = "Backoff" /\ "reconcile" \notin r.fx
    BY <1>1 DEF SonosBackoff, SonosType
  <2> HIDE DEF r
  <2>2. After(r, TRUE, owes) = TRUE
    BY DEF After
  <2>3. Told(x, owes, r, After(r, TRUE, owes))
    BY <2>1, <2>2 DEF Told, Owes
  <2> QED
    BY <2>3 DEF r
<1>7. Told(x, owes, SonosStop(x), After(SonosStop(x), TRUE, owes))
  <2> DEFINE r == SonosStop(x)
  <2>1. r.sonos.state = "Offline" /\ "reconcile" \notin r.fx
    BY <1>1 DEF SonosStop, SonosStays, OfflineSonos
  <2> HIDE DEF r
  <2>2. After(r, TRUE, owes) = TRUE
    BY DEF After
  <2>3. Told(x, owes, r, After(r, TRUE, owes))
    BY <2>1, <2>2 DEF Told, Owes
  <2> QED
    BY <2>3 DEF r
<1> QED
  BY <1>2, <1>3, <1>4, <1>5, <1>6, <1>7

\* The step of the property
Reconciles ==
    /\ "reconcile" \in fx' <=> s.state = "Discovering" /\ s'.state = "Ready" /\ owed
    /\ s.state = "Discovering" /\ s'.state = "Ready" => ~owed'

\* A reaction does to the two what the machine tells.
LEMMA ReactionTells ==
    ASSUME HouseholdInv, NEW r, NEW lost \in BOOLEAN, NEW n, Reacts(r, lost, n),
           SonosResultOK(r), Told(s, owed, r, After(r, lost, owed))
    PROVE  HouseholdInv' /\ Reconciles
<1>1. s' = r.sonos /\ fx' = r.fx /\ owed' = After(r, lost, owed)
  BY DEF Reacts, After
<1>2. owed' \in BOOLEAN /\ owed \in BOOLEAN
  BY <1>1 DEF After, HouseholdInv
<1>3. SonosOK(s)'
  BY <1>1 DEF SonosResultOK, SonosOK
<1>4. Owes(s, owed)'
  BY <1>1 DEF Told, Owes
<1>5. Reconciles
  BY <1>1, <1>2 DEF Told, Reconciles
<1> QED
  BY <1>2, <1>3, <1>4, <1>5 DEF HouseholdInv

\* An event that is not for the machine in its state changes nothing.
LEMMA Unmoved ==
    ASSUME HouseholdInv, NEW n, Reacts(SonosStays(s), FALSE, n)
    PROVE  HouseholdInv' /\ Reconciles
<1>1. SonosOK(s) /\ owed \in BOOLEAN /\ Owes(s, owed)
  BY DEF HouseholdInv
<1>2. Told(s, owed, SonosStays(s), After(SonosStays(s), FALSE, owed))
  BY <1>1, MachineTells
<1>3. SonosResultOK(SonosStays(s))
  <2>1. SonosStays(s).sonos = s /\ SonosStays(s) \in [sonos : SonosType, fx : SUBSET SonosEffects]
    BY <1>1 DEF SonosStays, SonosOK
  <2> QED
    BY <1>1, <2>1 DEF SonosResultOK, SonosOK
<1> QED
  BY <1>2, <1>3, ReactionTells

\* Every step of the household keeps the invariant and asks for an authoritative
\* read exactly if one is owed.
LEMMA HouseholdStep == HouseholdInv /\ HouseholdNext => HouseholdInv' /\ Reconciles
<1> SUFFICES ASSUME HouseholdInv, HouseholdNext PROVE HouseholdInv' /\ Reconciles
  OBVIOUS
<1>1. SonosOK(s) /\ owed \in BOOLEAN /\ Owes(s, owed) /\ s \in SonosType
  BY DEF HouseholdInv, SonosOK
<1>2. ASSUME NEW id \in FreshDiscovery
      PROVE  id \in Nat \ {NoId}
  BY HouseholdAssumption DEF FreshDiscovery, FreshIn
<1>3. ASSUME NEW id \in DiscoveryIds
      PROVE  id \in Nat
  BY HouseholdAssumption
<1>4. CASE NetworkAvailable
  <2> PICK id \in FreshDiscovery : Reacts(SonosNetworkAvailable(s, id), FALSE, streak)
    BY <1>4 DEF NetworkAvailable
  <2>1. CASE s.state = "Offline"
    <3>1. SonosNetworkAvailable(s, id) = BeginDiscovery(s, id, TRUE)
      BY <2>1 DEF SonosNetworkAvailable
    <3>2. SonosResultOK(BeginDiscovery(s, id, TRUE))
      BY <1>1, <1>2, <3>1, 0 \in Nat, SonosHandlers
    <3>3. Told(s, owed, BeginDiscovery(s, id, TRUE), After(BeginDiscovery(s, id, TRUE), FALSE, owed))
      BY <1>1, <2>1, MachineTells
    <3> QED
      BY <3>1, <3>2, <3>3, ReactionTells
  <2>2. CASE s.state # "Offline"
    BY <2>2, Unmoved DEF SonosNetworkAvailable
  <2> QED
    BY <2>1, <2>2
<1>5. CASE NetworkLost
  <2>1. Reacts(SonosStop(s), TRUE, 0)
    BY <1>5 DEF NetworkLost
  <2>2. SonosResultOK(SonosStop(s))
    BY <1>1, SonosStopNetwork
  <2>3. Told(s, owed, SonosStop(s), After(SonosStop(s), TRUE, owed))
    BY <1>1, MachineTells
  <2> QED
    BY <2>1, <2>2, <2>3, ReactionTells
<1>6. CASE RefreshRequested
  <2> PICK id \in FreshDiscovery : Reacts(SonosRefreshRequested(s, id), FALSE, streak)
    BY <1>6 DEF RefreshRequested
  <2>1. CASE s.state = "Ready"
    <3>1. SonosRefreshRequested(s, id) = BeginDiscovery(s, id, FALSE)
      BY <2>1 DEF SonosRefreshRequested
    <3>2. SonosResultOK(BeginDiscovery(s, id, FALSE))
      BY <1>1, <1>2, <3>1, 0 \in Nat, SonosHandlers
    <3>3. Told(s, owed, BeginDiscovery(s, id, FALSE), After(BeginDiscovery(s, id, FALSE), FALSE, owed))
      BY <1>1, <2>1, MachineTells
    <3> QED
      BY <3>1, <3>2, <3>3, ReactionTells
  <2>2. CASE s.state # "Ready"
    BY <2>2, Unmoved DEF SonosRefreshRequested
  <2> QED
    BY <2>1, <2>2
<1>7. CASE DiscoverySucceeded
  <2> PICK id \in DiscoveryIds : Reacts(SonosDiscoverySucceeded(s, id), FALSE, streak)
    BY <1>7 DEF DiscoverySucceeded
  <2>1. CASE s.state = "Discovering" /\ id = s.discoveryId /\ s.left > 0
    <3>1. SonosDiscoverySucceeded(s, id) = BecomeReady(s)
      BY <2>1 DEF SonosDiscoverySucceeded
    <3>2. SonosResultOK(BecomeReady(s))
      BY <1>1, <1>3, <3>1, 1 \in Nat \ {NoId}, SonosHandlers
    <3>3. Told(s, owed, BecomeReady(s), After(BecomeReady(s), FALSE, owed))
      BY <1>1, <2>1, MachineTells
    <3> QED
      BY <3>1, <3>2, <3>3, ReactionTells
  <2>2. CASE ~(s.state = "Discovering" /\ id = s.discoveryId /\ s.left > 0)
    BY <2>2, Unmoved DEF SonosDiscoverySucceeded
  <2> QED
    BY <2>1, <2>2
<1>8. CASE DiscoveryFailed
  <2> PICK id \in DiscoveryIds :
          Reacts(SonosDiscoveryFailed(s, id), s.state = "Discovering" /\ id = s.discoveryId, streak)
    BY <1>8 DEF DiscoveryFailed
  <2>1. CASE s.state = "Discovering" /\ id = s.discoveryId
    <3>1. SonosDiscoveryFailed(s, id) = SonosBackoff(s, FALSE)
      BY <2>1 DEF SonosDiscoveryFailed
    <3>2. SonosResultOK(SonosBackoff(s, FALSE))
      BY <1>1, <1>3, <3>1, 1 \in Nat \ {NoId}, SonosHandlers
    <3>3. Told(s, owed, SonosBackoff(s, FALSE), After(SonosBackoff(s, FALSE), TRUE, owed))
      BY <1>1, MachineTells
    <3>4. (s.state = "Discovering" /\ id = s.discoveryId) = TRUE
      BY <2>1
    <3>5. Reacts(SonosBackoff(s, FALSE), TRUE, streak)
      BY <3>1, <3>4
    <3> QED
      BY <3>2, <3>3, <3>5, ReactionTells
  <2>2. CASE ~(s.state = "Discovering" /\ id = s.discoveryId)
    <3>1. SonosDiscoveryFailed(s, id) = SonosStays(s)
      BY <2>2 DEF SonosDiscoveryFailed
    <3>2. (s.state = "Discovering" /\ id = s.discoveryId) = FALSE
      BY <2>2
    <3>3. Reacts(SonosStays(s), FALSE, streak)
      BY <3>1, <3>2
    <3> QED
      BY <3>3, Unmoved
  <2> QED
    BY <2>1, <2>2
<1>9. CASE SessionFailed
  <2> PICK id \in DiscoveryIds :
          LET counts == s.state \in {"Discovering", "Ready"} /\ id = s.discoveryId
          IN  Reacts(SonosSessionFailure(s, id), counts, IF counts THEN Bump(streak) ELSE streak)
    BY <1>9 DEF SessionFailed
  <2> DEFINE counts == s.state \in {"Discovering", "Ready"} /\ id = s.discoveryId
             n == IF counts THEN Bump(streak) ELSE streak
  <2>1. Reacts(SonosSessionFailure(s, id), counts, n)
    OBVIOUS
  <2> HIDE DEF n
  <2>2. CASE counts
    <3>1. SonosSessionFailure(s, id) = SonosBackoff(s, TRUE)
      BY <2>2 DEF SonosSessionFailure
    <3>2. SonosResultOK(SonosBackoff(s, TRUE))
      BY <1>1, <1>3, <3>1, 1 \in Nat \ {NoId}, SonosHandlers
    <3>3. Told(s, owed, SonosBackoff(s, TRUE), After(SonosBackoff(s, TRUE), TRUE, owed))
      BY <1>1, MachineTells
    <3>4. counts = TRUE
      BY <2>2
    <3>5. Reacts(SonosBackoff(s, TRUE), TRUE, n)
      BY <2>1, <3>1, <3>4
    <3> QED
      BY <3>2, <3>3, <3>5, ReactionTells
  <2>3. CASE ~counts
    <3>1. SonosSessionFailure(s, id) = SonosStays(s)
      BY <2>3 DEF SonosSessionFailure
    <3>2. counts = FALSE
      BY <2>3
    <3>3. Reacts(SonosStays(s), FALSE, n)
      BY <2>1, <3>1, <3>2
    <3> QED
      BY <3>3, Unmoved
  <2> QED
    BY <2>2, <2>3
<1>10. CASE SessionSucceeded
  <2> PICK id \in DiscoveryIds :
          LET counts == s.state = "Ready" /\ id = s.discoveryId
          IN  Reacts(SonosSessionSucceeded(s, id), FALSE, IF counts THEN 0 ELSE streak)
    BY <1>10 DEF SessionSucceeded
  <2> DEFINE n == IF s.state = "Ready" /\ id = s.discoveryId THEN 0 ELSE streak
             r == SonosSessionSucceeded(s, id)
  <2>1. Reacts(r, FALSE, n)
    OBVIOUS
  <2>2. SonosResultOK(r)
    BY <1>1, <1>3, 1 \in Nat \ {NoId}, SonosHandlers
  <2>3. r.fx = {} /\ r.sonos.state = s.state /\ r.sonos.recovering = s.recovering
    BY <1>1 DEF SonosSessionSucceeded, SonosStays, SonosType
  <2> HIDE DEF n, r
  <2>4. After(r, FALSE, owed) = owed
    BY <1>1, <2>3 DEF After, Owes
  <2>5. Told(s, owed, r, After(r, FALSE, owed))
    BY <1>1, <2>3, <2>4 DEF Told, Owes
  <2> QED
    BY <2>1, <2>2, <2>5, ReactionTells
<1>11. CASE HouseholdTick
  <2> PICK id \in FreshDiscovery :
          Reacts(SonosTick(s, id), s.state = "Discovering" /\ s.left = 0, streak)
    BY <1>11 DEF HouseholdTick
  <2>1. SonosResultOK(SonosTick(s, id))
    BY <1>1, <1>2, 0 \in Nat, SonosHandlers
  <2>2. CASE s.state = "Discovering" /\ s.left = 0
    <3>1. SonosTick(s, id) = SonosBackoff(s, FALSE)
      BY <2>2 DEF SonosTick
    <3>2. Told(s, owed, SonosBackoff(s, FALSE), After(SonosBackoff(s, FALSE), TRUE, owed))
      BY <1>1, MachineTells
    <3>3. (s.state = "Discovering" /\ s.left = 0) = TRUE
      BY <2>2
    <3>4. Reacts(SonosBackoff(s, FALSE), TRUE, streak)
      BY <3>1, <3>3
    <3> QED
      BY <2>1, <3>1, <3>2, <3>4, ReactionTells
  <2>3. CASE s.state = "Backoff" /\ s.left = 0
    <3>1. SonosTick(s, id) = BeginDiscovery(s, id, TRUE)
      BY <2>3 DEF SonosTick
    <3>2. Told(s, owed, BeginDiscovery(s, id, TRUE), After(BeginDiscovery(s, id, TRUE), FALSE, owed))
      BY <1>1, <2>3, MachineTells
    <3>3. (s.state = "Discovering" /\ s.left = 0) = FALSE
      BY <2>3
    <3>4. Reacts(BeginDiscovery(s, id, TRUE), FALSE, streak)
      BY <3>1, <3>3
    <3> QED
      BY <2>1, <3>1, <3>2, <3>4, ReactionTells
  <2>4. CASE ~(s.state \in {"Discovering", "Backoff"} /\ s.left = 0)
    <3>1. SonosTick(s, id) = SonosStays(s)
      BY <2>4 DEF SonosTick
    <3>2. (s.state = "Discovering" /\ s.left = 0) = FALSE
      BY <2>4
    <3>3. Reacts(SonosStays(s), FALSE, streak)
      BY <3>1, <3>2
    <3> QED
      BY <3>3, Unmoved
  <2> QED
    BY <2>2, <2>3, <2>4
<1>12. CASE HouseholdTime
  <2> DEFINE n == Elapsed(s.left)
  <2>1. /\ s' = [s EXCEPT !.left = n] /\ fx' = {} /\ owed' = owed
        /\ n \in Nat /\ n <= s.left /\ s.left > 0
    BY <1>1, <1>12, ElapsedNat DEF HouseholdTime, SonosType
  <2> HIDE DEF n
  <2>2. /\ s' \in SonosType /\ s'.state = s.state /\ s'.recovering = s.recovering /\ s'.left = n
        /\ s'.network = s.network /\ s'.discoveryId = s.discoveryId /\ s'.attempts = s.attempts
    BY <1>1, <2>1 DEF SonosType
  <2>3. s.state \notin {"Offline", "Ready"}
    BY <1>1, <2>1 DEF SonosOK, SonosInvariant, OfflineSonos
  <2>4. SonosInvariant(s')
    <3>1. SonosInvariant(s) /\ s.left \in Nat /\ s.network \in BOOLEAN
      BY <1>1 DEF SonosOK, SonosType
    <3>2. s.left <= DiscoveryBudget => n <= DiscoveryBudget
      BY <2>1, <3>1, DiscoveryAssumption
    <3>3. s.left <= MaximumBackoff => n <= MaximumBackoff
      BY <2>1, <3>1, BackoffAssumption
    <3> QED
      BY <2>2, <2>3, <3>1, <3>2, <3>3, Zenon DEF SonosInvariant
  <2>5. HouseholdInv'
    BY <1>1, <2>1, <2>2, <2>4 DEF HouseholdInv, SonosOK, Owes
  <2>6. Reconciles
    BY <2>1, <2>2 DEF Reconciles
  <2> QED
    BY <2>5, <2>6
<1> QED
  BY <1>4, <1>5, <1>6, <1>7, <1>8, <1>9, <1>10, <1>11, <1>12 DEF HouseholdNext

\* The household starts without a network and owing a read.
LEMMA HouseholdInitInv == HouseholdInit => HouseholdInv
<1> SUFFICES ASSUME HouseholdInit PROVE HouseholdInv
  OBVIOUS
<1>1. s = OfflineSonos /\ owed = TRUE
  BY DEF HouseholdInit
<1>2. SonosOK(OfflineSonos)
  BY DEF SonosOK, OfflineSonos, SonosType, SonosStates, SonosInvariant
<1> QED
  BY <1>1, <1>2 DEF HouseholdInv, Owes, OfflineSonos

\* What is owed follows from the state the household is in.
THEOREM HouseholdInvariance == HouseholdSpec => []HouseholdInv
<1>1. HouseholdInv /\ [HouseholdNext]_householdVars => HouseholdInv'
  <2>1. HouseholdInv /\ UNCHANGED householdVars => HouseholdInv'
    BY DEF HouseholdInv, householdVars, Owes
  <2> QED
    BY <2>1, HouseholdStep
<1> QED
  BY <1>1, HouseholdInitInv, PTL DEF HouseholdSpec

\* SonosHealth: the machine has the shape its header promises.
THEOREM HouseholdTypeCorrect == HouseholdSpec => []HouseholdTypeOK
<1>1. HouseholdInv => HouseholdTypeOK
  BY DEF HouseholdInv, SonosOK, HouseholdTypeOK
<1> QED
  BY <1>1, HouseholdInvariance, PTL

\* SonosHealth: an authoritative read is asked for exactly when authority was lost
\* and is regained, in whatever order events and time arrive.
THEOREM ReconciledExactlyWhenOwed == HouseholdSpec => ReconcileExactlyWhenOwed
<1>1. HouseholdInv /\ [HouseholdNext]_householdVars => [Reconciles]_householdVars
  BY HouseholdStep
<1>2. [Reconciles]_householdVars =>
        [/\ "reconcile" \in fx' <=> s.state = "Discovering" /\ s'.state = "Ready" /\ owed
         /\ s.state = "Discovering" /\ s'.state = "Ready" => ~owed']_householdVars
  BY DEF Reconciles
<1> QED
  BY <1>1, <1>2, HouseholdInvariance, PTL DEF HouseholdSpec, ReconcileExactlyWhenOwed

\* The row of session failures is what the machine itself counts.
RowInv == HouseholdInv /\ streak = s.failures

\* The step of the property
Grows ==
    streak' > 0 /\ s'.state = "Backoff" /\ s.state # "Backoff" /\ "invalidateSession" \in fx'
    => s'.left >= RetryDelay(streak')

\* Only the two outcomes of a session and the loss of the network move the
\* counter of the row.
LEMMA RowKept ==
    ASSUME NEW x, SonosOK(x), NEW id
    PROVE  \A r \in {SonosNetworkAvailable(x, id), SonosRefreshRequested(x, id),
                     SonosDiscoverySucceeded(x, id), SonosDiscoveryFailed(x, id),
                     SonosTick(x, id), SonosStays(x)} :
              r.sonos.failures = x.failures /\ "invalidateSession" \notin r.fx
<1>1. x \in SonosType
  BY DEF SonosOK
<1>2. SonosStays(x).sonos.failures = x.failures /\ "invalidateSession" \notin SonosStays(x).fx
  BY DEF SonosStays
<1>3. \A recovering :
         /\ BeginDiscovery(x, id, recovering).sonos.failures = x.failures
         /\ "invalidateSession" \notin BeginDiscovery(x, id, recovering).fx
  BY <1>1 DEF BeginDiscovery, SonosType
<1>4. /\ BecomeReady(x).sonos.failures = x.failures
      /\ "invalidateSession" \notin BecomeReady(x).fx
  BY <1>1 DEF BecomeReady, SonosType
<1>5. /\ SonosBackoff(x, FALSE).sonos.failures = x.failures
      /\ "invalidateSession" \notin SonosBackoff(x, FALSE).fx
  BY <1>1 DEF SonosBackoff, SonosType
<1>6. /\ SonosNetworkAvailable(x, id) \in {BeginDiscovery(x, id, TRUE), SonosStays(x)}
      /\ SonosRefreshRequested(x, id) \in {BeginDiscovery(x, id, FALSE), SonosStays(x)}
      /\ SonosDiscoverySucceeded(x, id) \in {BecomeReady(x), SonosStays(x)}
      /\ SonosDiscoveryFailed(x, id) \in {SonosBackoff(x, FALSE), SonosStays(x)}
      /\ SonosTick(x, id) \in {SonosBackoff(x, FALSE), BeginDiscovery(x, id, TRUE), SonosStays(x)}
  BY DEF SonosNetworkAvailable, SonosRefreshRequested, SonosDiscoverySucceeded,
         SonosDiscoveryFailed, SonosTick
<1> QED
  BY <1>2, <1>3, <1>4, <1>5, <1>6, Zenon

\* The delay after a session failure is at least that of its row.
LEMMA RowDelays ==
    ASSUME NEW x, SonosOK(x)
    PROVE  LET y == SonosBackoff(x, TRUE).sonos
           IN  y.failures = Bump(x.failures) /\ y.left >= RetryDelay(y.failures)
<1> DEFINE n == Bump(x.failures)
           row == IF n > x.attempts THEN n ELSE x.attempts
           y == SonosBackoff(x, TRUE).sonos
<1>1. x \in SonosType /\ x.attempts \in Nat /\ x.failures \in Nat
  BY DEF SonosOK, SonosType
<1>2. n \in Nat
  BY <1>1, BumpPositive
<1>3. y = [x EXCEPT !.state = "Backoff", !.left = RetryDelay(row), !.discoveryId = NoId,
                    !.failures = n, !.recovering = TRUE]
  BY DEF SonosBackoff
<1> HIDE DEF n, y
<1>4. row \in Nat /\ n <= row
  BY <1>1, <1>2
<1> HIDE DEF row
<1>5. y.failures = n /\ y.left = RetryDelay(row)
  BY <1>1, <1>3 DEF SonosType
<1>6. RetryDelay(n) <= RetryDelay(row) /\ RetryDelay(n) \in Nat /\ RetryDelay(row) \in Nat
  BY <1>2, <1>4, RetryDelayGrows, RetryDelayRange
<1>7. y.left >= RetryDelay(y.failures)
  BY <1>5, <1>6
<1> QED
  BY <1>5, <1>7 DEF n, y

\* Every step of the household counts the row as its observer does, and backs
\* off for no less than the row demands.
LEMMA RowStep == RowInv /\ HouseholdNext => streak' = s'.failures /\ Grows
<1> SUFFICES ASSUME RowInv, HouseholdNext PROVE streak' = s'.failures /\ Grows
  OBVIOUS
<1>1. SonosOK(s) /\ s \in SonosType /\ s.failures \in Nat /\ streak = s.failures
  BY DEF RowInv, HouseholdInv, SonosOK, SonosType
<1>2. ASSUME NEW r, NEW lost, Reacts(r, lost, streak),
             r.sonos.failures = s.failures /\ "invalidateSession" \notin r.fx
      PROVE  streak' = s'.failures /\ Grows
  BY <1>1, <1>2 DEF Reacts, Grows
<1>3. CASE NetworkAvailable
  BY <1>1, <1>2, <1>3, RowKept DEF NetworkAvailable
<1>4. CASE NetworkLost
  <2>1. Reacts(SonosStop(s), TRUE, 0)
    BY <1>4 DEF NetworkLost
  <2>2. SonosStop(s).sonos = OfflineSonos
    BY <1>1 DEF SonosStop, SonosStays, SonosOK, SonosInvariant
  <2> QED
    BY <2>1, <2>2 DEF Reacts, Grows, OfflineSonos
<1>5. CASE RefreshRequested
  BY <1>1, <1>2, <1>5, RowKept DEF RefreshRequested
<1>6. CASE DiscoverySucceeded
  BY <1>1, <1>2, <1>6, RowKept DEF DiscoverySucceeded
<1>7. CASE DiscoveryFailed
  BY <1>1, <1>2, <1>7, RowKept DEF DiscoveryFailed
<1>8. CASE SessionFailed
  <2> PICK id \in DiscoveryIds :
          LET counts == s.state \in {"Discovering", "Ready"} /\ id = s.discoveryId
          IN  Reacts(SonosSessionFailure(s, id), counts, IF counts THEN Bump(streak) ELSE streak)
    BY <1>8 DEF SessionFailed
  <2> DEFINE counts == s.state \in {"Discovering", "Ready"} /\ id = s.discoveryId
  <2>1. CASE counts
    <3>1. Reacts(SonosBackoff(s, TRUE), counts, Bump(streak))
      BY <2>1 DEF SonosSessionFailure
    <3>2. s' = SonosBackoff(s, TRUE).sonos /\ streak' = Bump(s.failures)
      BY <1>1, <3>1 DEF Reacts
    <3>3. s'.failures = streak' /\ s'.left >= RetryDelay(s'.failures)
      BY <1>1, <3>2, RowDelays
    <3> QED
      BY <3>3 DEF Grows
  <2>2. CASE ~counts
    <3>1. Reacts(SonosStays(s), counts, streak)
      BY <2>2 DEF SonosSessionFailure
    <3> HIDE DEF counts
    <3> QED
      BY <1>1, <1>2, <3>1, RowKept
  <2> QED
    BY <2>1, <2>2
<1>9. CASE SessionSucceeded
  <2> PICK id \in DiscoveryIds :
          LET counts == s.state = "Ready" /\ id = s.discoveryId
          IN  Reacts(SonosSessionSucceeded(s, id), FALSE, IF counts THEN 0 ELSE streak)
    BY <1>9 DEF SessionSucceeded
  <2> DEFINE counts == s.state = "Ready" /\ id = s.discoveryId
  <2>1. CASE counts
    <3>1. Reacts([sonos |-> [s EXCEPT !.failures = 0], fx |-> {}], FALSE, 0)
      BY <2>1 DEF SonosSessionSucceeded
    <3>2. s' = [s EXCEPT !.failures = 0] /\ fx' = {} /\ streak' = 0
      BY <3>1 DEF Reacts
    <3> QED
      BY <1>1, <3>2 DEF Grows, SonosType
  <2>2. CASE ~counts
    <3>1. Reacts(SonosStays(s), FALSE, streak)
      BY <2>2 DEF SonosSessionSucceeded
    <3> QED
      BY <1>1, <1>2, <3>1, RowKept
  <2> QED
    BY <2>1, <2>2
<1>10. CASE HouseholdTick
  BY <1>1, <1>2, <1>10, RowKept DEF HouseholdTick
<1>11. CASE HouseholdTime
  <2>1. s' = [s EXCEPT !.left = Elapsed(@)] /\ fx' = {} /\ streak' = streak
    BY <1>11 DEF HouseholdTime
  <2> QED
    BY <1>1, <2>1 DEF Grows, SonosType
<1> QED
  BY <1>3, <1>4, <1>5, <1>6, <1>7, <1>8, <1>9, <1>10, <1>11 DEF HouseholdNext

\* SonosHealth: session failures in a row are retried ever more slowly, although
\* the topology reads between them succeed.
THEOREM SessionsBackOff == HouseholdSpec => SessionBackoffGrows
<1>1. HouseholdInit => RowInv
  BY HouseholdInitInv DEF RowInv, HouseholdInit, OfflineSonos
<1>2. RowInv /\ [HouseholdNext]_householdVars => RowInv'
  <2>1. RowInv /\ UNCHANGED householdVars => RowInv'
    BY DEF RowInv, HouseholdInv, householdVars, Owes
  <2>2. RowInv /\ HouseholdNext => RowInv'
    BY RowStep, HouseholdStep DEF RowInv
  <2> QED
    BY <2>1, <2>2
<1>3. RowInv /\ [HouseholdNext]_householdVars =>
        [streak' > 0 /\ s'.state = "Backoff" /\ s.state # "Backoff" /\ "invalidateSession" \in fx'
         => s'.left >= RetryDelay(streak')]_householdVars
  BY RowStep DEF Grows
<1> QED
  BY <1>1, <1>2, <1>3, PTL DEF HouseholdSpec, SessionBackoffGrows

------------------------------------------------------------------------------
(* The lease of the subscription *)

CallType ==
    [id : Nat, host : Hosts \cup {NoHost}, sid : Sids \cup {NoSid},
     phase : {"none", "sent", "granted"}, lease : Nat]

\* The requests at hand are well-formed, and each is for a publisher.
RequestsOK ==
    /\ pending \in CallType /\ call \in CallType
    /\ pending.id = NoId <=> pending = NoCall
    /\ call.id = NoId <=> call = NoCall
    /\ call.id = NoId <=> call.phase = "none"
    /\ pending.id # NoId => pending.host \in Hosts
    /\ call.id # NoId => call.host \in Hosts
    /\ call.phase = "granted" => call.sid \in Sids

\* The request the machine waits for is for its publisher and its SID; a grant
\* of it that can still be used has been running at the publisher for less than
\* the request.
RequestsAreOwn ==
    /\ pending.id # NoId /\ pending.id = sub.requestId
       => pending.host = sub.address /\ pending.sid = sub.sid
    /\ call.id # NoId /\ call.id = sub.requestId
       => /\ call.host = sub.address
          /\ call.phase = "sent" => call.sid = sub.sid
          /\ call.phase = "granted" =>
                /\ sub.sid # NoSid => call.sid = sub.sid
                /\ sub.left > 0 =>
                      call.lease + sub.left <= publisher[call.host][call.sid] + RequestBudget
    /\ sub.sid # NoSid => call.id \in {NoId, sub.requestId}

LeaseInv ==
    /\ SubOK(sub)
    /\ publisher \in [Hosts -> [Sids -> Nat]]
    /\ RequestsOK
    /\ RequestsAreOwn
    /\ LeaseBacked

\* Under a prompt publisher the renewal is due before the lease ends, and is
\* answered before its deadline.
Renews ==
    prompt =>
        /\ call.phase = "granted" => call.lease > 1
        /\ sub.sid # NoSid => sub.leaseLeft > 0
        /\ sub.state = "Healthy" => sub.renewLeft < sub.leaseLeft
        /\ sub.state = "Renewing" =>
              sub.left > 0 /\ (pending.id = sub.requestId \/ call.id = sub.requestId)

\* The machine gave up whatever it held or waited for.
Drops ==
    /\ sub'.sid = NoSid /\ sub'.requestId = NoId
    /\ pending' \in {pending, NoCall}

\* The machine asks for a lease under a new identity, or for a longer one.
Asks(id) ==
    /\ sub'.requestId = id /\ sub'.left = RequestBudget
    /\ sub'.state \in Requesting /\ (sub'.state = "Subscribing" => sub'.sid = NoSid)
    /\ pending' = [NoCall EXCEPT !.id = id, !.host = sub'.address, !.sid = sub'.sid]

\* A renewal keeps the lease it is for.
Prolongs ==
    /\ sub.state = "Healthy" /\ sub'.sid = sub.sid
    /\ sub'.address = sub.address /\ sub'.leaseLeft = sub.leaseLeft

\* What the two ways to ask leave of the machine.
LEMMA RequestFields ==
    ASSUME NEW x \in SubscriptionType(Hosts, Sids), NEW id, NEW state
    PROVE  LET y == StartRequest(x, id, state).sub
           IN  /\ y.requestId = id /\ y.left = RequestBudget /\ y.state = state
               /\ y.sid = x.sid /\ y.address = x.address
               /\ y.leaseLeft = x.leaseLeft /\ y.renewLeft = x.renewLeft
BY DEF StartRequest, SubscriptionType

\* What a lost or refused lease leaves of it.
LEMMA BackoffFields ==
    ASSUME NEW x \in SubscriptionType(Hosts, Sids)
    PROVE  LET y == SubBackoff(x).sub
           IN  /\ y.sid = NoSid /\ y.requestId = NoId /\ y.state = "Backoff"
               /\ y.address = x.address /\ SubBackoff(x).request = NoId
BY DEF SubBackoff, SubIs, SubscriptionType

\* An identity in the pool is new to whoever holds one.
LEMMA FreshIsNew ==
    ASSUME NEW id \in FreshRequest
    PROVE  id \in Nat \ {NoId} /\ id \notin {sub.requestId, pending.id, call.id}
BY LeaseAssumption DEF FreshRequest, FreshIn

\* The topology read names a publisher: the one there is, or another one.
LEMMA TopologyReadIs ==
    ASSUME LeaseInv, TopologyRead
    PROVE  \/ sub' = sub /\ pending' = pending
           \/ (sub.state = "Inactive" \/ sub'.address # sub.address) /\ Drops
           \/ (sub.state = "Inactive" \/ sub'.address # sub.address) /\ sub'.sid = NoSid
              /\ \E id \in FreshRequest : Asks(id)
<1> PICK host \in Hosts, id \in FreshRequest : Apply(SubNetworkAvailable(sub, host, id))
  BY DEF TopologyRead
<1>1. id # NoId
  BY FreshIsNew
<1>2. CASE sub.state = "Inactive" \/ host # sub.address
  <2> DEFINE new == [InactiveSubscription EXCEPT !.address = host, !.network = TRUE]
  <2>1. /\ new \in SubscriptionType(Hosts, Sids) /\ new.address = host
        /\ new.sid = NoSid /\ new.requestId = NoId
    BY DEF InactiveSubscription, SubscriptionType, SubscriptionStates
  <2>2. SubNetworkAvailable(sub, host, id) =
            IF host = NoHost THEN SubIs(new) ELSE StartRequest(new, id, "Subscribing")
    BY <1>2 DEF SubNetworkAvailable, ReplacePublisher
  <2> HIDE DEF new
  <2>3. CASE host = NoHost
    BY <1>2, <2>1, <2>2, <2>3 DEF Apply, SubIs, Drops
  <2>4. CASE host # NoHost
    <3>1. Apply(StartRequest(new, id, "Subscribing"))
      BY <2>2, <2>4
    <3>2. StartRequest(new, id, "Subscribing").request = id
      BY DEF StartRequest
    <3>3. sub' = StartRequest(new, id, "Subscribing").sub
      BY <3>1 DEF Apply
    <3>4. /\ sub'.requestId = id /\ sub'.left = RequestBudget /\ sub'.state = "Subscribing"
          /\ sub'.sid = NoSid /\ sub'.address = host
      BY <2>1, <3>3, RequestFields
    <3>5. pending' = [NoCall EXCEPT !.id = id, !.host = sub'.address, !.sid = sub'.sid]
      BY <1>1, <3>1, <3>2, <3>3 DEF Apply
    <3> QED
      BY <1>2, <3>4, <3>5 DEF Asks, Requesting
  <2> QED
    BY <2>3, <2>4
<1>3. CASE ~(sub.state = "Inactive" \/ host # sub.address)
  BY <1>3 DEF SubNetworkAvailable, SubIs, Apply
<1> QED
  BY <1>2, <1>3

\* The tick of the machine: the lease or the request lapsed, a renewal or a
\* retry is due, or there is nothing to do.
LEMMA ServiceIs ==
    ASSUME LeaseInv, Service
    PROVE  \/ sub' = sub /\ pending' = pending
           \/ /\ \/ sub.sid # NoSid /\ sub.leaseLeft = 0
                 \/ sub.state \in Requesting /\ sub.left = 0
              /\ Drops
           \/ \E id \in FreshRequest :
                 /\ Asks(id)
                 /\ \/ sub'.sid = NoSid /\ sub.sid = NoSid
                    \/ Prolongs
<1> PICK id \in FreshRequest : Apply(SubTick(sub, id))
  BY DEF Service
<1>1. id # NoId /\ sub \in SubscriptionType(Hosts, Sids)
  BY FreshIsNew DEF LeaseInv, SubOK
<1>2. ASSUME NEW state \in Requesting, Apply(StartRequest(sub, id, state)),
             state = "Subscribing" => sub.sid = NoSid
      PROVE  Asks(id) /\ sub'.sid = sub.sid /\ sub'.address = sub.address
             /\ sub'.leaseLeft = sub.leaseLeft
  <2>1. StartRequest(sub, id, state).request = id
    BY DEF StartRequest
  <2>2. sub' = StartRequest(sub, id, state).sub
    BY <1>2 DEF Apply
  <2>3. /\ sub'.requestId = id /\ sub'.left = RequestBudget /\ sub'.state = state
        /\ sub'.sid = sub.sid /\ sub'.address = sub.address /\ sub'.leaseLeft = sub.leaseLeft
    BY <1>1, <2>2, RequestFields
  <2>4. pending' = [NoCall EXCEPT !.id = id, !.host = sub'.address, !.sid = sub'.sid]
    BY <1>1, <1>2, <2>1, <2>2 DEF Apply
  <2> QED
    BY <1>2, <2>3, <2>4 DEF Asks
<1>3. ASSUME Apply(SubBackoff(sub))
      PROVE  Drops
  <2>1. sub' = SubBackoff(sub).sub /\ pending' = pending
    BY <1>1, <1>3, BackoffFields DEF Apply
  <2> QED
    BY <1>1, <2>1, BackoffFields DEF Drops
<1>4. CASE sub.sid # NoSid /\ sub.leaseLeft = 0
  <2>1. SubTick(sub, id) = SubBackoff(sub)
    BY <1>4 DEF SubTick, LeaseInv, SubOK, SubscriptionInvariant, Leased, Requesting
  <2>2. Drops
    BY <1>3, <2>1
  <2> QED
    BY <1>4, <2>2
<1>5. CASE ~(sub.sid # NoSid /\ sub.leaseLeft = 0) /\ sub.state \in Requesting /\ sub.left = 0
  <2>1. SubTick(sub, id) = SubBackoff(sub)
    BY <1>5 DEF SubTick, LeaseInv, SubOK, SubscriptionInvariant, Leased, Requesting
  <2>2. Drops
    BY <1>3, <2>1
  <2> QED
    BY <1>5, <2>2
<1>6. CASE /\ ~(sub.sid # NoSid /\ sub.leaseLeft = 0)
           /\ sub.state = "Healthy" /\ sub.renewLeft = 0 /\ sub.leaseLeft > 0
  <2>1. SubTick(sub, id) = StartRequest(sub, id, "Renewing")
    BY <1>6 DEF SubTick, Requesting
  <2> QED
    BY <1>2, <1>6, <2>1 DEF Requesting, Prolongs
<1>7. CASE /\ ~(sub.sid # NoSid /\ sub.leaseLeft = 0)
           /\ sub.state = "Backoff" /\ sub.left = 0
  <2>1. SubTick(sub, id) = StartRequest(sub, id, "Subscribing")
    BY <1>7 DEF SubTick, Requesting
  <2>2. sub.sid = NoSid
    BY <1>7 DEF LeaseInv, SubOK, SubscriptionInvariant, Leased
  <2> QED
    BY <1>2, <2>1, <2>2 DEF Requesting
<1>8. CASE /\ ~(sub.sid # NoSid /\ sub.leaseLeft = 0)
           /\ ~(sub.state \in Requesting /\ sub.left = 0)
           /\ ~(sub.state = "Healthy" /\ sub.renewLeft = 0 /\ sub.leaseLeft > 0)
           /\ ~(sub.state = "Backoff" /\ sub.left = 0)
  <2>1. SubTick(sub, id) = SubIs(sub)
    BY <1>8 DEF SubTick
  <2> QED
    BY <2>1 DEF Apply, SubIs
<1> QED
  BY <1>4, <1>5, <1>6, <1>7, <1>8

\* What SubscriptionInvariant says of a machine that waits, and of one that has
\* a lease.
LEMMA WaitsOrHolds ==
    ASSUME NEW x, SubOK(x)
    PROVE  /\ x.requestId # NoId <=> x.state \in Requesting
           /\ x.sid # NoSid <=> x.state \in Leased
           /\ x.state \in Requesting =>
                 x.address \in Hosts /\ x.left <= RequestBudget
           /\ x.state = "Healthy" => x.requestId = NoId /\ x.sid # NoSid
           /\ x.sid # NoSid /\ x.requestId # NoId <=> x.state = "Renewing"
           /\ x.left \in Nat /\ x.leaseLeft \in Nat /\ x.renewLeft \in Nat /\ x.requestId \in Nat
           /\ x.sid \in Sids \cup {NoSid} /\ x.address \in Hosts \cup {NoHost}
           /\ x.sid # NoSid => x.address # NoHost /\ x.state # "Inactive"
<1>1. x \in SubscriptionType(Hosts, Sids) /\ SubscriptionInvariant(x)
  BY DEF SubOK
<1>2. /\ x.left \in Nat /\ x.leaseLeft \in Nat /\ x.renewLeft \in Nat /\ x.requestId \in Nat
      /\ x.sid \in Sids \cup {NoSid} /\ x.address \in Hosts \cup {NoHost}
      /\ x.state \in SubscriptionStates /\ x.network \in BOOLEAN
  BY <1>1 DEF SubscriptionType
<1>3. /\ x.requestId # NoId <=> x.state \in Requesting
      /\ x.sid # NoSid <=> x.state \in Leased
      /\ x.state # "Inactive" => x.address # NoHost
      /\ x.state \in Requesting => x.left <= RequestBudget
  BY <1>1 DEF SubscriptionInvariant
<1> QED
  BY <1>2, <1>3 DEF Requesting, Leased, SubscriptionStates

\* A step of the machine alone: it stays, gives up or asks.
LEMMA MachineMoves ==
    ASSUME LeaseInv, SubOK(sub'), call' = call, publisher' = publisher,
           \/ sub' = sub /\ pending' \in {pending, NoCall}
           \/ Drops
           \/ \E id \in FreshRequest :
                 /\ Asks(id)
                 /\ \/ sub'.sid = NoSid
                    \/ Prolongs
    PROVE  LeaseInv'
<1>1. SubOK(sub) /\ SubOK(sub') /\ RequestsOK /\ RequestsAreOwn /\ LeaseBacked
      /\ publisher \in [Hosts -> [Sids -> Nat]]
  BY DEF LeaseInv
<1>2. NoCall \in CallType /\ NoCall.id = NoId
  BY DEF NoCall, CallType
<1>3. SUFFICES RequestsOK' /\ RequestsAreOwn' /\ LeaseBacked'
  BY <1>1 DEF LeaseInv, SubOK
<1>4. CASE sub' = sub /\ pending' \in {pending, NoCall}
  <2>1. RequestsOK'
    BY <1>1, <1>2, <1>4 DEF RequestsOK
  <2>2. RequestsAreOwn'
    BY <1>1, <1>2, <1>4 DEF RequestsAreOwn
  <2>3. LeaseBacked'
    BY <1>1, <1>4 DEF LeaseBacked
  <2> QED
    BY <2>1, <2>2, <2>3
<1>5. CASE Drops
  <2>1. RequestsOK'
    BY <1>1, <1>2, <1>5 DEF RequestsOK, Drops
  <2>2. RequestsAreOwn'
    BY <1>1, <1>2, <1>5 DEF RequestsAreOwn, Drops
  <2>3. LeaseBacked'
    BY <1>5 DEF LeaseBacked, Drops
  <2> QED
    BY <2>1, <2>2, <2>3
<1>6. ASSUME NEW id \in FreshRequest, Asks(id), sub'.sid = NoSid \/ Prolongs
      PROVE  RequestsOK' /\ RequestsAreOwn' /\ LeaseBacked'
  <2>1. id \in Nat \ {NoId} /\ id \notin {sub.requestId, pending.id, call.id}
    BY FreshIsNew
  <2>2. sub'.requestId = id /\ sub'.address \in Hosts /\ sub'.sid \in Sids \cup {NoSid}
    BY <1>1, <1>6, WaitsOrHolds DEF Asks
  <2>3. /\ pending' \in CallType /\ pending'.id = id
        /\ pending'.host = sub'.address /\ pending'.sid = sub'.sid
    BY <1>2, <1>6, <2>1, <2>2 DEF Asks, CallType, NoCall
  <2>4. RequestsOK'
    BY <1>1, <1>2, <2>1, <2>2, <2>3 DEF RequestsOK
  <2>5. sub'.sid # NoSid => call.id = NoId
    BY <1>1, <1>6, WaitsOrHolds DEF Prolongs, RequestsAreOwn
  <2>6. RequestsAreOwn'
    BY <2>1, <2>2, <2>3, <2>5 DEF RequestsAreOwn
  <2>7. LeaseBacked'
    BY <1>1, <1>6, WaitsOrHolds DEF LeaseBacked, Prolongs
  <2> QED
    BY <2>4, <2>6, <2>7
<1> QED
  BY <1>4, <1>5, <1>6

\* TopologyEvents::service sends the request the machine still waits for.
LEMMA SendLeaseKeeps == LeaseInv /\ Send => LeaseInv'
<1> SUFFICES ASSUME LeaseInv, Send PROVE LeaseInv'
  OBVIOUS
<1>1. SubOK(sub) /\ RequestsOK /\ RequestsAreOwn /\ LeaseBacked
      /\ publisher \in [Hosts -> [Sids -> Nat]]
  BY DEF LeaseInv
<1>2. NoCall \in CallType /\ NoCall.id = NoId /\ NoCall.phase = "none"
  BY DEF NoCall, CallType
<1>3. call = NoCall /\ pending # NoCall /\ pending' = NoCall /\ sub' = sub /\ publisher' = publisher
  BY DEF Send
<1>4. SUFFICES RequestsOK' /\ RequestsAreOwn' /\ LeaseBacked'
  BY <1>1, <1>3 DEF LeaseInv, SubOK
<1>5. LeaseBacked'
  BY <1>1, <1>2, <1>3 DEF LeaseBacked
<1>6. CASE SubActive(sub, pending.id)
  <2>1. call' = [pending EXCEPT !.phase = "sent"]
    BY <1>6 DEF Send
  <2>2. /\ call' \in CallType /\ call'.id = pending.id /\ call'.phase = "sent"
        /\ call'.host = pending.host /\ call'.sid = pending.sid
    BY <1>1, <2>1 DEF RequestsOK, CallType
  <2>3. pending.id # NoId /\ pending.id = sub.requestId /\ call' # NoCall
    BY <1>2, <1>6, <2>2 DEF SubActive
  <2>4. RequestsOK'
    BY <1>1, <1>2, <1>3, <2>2, <2>3 DEF RequestsOK
  <2>5. RequestsAreOwn'
    BY <1>1, <1>2, <1>3, <2>2, <2>3 DEF RequestsAreOwn
  <2> QED
    BY <1>5, <2>4, <2>5
<1>7. CASE ~SubActive(sub, pending.id)
  <2>1. call' = NoCall
    BY <1>7 DEF Send
  <2>2. RequestsOK'
    BY <1>1, <1>2, <1>3, <2>1 DEF RequestsOK
  <2>3. RequestsAreOwn'
    BY <1>1, <1>2, <1>3, <2>1 DEF RequestsAreOwn
  <2> QED
    BY <1>5, <2>2, <2>3
<1> QED
  BY <1>6, <1>7

\* A publisher that grants a lease has it run from then on.
LEMMA GrantKeeps == LeaseInv /\ Grant => LeaseInv'
<1> SUFFICES ASSUME LeaseInv, Grant PROVE LeaseInv'
  OBVIOUS
<1>1. SubOK(sub) /\ RequestsOK /\ RequestsAreOwn /\ LeaseBacked
      /\ publisher \in [Hosts -> [Sids -> Nat]]
  BY DEF LeaseInv
<1>2. PICK sid \in Sids, lease \in Grants :
        /\ call.sid # NoSid => sid = call.sid
        /\ publisher' = [publisher EXCEPT ![call.host][sid] = lease]
        /\ call' = [call EXCEPT !.phase = "granted", !.sid = sid, !.lease = lease]
  BY DEF Grant
<1>3. call.phase = "sent" /\ sub' = sub /\ pending' = pending
  BY DEF Grant
<1>4. call.id # NoId /\ call.host \in Hosts /\ lease \in Nat /\ call \in CallType
  BY <1>1, <1>3, LeaseAssumption DEF RequestsOK
<1>5. /\ call' \in CallType /\ call'.id = call.id /\ call'.host = call.host
      /\ call'.phase = "granted" /\ call'.sid = sid /\ call'.lease = lease
  BY <1>2, <1>4 DEF CallType
<1>6. /\ publisher' \in [Hosts -> [Sids -> Nat]]
      /\ publisher'[call.host][sid] = lease
  BY <1>1, <1>2, <1>4
<1>7. RequestsOK'
  <2>1. call' # NoCall
    BY <1>4, <1>5 DEF NoCall
  <2> QED
    BY <1>1, <1>3, <1>4, <1>5, <2>1 DEF RequestsOK
<1>8. sid # NoSid
  BY SubscriptionAssumption
<1>9. ASSUME call.id = sub.requestId
      PROVE  /\ call.host = sub.address /\ call.sid = sub.sid
             /\ sub.sid # NoSid => sid = sub.sid
             /\ lease + sub.left <= lease + RequestBudget
  <2>1. call.host = sub.address /\ call.sid = sub.sid
    BY <1>1, <1>3, <1>4, <1>9 DEF RequestsAreOwn
  <2>2. sub.left \in Nat /\ sub.left <= RequestBudget
    BY <1>1, <1>4, <1>9, WaitsOrHolds
  <2> QED
    BY <1>2, <1>4, <2>1, <2>2, SubscriptionAssumption
<1>10. RequestsAreOwn'
  BY <1>1, <1>3, <1>4, <1>5, <1>6, <1>9 DEF RequestsAreOwn
<1>11. LeaseBacked'
  <2> SUFFICES ASSUME sub.sid # NoSid
               PROVE  sub.state = "Renewing" /\ call'.phase = "granted" /\ call'.id = sub.requestId
    BY <1>3 DEF LeaseBacked
  <2>1. call.id = sub.requestId
    BY <1>1, <1>4 DEF RequestsAreOwn
  <2> QED
    BY <1>1, <1>4, <1>5, <2>1, WaitsOrHolds
<1> QED
  BY <1>1, <1>3, <1>6, <1>7, <1>10, <1>11 DEF LeaseInv, SubOK

\* What a grant makes of the machine.
LEMMA GrantedFields ==
    ASSUME NEW x \in SubscriptionType(Hosts, Sids), NEW sid, NEW lease \in Nat
    PROVE  LET y == Granted(x, sid, lease).sub
               capped == IF lease < MaximumLease THEN lease ELSE MaximumLease
           IN  /\ y.sid = sid /\ y.requestId = NoId /\ y.state = "Healthy"
               /\ y.address = x.address /\ y.leaseLeft = capped
               /\ y.renewLeft = IF (capped * 4) \div 5 = 0 THEN 1 ELSE (capped * 4) \div 5
               /\ capped \in Nat /\ capped <= lease
<1> DEFINE capped == IF lease < MaximumLease THEN lease ELSE MaximumLease
           renewAfter == IF (capped * 4) \div 5 = 0 THEN 1 ELSE (capped * 4) \div 5
<1>1. Granted(x, sid, lease).sub =
        [x EXCEPT !.state = "Healthy", !.sid = sid, !.requestId = NoId, !.left = 0,
                  !.leaseLeft = capped, !.renewLeft = renewAfter, !.attempts = 0]
  BY DEF Granted, SubIs
<1>2. capped \in Nat /\ capped <= lease
  BY SubscriptionAssumption
<1> HIDE DEF capped, renewAfter
<1>3. LET y == Granted(x, sid, lease).sub
      IN  /\ y.sid = sid /\ y.requestId = NoId /\ y.state = "Healthy"
          /\ y.address = x.address /\ y.leaseLeft = capped /\ y.renewLeft = renewAfter
  BY <1>1 DEF SubscriptionType
<1> QED
  BY <1>2, <1>3 DEF capped, renewAfter

\* The machine takes an answer it can still use, and no other.
LEMMA AnswerIs ==
    ASSUME LeaseInv, Answer
    PROVE  \/ sub' = sub /\ ~SubActive(sub, call.id)
           \/ sub'.sid = NoSid /\ sub'.requestId = NoId /\ ~ValidGrant(sub, call.sid, call.lease)
           \/ /\ SubActive(sub, call.id) /\ ValidGrant(sub, call.sid, call.lease)
              /\ sub' = Granted(sub, call.sid, call.lease).sub
<1>1. sub' = SubRequestSucceeded(sub, call.id, call.sid, call.lease).sub
  BY DEF Answer
<1>2. SubOK(sub) /\ sub \in SubscriptionType(Hosts, Sids)
  BY DEF LeaseInv, SubOK
<1>3. CASE SubActive(sub, call.id)
  <2>1. sub.state \in Requesting
    BY <1>2, <1>3, WaitsOrHolds DEF SubActive
  <2>2. CASE ValidGrant(sub, call.sid, call.lease)
    BY <1>1, <1>3, <2>1, <2>2 DEF SubRequestSucceeded
  <2>3. CASE ~ValidGrant(sub, call.sid, call.lease)
    <3>1. sub' = SubBackoff(sub).sub
      BY <1>1, <1>3, <2>1, <2>3 DEF SubRequestSucceeded
    <3> QED
      BY <1>2, <2>3, <3>1, BackoffFields
  <2> QED
    BY <2>2, <2>3
<1>4. CASE ~SubActive(sub, call.id)
  BY <1>1, <1>4 DEF SubRequestSucceeded, SubIs
<1> QED
  BY <1>3, <1>4

\* After an answer, or without one, the request is over.
LEMMA CallOver ==
    ASSUME LeaseInv, SubOK(sub'), call' = NoCall, pending' = pending, publisher' = publisher,
           call.id # NoId,
           sub' = sub \/ sub'.requestId = NoId
    PROVE  RequestsOK' /\ RequestsAreOwn'
<1>1. SubOK(sub) /\ RequestsOK /\ RequestsAreOwn
  BY DEF LeaseInv
<1>2. NoCall \in CallType /\ NoCall.id = NoId /\ NoCall.phase = "none"
  BY DEF NoCall, CallType
<1>3. RequestsOK'
  BY <1>1, <1>2 DEF RequestsOK
<1>4. RequestsAreOwn'
  BY <1>1, <1>2 DEF RequestsAreOwn
<1> QED
  BY <1>3, <1>4

\* A lease the machine no longer waits for can stay believed in only because it
\* ran out, or because the request did.
LEMMA StaysBacked ==
    ASSUME LeaseInv, sub' = sub, publisher' = publisher, ~SubActive(sub, call.id), call.id # NoId
    PROVE  LeaseBacked'
<1>1. SubOK(sub) /\ RequestsAreOwn /\ LeaseBacked /\ publisher \in [Hosts -> [Sids -> Nat]]
  BY DEF LeaseInv
<1> SUFFICES ASSUME sub.sid # NoSid
             PROVE  \/ sub.leaseLeft < publisher[sub.address][sub.sid] + RequestBudget
                    \/ sub.state = "Renewing" /\ sub.left = 0
  BY DEF LeaseBacked
<1>2. call.id = sub.requestId
  BY <1>1 DEF RequestsAreOwn
<1>3. sub.left = 0 \/ sub.leaseLeft = 0
  BY <1>1, <1>2, WaitsOrHolds DEF SubActive
<1>4. sub.state = "Renewing"
  BY <1>1, <1>2, WaitsOrHolds
<1>5. CASE sub.leaseLeft = 0
  <2>1. publisher[sub.address][sub.sid] \in Nat
    BY <1>1, WaitsOrHolds
  <2> QED
    BY <1>5, <2>1, SubscriptionAssumption
<1> QED
  BY <1>3, <1>4, <1>5

\* A grant that comes in time is believed in for less than a request longer
\* than the publisher keeps it.
LEMMA AnswerKeeps == LeaseInv /\ Answer => LeaseInv'
<1> SUFFICES ASSUME LeaseInv, Answer PROVE LeaseInv'
  OBVIOUS
<1>1. SubOK(sub) /\ sub \in SubscriptionType(Hosts, Sids) /\ RequestsOK /\ RequestsAreOwn
      /\ publisher \in [Hosts -> [Sids -> Nat]]
  BY DEF LeaseInv, SubOK
<1>2. /\ call.phase = "granted" /\ call' = NoCall
      /\ pending' = pending /\ publisher' = publisher
      /\ sub' = SubRequestSucceeded(sub, call.id, call.sid, call.lease).sub
  BY DEF Answer
<1>3. call.id \in Nat \ {NoId} /\ call.sid \in Sids /\ call.host \in Hosts /\ call.lease \in Nat
  BY <1>1, <1>2 DEF RequestsOK, CallType
<1>4. SubOK(sub')
  <2>1. SubResultOK(SubRequestSucceeded(sub, call.id, call.sid, call.lease))
    BY <1>1, <1>3, 1 \in Nat \ {NoId}, SubscriptionHandlers
  <2> QED
    BY <1>2, <2>1 DEF SubResultOK, SubOK
<1>5. ASSUME sub' = sub \/ sub'.requestId = NoId, LeaseBacked'
      PROVE  LeaseInv'
  BY <1>1, <1>2, <1>3, <1>4, <1>5, CallOver DEF LeaseInv, SubOK
<1>6. CASE sub' = sub /\ ~SubActive(sub, call.id)
  BY <1>2, <1>3, <1>5, <1>6, StaysBacked
<1>7. CASE sub'.sid = NoSid /\ sub'.requestId = NoId
  BY <1>5, <1>7 DEF LeaseBacked
<1>8. CASE /\ SubActive(sub, call.id) /\ ValidGrant(sub, call.sid, call.lease)
           /\ sub' = Granted(sub, call.sid, call.lease).sub
  <2>1. /\ sub'.sid = call.sid /\ sub'.requestId = NoId /\ sub'.address = sub.address
        /\ sub'.leaseLeft \in Nat /\ sub'.leaseLeft <= call.lease
    <3>1. sub'.leaseLeft \in Nat
      BY <1>4, WaitsOrHolds
    <3> QED
      BY <1>1, <1>3, <1>8, <3>1, GrantedFields
  <2>2. call.id = sub.requestId /\ sub.left > 0 /\ sub.left \in Nat
    BY <1>1, <1>8, WaitsOrHolds DEF SubActive
  <2>3. /\ call.host = sub.address
        /\ call.lease + sub.left <= publisher[call.host][call.sid] + RequestBudget
    BY <1>1, <1>2, <1>3, <2>2 DEF RequestsAreOwn
  <2>4. publisher[call.host][call.sid] \in Nat
    BY <1>1, <1>3
  <2>5. sub'.leaseLeft < publisher[sub.address][call.sid] + RequestBudget
    BY <1>3, <2>1, <2>2, <2>3, <2>4, SubscriptionAssumption
  <2>6. LeaseBacked'
    BY <1>2, <2>1, <2>5 DEF LeaseBacked
  <2> QED
    BY <1>5, <2>1, <2>6
<1> QED
  BY <1>6, <1>7, <1>8, AnswerIs

\* A request that fails takes the lease with it, if it was still wanted.
LEMMA NoAnswerKeeps == LeaseInv /\ NoAnswer => LeaseInv'
<1> SUFFICES ASSUME LeaseInv, NoAnswer PROVE LeaseInv'
  OBVIOUS
<1>1. SubOK(sub) /\ sub \in SubscriptionType(Hosts, Sids) /\ RequestsOK
      /\ publisher \in [Hosts -> [Sids -> Nat]]
  BY DEF LeaseInv, SubOK
<1>2. /\ call # NoCall /\ call' = NoCall /\ pending' = pending /\ publisher' = publisher
      /\ sub' = SubRequestFailed(sub, call.id).sub
  BY DEF NoAnswer
<1>3. call.id \in Nat \ {NoId}
  BY <1>1, <1>2 DEF RequestsOK, CallType
<1>4. SubOK(sub')
  <2>1. SubResultOK(SubRequestFailed(sub, call.id))
    BY <1>1, <1>3, NoHost \in Hosts \cup {NoHost}, NoSid \in Sids \cup {NoSid},
       1 \in Nat \ {NoId}, 0 \in Nat, SubscriptionHandlers
  <2> QED
    BY <1>2, <2>1 DEF SubResultOK, SubOK
<1>5. ASSUME sub' = sub \/ sub'.requestId = NoId, LeaseBacked'
      PROVE  LeaseInv'
  BY <1>1, <1>2, <1>3, <1>4, <1>5, CallOver DEF LeaseInv, SubOK
<1>6. CASE SubActive(sub, call.id)
  <2>1. sub' = SubBackoff(sub).sub
    BY <1>1, <1>2, <1>6, WaitsOrHolds DEF SubRequestFailed, SubActive
  <2>2. sub'.sid = NoSid /\ sub'.requestId = NoId
    BY <1>1, <2>1, BackoffFields
  <2> QED
    BY <1>5, <2>2 DEF LeaseBacked
<1>7. CASE ~SubActive(sub, call.id)
  <2>1. sub' = sub
    BY <1>2, <1>7 DEF SubRequestFailed, SubIs
  <2> QED
    BY <1>2, <1>3, <1>5, <1>7, <2>1, StaysBacked
<1> QED
  BY <1>6, <1>7

\* Time passes for the device and for its publishers alike.
LEMMA LeaseTimeKeeps == LeaseInv /\ LeaseTime => LeaseInv'
<1> SUFFICES ASSUME LeaseInv, LeaseTime PROVE LeaseInv'
  OBVIOUS
<1>1. SubOK(sub) /\ sub \in SubscriptionType(Hosts, Sids) /\ RequestsOK /\ RequestsAreOwn
      /\ LeaseBacked /\ publisher \in [Hosts -> [Sids -> Nat]]
  BY DEF LeaseInv, SubOK
<1> DEFINE l == Elapsed(sub.left)
           r == Elapsed(sub.renewLeft)
           e == Elapsed(sub.leaseLeft)
<1>2. /\ sub' = [sub EXCEPT !.left = l, !.renewLeft = r, !.leaseLeft = e]
      /\ publisher' = [h \in Hosts |-> [i \in Sids |-> Elapsed(publisher[h][i])]]
      /\ pending' = pending /\ call' = call
  BY DEF LeaseTime
<1>3. sub.left \in Nat /\ sub.renewLeft \in Nat /\ sub.leaseLeft \in Nat
  BY <1>1, WaitsOrHolds
<1>4. /\ l \in Nat /\ l <= sub.left /\ (sub.left = 0 => l = 0)
      /\ (l > 0 => l = sub.left - 1)
      /\ r \in Nat /\ r <= sub.renewLeft
      /\ e \in Nat /\ e <= sub.leaseLeft /\ (e > 0 => e = sub.leaseLeft - 1)
  BY <1>3 DEF Elapsed
<1> HIDE DEF l, r, e
<1>5. /\ sub' \in SubscriptionType(Hosts, Sids)
      /\ sub'.state = sub.state /\ sub'.requestId = sub.requestId /\ sub'.address = sub.address
      /\ sub'.sid = sub.sid /\ sub'.network = sub.network /\ sub'.attempts = sub.attempts
      /\ sub'.left = l /\ sub'.renewLeft = r /\ sub'.leaseLeft = e
  BY <1>1, <1>2, <1>4 DEF SubscriptionType
<1>6. SubscriptionInvariant(sub')
  <2>1. SubscriptionInvariant(sub)
    BY <1>1 DEF SubOK
  <2>2. /\ sub.left <= RequestBudget => l <= RequestBudget
        /\ sub.left <= MaximumBackoff => l <= MaximumBackoff
        /\ sub.leaseLeft <= MaximumLease => e <= MaximumLease
        /\ sub.left = 0 => l = 0
        /\ sub.leaseLeft = 0 /\ sub.renewLeft = 0 => e = 0 /\ r = 0
    BY <1>3, <1>4, SubscriptionAssumption, BackoffAssumption
  <2> QED
    BY <1>5, <2>1, <2>2, Zenon DEF SubscriptionInvariant
<1>7. \A h \in Hosts, i \in Sids :
         /\ publisher'[h][i] \in Nat /\ publisher'[h][i] >= publisher[h][i] - 1
         /\ publisher[h][i] \in Nat
  <2> TAKE h \in Hosts, i \in Sids
  <2>1. publisher[h][i] \in Nat /\ publisher'[h][i] = Elapsed(publisher[h][i])
    BY <1>1, <1>2
  <2> QED
    BY <2>1 DEF Elapsed
<1>8. publisher' \in [Hosts -> [Sids -> Nat]]
  <2>1. \A h \in Hosts, i \in Sids : Elapsed(publisher[h][i]) \in Nat
    BY <1>1, ElapsedNat
  <2> QED
    BY <1>2, <2>1
<1>9. RequestsOK'
  BY <1>1, <1>2 DEF RequestsOK
<1>10. RequestsAreOwn'
  <2>1. ASSUME call.id # NoId, call.id = sub.requestId, call.phase = "granted", l > 0
        PROVE  call.lease + l <= publisher'[call.host][call.sid] + RequestBudget
    <3>1. call.host \in Hosts /\ call.sid \in Sids /\ call.lease \in Nat
      BY <1>1, <2>1 DEF RequestsOK, CallType
    <3>2. call.lease + sub.left <= publisher[call.host][call.sid] + RequestBudget
      BY <1>1, <1>3, <1>4, <2>1 DEF RequestsAreOwn
    <3> QED
      BY <1>3, <1>4, <1>7, <2>1, <3>1, <3>2, SubscriptionAssumption
  <2> QED
    BY <1>1, <1>2, <1>5, <2>1 DEF RequestsAreOwn
<1>11. LeaseBacked'
  <2> SUFFICES ASSUME sub.sid # NoSid
               PROVE  \/ e < publisher'[sub.address][sub.sid] + RequestBudget
                      \/ /\ sub.state = "Renewing"
                         /\ l = 0 \/ (call.phase = "granted" /\ call.id = sub.requestId)
    BY <1>2, <1>5 DEF LeaseBacked
  <2>1. sub.address \in Hosts /\ sub.sid \in Sids
    BY <1>1, WaitsOrHolds
  <2>2. CASE sub.leaseLeft < publisher[sub.address][sub.sid] + RequestBudget
    BY <1>3, <1>4, <1>7, <2>1, <2>2, SubscriptionAssumption
  <2>3. CASE /\ sub.state = "Renewing"
             /\ sub.left = 0 \/ (call.phase = "granted" /\ call.id = sub.requestId)
    BY <1>4, <2>3
  <2> QED
    BY <1>1, <2>2, <2>3 DEF LeaseBacked
<1> QED
  BY <1>5, <1>6, <1>8, <1>9, <1>10, <1>11 DEF LeaseInv, SubOK

\* Whatever the machine does on its own, it keeps its shape.
LEMMA MachineKeepsShape ==
    ASSUME LeaseInv, TopologyRead \/ Revoked \/ Service
    PROVE  SubOK(sub')
<1>1. SubOK(sub) /\ SubOK(SubStop(sub).sub)
      /\ \A id \in FreshRequest :
            /\ SubResultOK(SubTick(sub, id))
            /\ \A host \in Hosts : SubResultOK(SubNetworkAvailable(sub, host, id))
  <2>1. SubOK(sub)
    BY DEF LeaseInv
  <2>2. ASSUME NEW id \in Nat \ {NoId}, NEW host \in Hosts \cup {NoHost}
        PROVE  /\ SubResultOK(SubStop(sub)) /\ SubResultOK(SubTick(sub, id))
               /\ SubResultOK(SubNetworkAvailable(sub, host, id))
    BY <2>1, NoSid \in Sids \cup {NoSid}, 0 \in Nat, SubscriptionHandlers
  <2>3. SubOK(SubStop(sub).sub)
    BY <2>2, 1 \in Nat \ {NoId}, NoHost \in Hosts \cup {NoHost} DEF SubResultOK, SubOK
  <2> QED
    BY <2>1, <2>2, <2>3, FreshIsNew
<1>2. CASE TopologyRead
  BY <1>1, <1>2 DEF TopologyRead, Apply, SubResultOK, SubOK
<1>3. CASE Revoked
  BY <1>1, <1>3 DEF Revoked
<1>4. CASE Service
  BY <1>1, <1>4 DEF Service, Apply, SubResultOK, SubOK
<1> QED
  BY <1>2, <1>3, <1>4

\* Every step of the device, of its publishers and of time keeps the invariant.
LEMMA LeaseStep == LeaseInv /\ LeaseNext => LeaseInv'
<1> SUFFICES ASSUME LeaseInv, LeaseNext PROVE LeaseInv'
  OBVIOUS
<1>1. CASE TopologyRead
  <2>1. SubOK(sub') /\ call' = call /\ publisher' = publisher
    BY <1>1, MachineKeepsShape DEF TopologyRead
  <2> QED
    BY <1>1, <2>1, TopologyReadIs, MachineMoves
<1>2. CASE Revoked
  <2>1. SubOK(sub') /\ call' = call /\ publisher' = publisher
    BY <1>2, MachineKeepsShape DEF Revoked
  <2>2. Drops
    BY <1>2 DEF Revoked, Drops, SubStop, SubIs, InactiveSubscription
  <2> QED
    BY <2>1, <2>2, MachineMoves
<1>3. CASE Service
  <2>1. SubOK(sub') /\ call' = call /\ publisher' = publisher
    BY <1>3, MachineKeepsShape DEF Service
  <2> QED
    BY <1>3, <2>1, ServiceIs, MachineMoves
<1> QED
  BY <1>1, <1>2, <1>3, LeaseTimeKeeps, SendLeaseKeeps, GrantKeeps, AnswerKeeps, NoAnswerKeeps
  DEF LeaseNext

\* There is nothing to begin with.
LEMMA LeaseInitInv == LeaseInit => LeaseInv
<1> SUFFICES ASSUME LeaseInit PROVE LeaseInv
  OBVIOUS
<1>1. SubOK(InactiveSubscription)
  BY DEF SubOK, InactiveSubscription, SubscriptionType, SubscriptionStates, SubscriptionInvariant,
         Leased, Requesting
<1>2. RequestsOK
  BY DEF LeaseInit, RequestsOK, NoCall, CallType
<1>3. RequestsAreOwn /\ LeaseBacked
  BY DEF LeaseInit, RequestsAreOwn, LeaseBacked, InactiveSubscription, NoCall
<1> QED
  BY <1>1, <1>2, <1>3 DEF LeaseInit, LeaseInv

\* What a lease rests on is never lost.
THEOREM LeaseInvariance == LeaseSpec => []LeaseInv
<1>1. LeaseInv /\ [LeaseNext]_leaseVars => LeaseInv'
  <2>1. LeaseInv /\ UNCHANGED leaseVars => LeaseInv'
    BY DEF LeaseInv, leaseVars, RequestsOK, RequestsAreOwn, LeaseBacked
  <2> QED
    BY <2>1, LeaseStep
<1> QED
  BY <1>1, LeaseInitInv, PTL DEF LeaseSpec

\* The pool holds more identities than the three places that can hold one: the
\* program counts identities up and does not run out of them.
ManyRequestIds == \A a, b, d \in Nat : RequestIds \ {a, b, d} # {}

\* Then there is always an identity for a request.
LEMMA SomeRequest ==
    ASSUME LeaseInv, ManyRequestIds
    PROVE  FreshRequest # {}
<1>1. sub.requestId \in Nat /\ pending.id \in Nat /\ call.id \in Nat
  BY WaitsOrHolds DEF LeaseInv, RequestsOK, CallType
<1>2. RequestIds \ {sub.requestId, pending.id, call.id} # {} /\ RequestIds \in SUBSET Nat
  BY <1>1, LeaseAssumption DEF ManyRequestIds
<1> QED
  BY <1>2, SomethingFresh DEF FreshRequest

\* SubscriptionLifecycle: the device never relies on a lease for longer than a
\* request beyond what its publisher granted, whichever answers are late, lost
\* or those of a publisher it has left.
THEOREM LeasesAreBacked == ManyRequestIds => (LeaseSpec => []BelievedLeaseBacked)
<1> SUFFICES ASSUME ManyRequestIds PROVE LeaseSpec => []BelievedLeaseBacked
  OBVIOUS
<1>1. LeaseInv => BelievedLeaseBacked
  BY SomeRequest DEF LeaseInv, SubOK, BelievedLeaseBacked, LeaseTypeOK
<1> QED
  BY <1>1, LeaseInvariance, PTL

\* The step of the property
Held ==
    prompt /\ sub.state \in Leased => sub'.state \in Leased \/ sub'.address # sub.address

\* A step of the machine alone: nothing lapses under a prompt publisher, so that
\* only a new publisher ends a lease.
LEMMA PromptMachine ==
    ASSUME LeaseInv, Renews, TopologyRead \/ Revoked \/ Service, prompt' = prompt, prompt
    PROVE  Renews' /\ Held
<1>1. SubOK(sub) /\ SubOK(sub') /\ RequestsOK
  BY MachineKeepsShape DEF LeaseInv
<1>2. /\ call.phase = "granted" => call.lease > 1
      /\ sub.sid # NoSid => sub.leaseLeft > 0
      /\ sub.state = "Healthy" => sub.renewLeft < sub.leaseLeft
      /\ sub.state = "Renewing" =>
            sub.left > 0 /\ (pending.id = sub.requestId \/ call.id = sub.requestId)
  BY DEF Renews
<1>3. call' = call
  BY DEF TopologyRead, Revoked, Service
<1>4. ASSUME sub'.sid = NoSid
      PROVE  Renews'
  BY <1>1, <1>2, <1>3, <1>4, WaitsOrHolds DEF Renews
<1>5. CASE sub' = sub /\ pending' = pending
  BY <1>2, <1>3, <1>5 DEF Renews, Held
<1>6. CASE TopologyRead
  <2>1. ASSUME sub.state = "Inactive" \/ sub'.address # sub.address
        PROVE  Held
    BY <2>1 DEF Held, Leased
  <2>2. CASE Drops /\ (sub.state = "Inactive" \/ sub'.address # sub.address)
    BY <1>4, <2>1, <2>2 DEF Drops
  <2>3. CASE sub'.sid = NoSid /\ (sub.state = "Inactive" \/ sub'.address # sub.address)
    BY <1>4, <2>1, <2>3
  <2> QED
    BY <1>5, <1>6, <2>2, <2>3, TopologyReadIs
<1>7. CASE Revoked
  <2>1. sub' = InactiveSubscription
    BY <1>7 DEF Revoked, SubStop, SubIs
  <2>2. sub'.sid = NoSid /\ sub'.address = NoHost
    BY <2>1 DEF InactiveSubscription
  <2> QED
    BY <1>1, <1>4, <2>2, WaitsOrHolds DEF Held
<1>8. CASE Service
  <2>1. CASE /\ \/ sub.sid # NoSid /\ sub.leaseLeft = 0
                \/ sub.state \in Requesting /\ sub.left = 0
             /\ Drops
    <3>1. sub.state \notin Leased
      BY <1>1, <1>2, <2>1, WaitsOrHolds DEF Leased, Requesting
    <3> QED
      BY <1>4, <2>1, <3>1 DEF Held, Drops
  <2>2. ASSUME NEW id \in FreshRequest, Asks(id), sub'.sid = NoSid, sub.sid = NoSid
        PROVE  Renews' /\ Held
    BY <1>1, <1>4, <2>2, WaitsOrHolds DEF Held
  <2>3. ASSUME NEW id \in FreshRequest, Asks(id), Prolongs
        PROVE  Renews' /\ Held
    <3>1. /\ sub'.sid = sub.sid /\ sub.sid # NoSid /\ sub'.leaseLeft = sub.leaseLeft
          /\ sub'.left = RequestBudget /\ sub'.requestId = id /\ pending'.id = id
          /\ sub'.state \in Requesting
      BY <1>1, <2>3, WaitsOrHolds DEF Asks, Prolongs, NoCall
    <3>2. sub'.state = "Renewing"
      BY <1>1, <2>3, <3>1, WaitsOrHolds DEF Asks, Requesting
    <3>3. RequestBudget > 0
      BY SubscriptionAssumption
    <3>4. Renews'
      BY <1>2, <1>3, <3>1, <3>2, <3>3 DEF Renews
    <3> QED
      BY <3>2, <3>4 DEF Held, Leased
  <2> QED
    BY <1>5, <1>8, <2>1, <2>2, <2>3, ServiceIs
<1> QED
  BY <1>6, <1>7, <1>8

\* A prompt grant reaches a machine that waits for it, and is due for renewal
\* before it ends.
LEMMA PromptAnswer ==
    ASSUME LeaseInv, Renews, Answer, prompt' = prompt, prompt, MaximumLease > 1
    PROVE  Renews' /\ Held
<1>1. SubOK(sub) /\ sub \in SubscriptionType(Hosts, Sids) /\ RequestsOK /\ RequestsAreOwn
  BY DEF LeaseInv, SubOK
<1>2. /\ call.phase = "granted" /\ call' = NoCall /\ pending' = pending
  BY DEF Answer
<1>3. /\ call.lease > 1 /\ call.id # NoId /\ call.sid \in Sids /\ call.lease \in Nat
      /\ sub.sid # NoSid => sub.leaseLeft > 0
      /\ sub.state = "Healthy" => sub.renewLeft < sub.leaseLeft
      /\ sub.state = "Renewing" => sub.left > 0
  BY <1>1, <1>2 DEF Renews, RequestsOK, CallType
<1>4. SubOK(sub')
  <2>1. LeaseInv'
    BY AnswerKeeps
  <2> QED
    BY <2>1 DEF LeaseInv, SubOK
<1>5. sub.sid # NoSid => SubActive(sub, call.id) /\ ValidGrant(sub, call.sid, call.lease)
  <2> SUFFICES ASSUME sub.sid # NoSid
               PROVE  SubActive(sub, call.id) /\ ValidGrant(sub, call.sid, call.lease)
    OBVIOUS
  <2>1. call.id = sub.requestId
    BY <1>1, <1>3 DEF RequestsAreOwn
  <2>2. call.sid = sub.sid
    BY <1>1, <1>2, <1>3, <2>1 DEF RequestsAreOwn
  <2>3. sub.left > 0
    BY <1>1, <1>3, <2>1, WaitsOrHolds
  <2> QED
    BY <1>3, <2>1, <2>2, <2>3 DEF SubActive, ValidGrant
<1>6. NoCall.phase = "none"
  BY DEF NoCall
<1>7. CASE sub' = sub /\ ~SubActive(sub, call.id)
  <2>1. sub.sid = NoSid
    BY <1>5, <1>7
  <2> QED
    BY <1>1, <1>2, <1>6, <1>7, <2>1, WaitsOrHolds DEF Renews, Held
<1>8. CASE /\ sub'.sid = NoSid /\ sub'.requestId = NoId
           /\ ~ValidGrant(sub, call.sid, call.lease)
  <2>1. sub.sid = NoSid
    BY <1>5, <1>8
  <2> QED
    BY <1>1, <1>2, <1>4, <1>6, <1>8, <2>1, WaitsOrHolds DEF Renews, Held
<1>9. CASE /\ SubActive(sub, call.id) /\ ValidGrant(sub, call.sid, call.lease)
           /\ sub' = Granted(sub, call.sid, call.lease).sub
  <2> DEFINE capped == IF call.lease < MaximumLease THEN call.lease ELSE MaximumLease
             renewAfter == IF (capped * 4) \div 5 = 0 THEN 1 ELSE (capped * 4) \div 5
  <2>1. sub'.state = "Healthy" /\ sub'.leaseLeft = capped /\ sub'.renewLeft = renewAfter
    BY <1>1, <1>3, <1>9, GrantedFields
  <2>2. capped \in Nat /\ capped > 1
    BY <1>3, SubscriptionAssumption
  <2> HIDE DEF capped
  <2>3. renewAfter < capped
    BY <2>2
  <2> HIDE DEF renewAfter
  <2>4. Renews'
    BY <1>2, <1>6, <2>1, <2>2, <2>3 DEF Renews
  <2> QED
    BY <2>1, <2>4 DEF Held, Leased
<1> QED
  BY <1>7, <1>8, <1>9, AnswerIs

\* A prompt publisher has answered before time passes, so that a renewal is
\* never waited for and a lease never runs out.
LEMMA PromptTime ==
    ASSUME LeaseInv, Renews, LeaseTime, prompt' = prompt, prompt, FreshRequest # {}
    PROVE  Renews' /\ Held
<1>1. SubOK(sub) /\ sub \in SubscriptionType(Hosts, Sids) /\ RequestsOK
  BY DEF LeaseInv, SubOK
<1>2. /\ call = NoCall /\ pending = NoCall /\ call' = call /\ pending' = pending
      /\ sub' = [sub EXCEPT !.left = Elapsed(@), !.renewLeft = Elapsed(@), !.leaseLeft = Elapsed(@)]
  BY DEF LeaseTime
<1>3. /\ sub'.state = sub.state /\ sub'.sid = sub.sid
      /\ sub'.renewLeft = Elapsed(sub.renewLeft) /\ sub'.leaseLeft = Elapsed(sub.leaseLeft)
  BY <1>1, <1>2 DEF SubscriptionType
<1>4. NoCall.id = NoId /\ NoCall.phase = "none"
  BY DEF NoCall
<1>5. sub.state # "Renewing"
  BY <1>1, <1>2, <1>4, WaitsOrHolds DEF Renews
<1>6. sub.state = "Healthy" => sub.renewLeft > 0
  <2> SUFFICES ASSUME sub.state = "Healthy", sub.renewLeft = 0
               PROVE  FALSE
    BY <1>1, WaitsOrHolds
  <2>1. PICK id \in FreshRequest : SubTick(sub, id) = SubIs(sub)
    BY DEF LeaseTime
  <2>2. sub.leaseLeft > 0
    BY <1>1, WaitsOrHolds DEF Renews
  <2>3. SubTick(sub, id) = StartRequest(sub, id, "Renewing")
    BY <2>2 DEF SubTick, Requesting
  <2>4. StartRequest(sub, id, "Renewing").request = id /\ SubIs(sub).request = NoId
    BY DEF StartRequest, SubIs
  <2> QED
    BY <2>1, <2>3, <2>4, FreshIsNew
<1>7. sub.sid # NoSid => sub.state = "Healthy"
  BY <1>1, <1>5, WaitsOrHolds DEF Leased
<1>8. sub.state = "Healthy" =>
        sub'.leaseLeft > 0 /\ sub'.renewLeft < sub'.leaseLeft
  <2> SUFFICES ASSUME sub.state = "Healthy"
               PROVE  sub'.leaseLeft > 0 /\ sub'.renewLeft < sub'.leaseLeft
    OBVIOUS
  <2>1. sub.renewLeft \in Nat /\ sub.leaseLeft \in Nat /\ sub.renewLeft < sub.leaseLeft
    BY <1>1, WaitsOrHolds DEF Renews
  <2> QED
    BY <1>3, <1>6, <2>1 DEF Elapsed
<1>9. Renews'
  BY <1>2, <1>3, <1>4, <1>5, <1>7, <1>8 DEF Renews
<1>10. Held
  BY <1>3 DEF Held
<1> QED
  BY <1>9, <1>10

\* Sending the request of a renewal, and granting it, leave it on its way.
LEMMA PromptCall ==
    ASSUME LeaseInv, Renews, Send \/ Grant, prompt' = prompt, prompt
    PROVE  Renews' /\ Held
<1>1. SubOK(sub) /\ RequestsOK /\ sub' = sub
  BY DEF LeaseInv, Send, Grant
<1>2. Held
  BY <1>1 DEF Held
<1>3. /\ sub.sid # NoSid => sub.leaseLeft > 0
      /\ sub.state = "Healthy" => sub.renewLeft < sub.leaseLeft
      /\ sub.state = "Renewing" =>
            sub.left > 0 /\ (pending.id = sub.requestId \/ call.id = sub.requestId)
  BY DEF Renews
<1>4. CASE Send
  <2>1. /\ call = NoCall
        /\ call' = IF SubActive(sub, pending.id) THEN [pending EXCEPT !.phase = "sent"] ELSE NoCall
    BY <1>4 DEF Send
  <2>2. NoCall.id = NoId /\ NoCall.phase = "none"
    BY DEF NoCall
  <2>3. call'.phase # "granted"
    BY <1>1, <2>1, <2>2 DEF RequestsOK, CallType
  <2>4. sub.state = "Renewing" => call'.id = sub.requestId
    <3> SUFFICES ASSUME sub.state = "Renewing" PROVE call'.id = sub.requestId
      OBVIOUS
    <3>1. sub.requestId # NoId /\ sub.sid # NoSid
      BY <1>1, WaitsOrHolds
    <3>2. SubActive(sub, pending.id) /\ pending.id = sub.requestId
      BY <1>3, <2>1, <2>2, <3>1 DEF SubActive
    <3> QED
      BY <1>1, <2>1, <3>2 DEF RequestsOK, CallType
  <2>5. Renews'
    BY <1>1, <1>3, <2>3, <2>4 DEF Renews
  <2> QED
    BY <1>2, <2>5
<1>5. CASE Grant
  <2>1. PICK sid \in Sids, lease \in Grants :
          lease > 1 /\ call' = [call EXCEPT !.phase = "granted", !.sid = sid, !.lease = lease]
    BY <1>5 DEF Grant
  <2>2. call'.lease = lease /\ call'.id = call.id /\ pending' = pending
    BY <1>1, <1>5, <2>1 DEF RequestsOK, CallType, Grant
  <2>3. Renews'
    BY <1>1, <1>3, <2>1, <2>2 DEF Renews
  <2> QED
    BY <1>2, <2>3
<1> QED
  BY <1>4, <1>5

\* SubscriptionLifecycle: against a publisher that answers without delay the
\* device holds its lease for as long as it stays with that publisher.  A longest
\* lease of one unit (the program's is 300 s) could not be renewed in time.
THEOREM RenewalsComeInTime == ManyRequestIds /\ MaximumLease > 1 => (LeaseSpec => RenewedInTime)
<1> SUFFICES ASSUME ManyRequestIds, MaximumLease > 1 PROVE LeaseSpec => RenewedInTime
  OBVIOUS
<1>1. LeaseInit => Renews
  BY DEF LeaseInit, Renews, InactiveSubscription, NoCall
<1>2. LeaseInv /\ Renews /\ [LeaseNext]_leaseVars => Renews' /\ [Held]_leaseVars
  <2>1. LeaseInv /\ Renews /\ UNCHANGED leaseVars => Renews'
    BY DEF leaseVars, Renews
  <2>2. LeaseInv /\ Renews /\ LeaseNext => Renews' /\ Held
    <3> SUFFICES ASSUME LeaseInv, Renews, LeaseNext PROVE Renews' /\ Held
      OBVIOUS
    <3>1. prompt' = prompt
      BY DEF LeaseNext
    <3>2. CASE ~prompt
      BY <3>1, <3>2 DEF Renews, Held
    <3>3. CASE prompt
      <4>1. ~NoAnswer
        BY <3>3 DEF NoAnswer
      <4> QED
        BY <3>1, <3>3, <4>1, SomeRequest, PromptMachine, PromptAnswer, PromptTime, PromptCall
        DEF LeaseNext
    <3> QED
      BY <3>2, <3>3
  <2> QED
    BY <2>1, <2>2
<1>3. [Held]_leaseVars =>
        [prompt /\ sub.state \in Leased
         => sub'.state \in Leased \/ sub'.address # sub.address]_leaseVars
  BY DEF Held
<1> QED
  BY <1>1, <1>2, <1>3, LeaseInvariance, PTL DEF LeaseSpec, RenewedInTime
===============================================================================

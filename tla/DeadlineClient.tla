--------------------------- MODULE DeadlineClient ---------------------------
(***************************************************************************)
(* One HTTP exchange over the job's socket: DeadlineClient, which every    *)
(* read, write and connect of the HTTP library goes through, against a     *)
(* peer that is slow, silent or talks for ever, while the deadline comes   *)
(* and the job may end at any time.  The clock, the job's state and the    *)
(* socket are looked at one after the other, and so a call that was            *)
(* checked may still act on a socket that nobody wants any more.           *)
(*   client  time left to the deadline, whether the job is active, the     *)
(*           bytes it may still read, the stream's inactivity timeout      *)
(*   exchange  its phase and where the phase's loop stands, bytes to      *)
(*           go, time since the last progress                              *)
(*   hist    for the properties: bytes received, and what was done after   *)
(*           the exchange had lost its right to go on                      *)
(***************************************************************************)
EXTENDS Integers

CONSTANTS
    Deadline,                   \* of the job: 45 s or 90 s
    Timeout, ConnectTimeout,    \* without progress, 8 s; and of connect, at most 3 s
    MaxRead,                    \* bytes of a whole response, 73728
    RequestSize, BodySize       \* bytes the library writes, and expects

ASSUME ClientAssumption ==
    /\ Deadline \in Nat /\ Timeout \in Nat /\ ConnectTimeout \in Nat
    /\ MaxRead \in Nat \ {0} /\ RequestSize \in Nat \ {0} /\ BodySize \in Nat \ {0}

VARIABLES client, exchange, hist
clientVars == <<client, exchange, hist>>

ClientInit ==
    /\ client = [left |-> Deadline, active |-> TRUE, closed |-> FALSE, remaining |-> MaxRead,
                 timeout |-> Timeout]
    /\ exchange = [phase |-> "connect", at |-> "check", rest |-> RequestSize, idle |-> 0,
               budget |-> 0]
    /\ hist = [got |-> 0, late |-> 0, strays |-> 0]

At(phase, at) == exchange.phase = phase /\ exchange.at = at
Lapsed == client.left = 0 \/ ~client.active
Reading == exchange.phase \in {"head", "body"}

\* usable() and readable(): closed for good as soon as the deadline, the job or
\* the limit on the response says so.
usable == ~client.closed /\ ~Lapsed
readable == usable /\ (Reading => client.remaining > 0)

\* Mutant: the stream's reader waits on after the socket was closed.
StopKeepingTimeout == [client EXCEPT !.closed = TRUE]

\* A read by the library repeats until the stream's timeout, which must go too.
stop == [client EXCEPT !.closed = TRUE, !.timeout = 0]

Goto(phase, at) == exchange' = [exchange EXCEPT !.phase = phase, !.at = at]
Fail == Goto("failed", "end")

\* What is done once the deadline has passed or the job has ended.
Counted(attempt) ==
    hist' = IF Lapsed THEN [hist EXCEPT !.late = @ + 1, !.strays = @ + (IF attempt THEN 1 ELSE 0)]
            ELSE hist

\* The check before each attempt.  A refused write or body ends its loop; a
\* refused byte of the head is asked for again until the inactivity timeout.
Check ==
    /\ exchange.at = "check"
    /\ IF readable
       THEN /\ exchange' = [exchange EXCEPT !.at = "act",
                            !.idle   = IF exchange.phase = "connect" THEN 0 ELSE @,
                            !.budget = IF client.left < ConnectTimeout THEN client.left ELSE ConnectTimeout]
            /\ UNCHANGED client
       ELSE /\ client' = IF client.closed THEN client ELSE stop
            /\ IF exchange.phase = "head" /\ exchange.idle < client'.timeout
             THEN UNCHANGED exchange ELSE Fail
    /\ Counted(FALSE)

\* connect() honours the budget it is given and looks again when it returns.
Connect ==
    /\ At("connect", "act")
    /\ \/ usable /\ exchange' = [exchange EXCEPT !.phase = "write", !.at = "check", !.idle = 0]
                 /\ UNCHANGED client
       \/ client' = (IF Lapsed THEN stop ELSE client) /\ Fail
    /\ Counted(FALSE)

\* Nothing moved: wait for a moment, or give up if nothing has for too long.
Idle == IF exchange.idle >= client.timeout THEN Fail ELSE Goto(exchange.phase, "wait")

\* One attempt to send; a broken connection closes the socket.
Write ==
    /\ At("write", "act")
    /\ \/ Idle /\ UNCHANGED client
       \/ Fail /\ client' = stop
       \/ /\ exchange' = IF exchange.rest = 1
                     THEN [exchange EXCEPT !.phase = "head", !.at = "check", !.idle = 0]
                     ELSE [exchange EXCEPT !.at = "check", !.rest = @ - 1, !.idle = 0]
          /\ UNCHANGED client
    /\ Counted(TRUE)

\* A byte came; the last that is allowed closes the socket.
Received ==
    IF client.remaining = 1 THEN [stop EXCEPT !.remaining = 0]
    ELSE [client EXCEPT !.remaining = @ - 1]

Took == hist' = [hist EXCEPT !.got = @ + 1,
                             !.late = @ + (IF Lapsed THEN 1 ELSE 0),
                             !.strays = @ + (IF Lapsed THEN 1 ELSE 0)]

\* timedRead: a byte at a time, for as long as the peer likes to send headers.
ReadHead ==
    /\ At("head", "act")
    /\ \/ /\ client' = Received /\ Took
          /\ \E ends \in BOOLEAN :
                exchange' = IF ends THEN [exchange EXCEPT !.phase = "body", !.at = "check", !.idle = 0,
                                                  !.rest = BodySize]
                        ELSE [exchange EXCEPT !.at = "check", !.idle = 0]
       \/ /\ IF exchange.idle < client.timeout THEN Goto("head", "check") ELSE Fail
          /\ UNCHANGED client /\ Counted(TRUE)

\* readBytes: until all is there, the peer closes, or nothing comes.
ReadBody ==
    /\ At("body", "act")
    /\ \/ /\ client' = Received /\ Took
          /\ exchange' = IF exchange.rest = 1 THEN [exchange EXCEPT !.phase = "done", !.at = "end"]
                     ELSE [exchange EXCEPT !.at = "check", !.rest = @ - 1, !.idle = 0]
       \/ (Idle \/ Fail) /\ UNCHANGED client /\ Counted(TRUE)

Wait == exchange.at = "wait" /\ Goto(exchange.phase, "check") /\ UNCHANGED client /\ Counted(FALSE)

Step == Check \/ Connect \/ Write \/ ReadHead \/ ReadBody \/ Wait

\* The deadline comes, and the inactivity grows; a connect takes no longer than
\* its budget.
Over == exchange.at = "end"
ClientTick ==
    /\ ~Over
    /\ At("connect", "act") => exchange.idle < exchange.budget
    /\ client' = [client EXCEPT !.left = IF @ = 0 THEN 0 ELSE @ - 1]
    /\ exchange' = [exchange EXCEPT !.idle = IF @ < Timeout + ConnectTimeout THEN @ + 1 ELSE @]
    /\ UNCHANGED hist

JobEnds == client.active /\ client' = [client EXCEPT !.active = FALSE] /\ UNCHANGED <<exchange, hist>>

Rest == Over /\ UNCHANGED clientVars

ClientNext == Step \/ ClientTick \/ JobEnds \/ Rest
ClientSpec == ClientInit /\ [][ClientNext]_clientVars
ClientFairness == WF_clientVars(Step) /\ WF_clientVars(ClientTick)

\* However the peer answers: after the deadline or the job's end the socket is
\* touched at most once more, by a call that was checked before, and the
\* exchange is over within a few steps; and the whole response, framing
\* included, is bounded.
RequestIsBounded == hist.strays <= 1 /\ hist.late <= 3 /\ hist.got <= MaxRead

\* Liveness: an exchange ends, even with a peer that never stops sending.
RequestEnds == <>Over
=============================================================================

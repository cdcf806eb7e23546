---------------------------- MODULE WriterServer ----------------------------
(***************************************************************************)
(* The Stick's web server: one connection at a time, fed and answered a    *)
(* piece per turn of the loop, given up after three seconds; and the drafts*)
(* that share requests leave in CardWriter.                                *)
(*   conn     the connection: who, pieces read, the answer, pieces sent, age*)
(*   ip       the address listened on      drafts   newest last            *)
(*   peers    each client: its request's pieces sent, and what it received;*)
(*            one that has left may have sent all of its request           *)
(*   wifi     the device's address, Down without a network                 *)
(*   served     for the properties: requests carried out, drafts ever made   *)
(***************************************************************************)
EXTENDS Integers, FiniteSets, Sequences, SequencesExt

CONSTANTS Clients, Leavers, Ids, Pieces, Limit, maxDrafts, DraftTime, MaxTime
ASSUME ServerAssumption ==
    /\ maxDrafts \in Nat \ {0} /\ DraftTime \in Nat
    /\ IsFiniteSet(Ids) /\ Cardinality(Ids) > maxDrafts
VARIABLES conn, ip, drafts, peers, wifi, now, served
serverVars == <<conn, ip, drafts, peers, wifi, now, served>>

Down == 0
Nobody == [who |-> {}, fed |-> 0, out |-> {}, sent |-> 0, age |-> 0]

ServerInit ==
    /\ conn = Nobody /\ ip = Down /\ drafts = <<>> /\ wifi = 1 /\ now = 0
    /\ peers = [c \in Clients |-> [state |-> "new", sent |-> 0, got |-> {}]]
    /\ served = [done |-> <<>>, made |-> <<>>]

Who == CHOOSE c \in conn.who : TRUE
Peer(c, state) == peers' = [peers EXCEPT ![c].state = state]
Closed == conn' = [conn EXCEPT !.who = {}]
Hangup == Closed /\ peers' = [c \in Clients |-> [peers[c] EXCEPT
                !.state = IF c \in conn.who /\ @ = "open" THEN "closed" ELSE @]]

\* stop(): on a lost or changed network; listening starts again by itself.
Stop ==
    /\ ip # Down /\ wifi # ip
    /\ conn' = [conn EXCEPT !.who = {}, !.out = {}]
    /\ peers' = [c \in Clients |-> [peers[c] EXCEPT !.state =
                    IF @ \in {"open", "queued"} THEN "closed" ELSE @]]
    /\ ip' = Down
    /\ UNCHANGED <<drafts, wifi, now, served>>

Listen ==
    /\ ip = Down /\ wifi # Down /\ ip' = wifi
    /\ UNCHANGED <<conn, drafts, peers, wifi, now, served>>

Listening == ip # Down /\ wifi = ip

\* Mutant: the former answer stays in its buffer.
AcceptedKeepingOutput(c) == [conn EXCEPT !.who = {c}, !.fed = 0, !.sent = 0, !.age = 0]

Accepted(c) == [Nobody EXCEPT !.who = {c}]

\* Nobody is connected, or the one who was has left; one who left something to be read
\* counts as connected until that is read.
Gone == \A c \in conn.who : peers[c].state = "left"
Queued == {c \in Clients : peers[c].state = "queued"}

Accept ==
    /\ Listening /\ Gone
    /\ \E c \in Queued : conn' = Accepted(c) /\ Peer(c, "open")
    /\ UNCHANGED <<ip, drafts, wifi, now, served>>

\* The same with nobody to accept.
Forget ==
    /\ Listening /\ conn.who # {} /\ Gone /\ Queued = {}
    /\ Closed
    /\ UNCHANGED <<ip, drafts, peers, wifi, now, served>>

Late == conn.age > Limit

GiveUp ==
    /\ Listening /\ conn.who # {} /\ Late
    /\ Hangup
    /\ UNCHANGED <<ip, drafts, wifi, now, served>>

Serving == Listening /\ conn.who # {} /\ ~Late

\* Reads what has arrived; the last piece of a request has it carried out.
Feed ==
    /\ Serving /\ conn.out = {}
    /\ conn.fed < Pieces - 1 /\ conn.fed < peers[Who].sent
    /\ conn' = [conn EXCEPT !.fed = @ + 1]
    /\ UNCHANGED <<ip, drafts, peers, wifi, now, served>>

\* All live equally long, so that the expired ones are the oldest.
Expired(ds) == {k \in DOMAIN ds : now >= ds[k].expires}
Unexpired(ds) == SubSeq(ds, Cardinality(Expired(ds)) + 1, Len(ds))
\* A full list gives up its oldest draft.
Room(ds) == IF Len(ds) = maxDrafts THEN Tail(ds) ELSE ds
\* Numbers are drawn at random, so that one unused number stands for any.
Fresh(ds) == CHOOSE id \in Ids : id \notin {d.id : d \in ToSet(ds)}

\* POST /writer/drafts: expired drafts go first; eight unlucky numbers in a
\* row, or no randomness at all, make no draft.
Carry ==
    /\ Serving /\ conn.out = {}
    /\ conn.fed = Pieces - 1 /\ peers[Who].sent = Pieces
    /\ \/ /\ drafts' = Unexpired(drafts)
          /\ conn' = [conn EXCEPT !.out = {[to |-> Who, id |-> {}]}]
          /\ served' = [served EXCEPT !.done = Append(@, Who)]
       \/ LET id == Fresh(Unexpired(drafts))
              d == [id |-> id, of |-> Who, expires |-> now + DraftTime]
          IN  /\ drafts' = Append(Room(Unexpired(drafts)), d)
              /\ conn' = [conn EXCEPT !.out = {[to |-> Who, id |-> {id}]}]
              /\ served' = [done |-> Append(served.done, Who), made |-> Append(served.made, d)]
    /\ UNCHANGED <<ip, peers, wifi, now>>

\* Sends what the socket takes; an error or the last piece ends the connection.
Send ==
    /\ Serving /\ conn.out # {}
    /\ \/ /\ conn.sent < Pieces - 1 /\ conn' = [conn EXCEPT !.sent = @ + 1] /\ UNCHANGED peers
       \/ /\ conn.sent = Pieces - 1
          /\ conn' = [conn EXCEPT !.who = {}, !.out = {}]
          /\ peers' = IF peers[Who].state = "open"
                      THEN [peers EXCEPT ![Who].got = conn.out, ![Who].state = "answered"]
                      ELSE peers
       \/ /\ conn' = [conn EXCEPT !.who = {}, !.out = {}]
          /\ peers' = [peers EXCEPT ![Who].state = IF @ = "open" THEN "closed" ELSE @]
    /\ UNCHANGED <<ip, drafts, wifi, now, served>>

----------------------------------------------------------------------------
\* Clients connect, send at their own pace, and may leave in the middle.
Connect == \E c \in Clients : peers[c].state = "new" /\ Listening /\ Peer(c, "queued")
Write == \E c \in Clients :
    /\ peers[c].state \in {"queued", "open"} /\ peers[c].sent < Pieces
    /\ peers' = [peers EXCEPT ![c].sent = @ + 1]
Leave == \E c \in Clients \cap Leavers : peers[c].state = "open" /\ Peer(c, "left")
ClientStep == (Connect \/ Write \/ Leave) /\ UNCHANGED <<conn, ip, drafts, wifi, now, served>>

Network ==
    /\ now < MaxTime /\ wifi' \in {Down, 1, 2} \ {wifi}
    /\ UNCHANGED <<conn, ip, drafts, peers, now, served>>
Pass ==
    /\ \/ now < MaxTime /\ now' = now + 1
       \/ now = MaxTime /\ conn.who # {} /\ conn.age <= Limit /\ UNCHANGED now
    /\ conn' = IF conn.who # {} /\ conn.age <= Limit THEN [conn EXCEPT !.age = @ + 1] ELSE conn
    /\ UNCHANGED <<ip, drafts, peers, wifi, served>>
Rest == now = MaxTime /\ UNCHANGED serverVars

Loop == Stop \/ Listen \/ Accept \/ Forget \/ GiveUp \/ Feed \/ Carry \/ Send
ServerNext == Loop \/ ClientStep \/ Network \/ Pass \/ Rest
ServerSpec == ServerInit /\ [][ServerNext]_serverVars

----------------------------------------------------------------------------
\* A request is carried out at most once, and an answer reaches only the client
\* whose request it answers, however the connection before it ended.
EachIsAnswered ==
    /\ \A c \in Clients : Cardinality({n \in DOMAIN served.done : served.done[n] = c}) <= 1
    /\ \A c \in Clients : \A a \in peers[c].got : a.to = c

\* A draft's link works until it expires or the drafts made after it fill the
\* list; no two live drafts share a number.
LinksWork ==
    /\ \A n \in DOMAIN served.made :
        now < served.made[n].expires /\ Len(served.made) - n < maxDrafts =>
            served.made[n] \in ToSet(drafts)
    /\ Len(drafts) <= maxDrafts /\ Cardinality({d.id : d \in ToSet(drafts)}) = Len(drafts)

\* A client receives only its own answer, once, and a draft's link works for as
\* long as was promised.
AnswersAreOwn == EachIsAnswered /\ LinksWork

\* Liveness: no client keeps the server from the next one.
=============================================================================

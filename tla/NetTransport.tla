---------------------------- MODULE NetTransport ----------------------------
(***************************************************************************)
(* One rank's end of the TCP transport (rlx-driver, net.rs): how its       *)
(* connections are set up and replaced, the reader thread of each          *)
(* connection, the inbox they fill, the receive that waits on it, and how  *)
(* a peer that goes away is noticed.  The peers are the environment: they  *)
(* connect (a rank may connect again: a persistent worker of the run       *)
(* before, then its new process), send frames and close.                   *)
(*                                                                         *)
(* Steps are as fine as the code's shared state: a reader looks at         *)
(* conn_gen, fills the inbox and sets `lost' in separate steps, and a      *)
(* receive holds the inbox lock from its check of `lost' until it waits.   *)
(* A reader that answers a one-sided get holds the lock of the peer's      *)
(* write half while it writes: replacing the connection, a receive's look  *)
(* for a connection and Drop wait for it, and the write for the peer.      *)
(***************************************************************************)
EXTENDS Integers, Sequences, FiniteSets

CONSTANTS Peers,       \* the other ranks, as numbers
          Setups,      \* the jobs considered, see below
          Tags,        \* the message tags in use
          MaxFrames,   \* bound, per setup: frames sent on one connection under one tag
          MaxRecv      \* bound, per setup: receives (and gets) started by this rank

\* from_listener dials some ranks and accepts the others, coordinator_listen
\* (star) accepts everyone.  The ranks in `again' may connect twice; `timeout':
\* RLX_COLLECTIVE_TIMEOUT is set; `gets': the application issues one-sided gets;
\* `asks' bounds the one-sided puts and gets of a peer on one connection.
Setup == [star : BOOLEAN, dialed : SUBSET Peers, again : SUBSET Peers,
          timeout : BOOLEAN, gets : BOOLEAN, asks : Nat]

ASSUME ConstantsAssumption ==
    /\ Peers \subseteq Nat /\ IsFiniteSet(Peers) /\ IsFiniteSet(Tags)
    /\ Setups \subseteq {s \in Setup : s.star => s.dialed = {}}
    /\ MaxFrames \in [Setups -> Nat] /\ MaxRecv \in [Setups -> Nat]

\* Connections, numbered per peer in the order they are opened.
Conns == Peers \X {1, 2}
NoConn == 0
Peer(c) == c[1]

VARIABLES
    setup,     \* the constructor called, the ranks it dials, the job's options
    phase,     \* constructor, then running, then Drop
    expect,    \* from_listener: expect
    accepted,  \* coordinator_listen: connections accepted so far
    sock,      \* per connection: unborn, queued at the listener, open, closed by the peer
    cut,       \* per connection: shut down at this end
    wire,      \* per connection: frames not yet read
    sent,      \* per connection and tag: number of frames sent (history)
    writers,   \* per peer: the connection whose write half is in use
    connGen,   \* per peer: conn_gen
    lost,      \* per peer: lost
    reader,    \* per connection: where its reader thread is
    mine,      \* per connection: the generation its reader was given
    hand,      \* per connection: the frame its reader has read
    inbox,     \* per peer and tag: the queue of the two-sided inbox
    getreq,    \* per connection: a GETREQ the peer has not answered
    getresp,   \* per peer: number of queued GETRESPs
    asked,     \* per connection: puts and gets the peer has sent (bounds the model)
    wlock,     \* per peer: the connection whose reader has writers[peer] locked
    unshut,    \* Drop: the peers whose socket is still to be shut down
    app,       \* the application thread
    got,       \* per peer and tag: what receives have returned (history)
    calls      \* receives and gets started (bounds the model)

Dialed == setup.dialed

ctorVars == <<setup, expect, accepted>>
connVars == <<sock, cut, wire, sent>>
linkVars == <<writers, connGen, lost>>
readerVars == <<reader, mine, hand>>
boxVars == <<inbox, getreq, getresp>>
sideVars == <<asked, wlock, unshut>>
appVars == <<app, got, calls>>
vars == <<phase, ctorVars, connVars, linkVars, readerVars, boxVars, sideVars, appVars>>

Frame(c, t, n) == [kind |-> "SEND", conn |-> c, tag |-> t, n |-> n]
GetResp        == [kind |-> "GETRESP"]
Asks           == {[kind |-> "GETREQ"], [kind |-> "PUT"]}
NoFrame        == [kind |-> "none"]

Idle(res, p, t) == [pc |-> "idle", res |-> res, from |-> p, tag |-> t, expired |-> FALSE]

\* recv_inbox keeps the inbox lock from its check of the queue until it waits.
InboxFree == app.pc \notin {"checked", "parking"}

\* inbox_cv.notify_all: a waiting receive runs its loop again.
Notified == IF app.pc = "asleep" THEN [app EXCEPT !.pc = "start"] ELSE app

-----------------------------------------------------------------------------
(* The peers.                                                              *)

PeerConnects(c) ==
    /\ Peer(c) \notin Dialed
    /\ sock[c] = "unborn"
    /\ c[2] = 2 => Peer(c) \in setup.again /\ sock[<<Peer(c), 1>>] # "unborn"
    /\ sock' = [sock EXCEPT ![c] = "queued"]
    /\ UNCHANGED <<phase, ctorVars, cut, wire, sent, linkVars, readerVars, boxVars,
                   sideVars, appVars>>

PeerSends(c, t) ==
    /\ sock[c] \in {"queued", "open"}
    /\ sent[c][t] < MaxFrames[setup]
    /\ sent' = [sent EXCEPT ![c][t] = @ + 1]
    /\ wire' = [wire EXCEPT ![c] = Append(@, Frame(c, t, sent[c][t] + 1))]
    /\ UNCHANGED <<phase, ctorVars, sock, cut, linkVars, readerVars, boxVars, sideVars,
                   appVars>>

\* A one-sided put, or a get the reader is to answer.
PeerAsks(c, f) ==
    /\ sock[c] \in {"queued", "open"}
    /\ asked[c] < setup.asks
    /\ asked' = [asked EXCEPT ![c] = @ + 1]
    /\ wire' = [wire EXCEPT ![c] = Append(@, f)]
    /\ UNCHANGED <<phase, ctorVars, sock, cut, sent, linkVars, readerVars, boxVars,
                   wlock, unshut, appVars>>

PeerAnswersGet(c) ==
    /\ sock[c] = "open" /\ getreq[c]
    /\ wire' = [wire EXCEPT ![c] = Append(@, GetResp)]
    /\ getreq' = [getreq EXCEPT ![c] = FALSE]
    /\ UNCHANGED <<phase, ctorVars, sock, cut, sent, linkVars, readerVars,
                   inbox, getresp, sideVars, appVars>>

PeerCloses(c) ==
    /\ sock[c] \in {"queued", "open"}
    /\ sock' = [sock EXCEPT ![c] = "closed"]
    /\ UNCHANGED <<phase, ctorVars, cut, wire, sent, linkVars, readerVars, boxVars,
                   sideVars, appVars>>

-----------------------------------------------------------------------------
(* The constructors.                                                       *)

\* from_listener_reversed, first loop: dial in rank order, each dial retried; the
\* reader of a dialed connection has generation 0.  Here and below the reader starts
\* in the step that stores the write half: what it would answer to a get read in
\* between (an error, or a write to the earlier connection) is not looked at.
Dial(p) ==
    LET c == <<p, 1>> IN
    /\ phase = "dialing"
    /\ p \in Dialed /\ sock[c] = "unborn"
    /\ sock' = [sock EXCEPT ![c] = "open"]
    /\ reader' = [reader EXCEPT ![c] = "reading"]
    /\ writers' = [writers EXCEPT ![p] = 1]
    /\ UNCHANGED <<phase, ctorVars, cut, wire, sent, connGen, lost, mine, hand,
                   boxVars, sideVars, appVars>>

DialFails ==
    /\ phase = "dialing"
    /\ \E p \in Dialed : sock[<<p, 1>>] = "unborn"
    /\ phase' = "failed"
    /\ UNCHANGED <<ctorVars, connVars, linkVars, readerVars, boxVars, sideVars, appVars>>

StartAccepting ==
    /\ phase = "dialing"
    /\ \A p \in Dialed : sock[<<p, 1>>] # "unborn"
    /\ phase' = IF expect = {} THEN "up" ELSE "accepting"
    /\ UNCHANGED <<ctorVars, connVars, linkVars, readerVars, boxVars, sideVars, appVars>>

\* A connection waiting at the listener whose HELLO can be read.
Queued(c) ==
    /\ Peer(c) \notin Dialed
    /\ sock[c] \in {"queued", "closed"} /\ reader[c] = "none"
    /\ c[2] > 1 => reader[<<c[1], c[2] - 1>>] # "none"

Established(c) == IF sock[c] = "closed" THEN "closed" ELSE "open"

\* Mutant: the loop counts connections instead of crossing off ranks.
AcceptMeshCounts(c) ==
    LET p == Peer(c)  old == writers[p] IN
    /\ phase = "accepting" /\ ~setup.star
    /\ Queued(c) /\ wlock[p] = NoConn
    /\ accepted' = accepted + 1
    /\ phase' = IF accepted' = Cardinality(expect) THEN "up" ELSE phase
    /\ connGen' = [connGen EXCEPT ![p] = @ + 1]
    /\ lost' = [lost EXCEPT ![p] = FALSE]
    /\ writers' = [writers EXCEPT ![p] = c[2]]
    /\ cut' = IF old = NoConn THEN cut ELSE [cut EXCEPT ![<<p, old>>] = TRUE]
    /\ reader' = [reader EXCEPT ![c] = "reading"]
    /\ mine' = [mine EXCEPT ![c] = connGen[p] + 1]
    /\ sock' = [sock EXCEPT ![c] = Established(c)]
    /\ UNCHANGED <<setup, expect, wire, sent, hand, boxVars, sideVars, appVars>>

\* from_listener_reversed, second loop: a rank announced again replaces its
\* earlier connection.
AcceptMesh(c) ==
    LET p == Peer(c)  old == writers[p] IN
    /\ phase = "accepting" /\ ~setup.star
    /\ Queued(c) /\ wlock[p] = NoConn
    /\ expect' = expect \ {p}
    /\ phase' = IF expect' = {} THEN "up" ELSE phase
    /\ connGen' = [connGen EXCEPT ![p] = @ + 1]
    /\ lost' = [lost EXCEPT ![p] = FALSE]
    /\ writers' = [writers EXCEPT ![p] = c[2]]
    /\ cut' = IF old = NoConn THEN cut ELSE [cut EXCEPT ![<<p, old>>] = TRUE]
    /\ reader' = [reader EXCEPT ![c] = "reading"]
    /\ mine' = [mine EXCEPT ![c] = connGen[p] + 1]
    /\ sock' = [sock EXCEPT ![c] = Established(c)]
    /\ UNCHANGED <<setup, accepted, wire, sent, hand, boxVars, sideVars, appVars>>

\* coordinator_listen: the loop counts connections, and a later connection of
\* a rank only replaces the write half of the earlier one.
AcceptStar(c) ==
    LET p == Peer(c) IN
    /\ phase = "accepting" /\ setup.star
    /\ Queued(c) /\ wlock[p] = NoConn
    /\ accepted' = accepted + 1
    /\ phase' = IF accepted' = Cardinality(Peers) THEN "up" ELSE phase
    /\ writers' = [writers EXCEPT ![p] = c[2]]
    /\ reader' = [reader EXCEPT ![c] = "reading"]
    /\ sock' = [sock EXCEPT ![c] = Established(c)]
    /\ UNCHANGED <<setup, expect, cut, wire, sent, connGen, lost, mine, hand, boxVars,
                   sideVars, appVars>>

\* A connection that closes before its HELLO: the mesh drops it and goes on, the
\* star's constructor returns the error.
HelloFails(c) ==
    /\ phase = "accepting"
    /\ Queued(c) /\ sock[c] = "closed" /\ wire[c] = << >>
    /\ reader' = [reader EXCEPT ![c] = "done"]
    /\ phase' = IF setup.star THEN "failed" ELSE phase
    /\ UNCHANGED <<ctorVars, connVars, linkVars, mine, hand, boxVars, sideVars, appVars>>

-----------------------------------------------------------------------------
(* reader_loop, dispatch and mark_lost, one thread per connection.         *)

ReaderGoes(c, from, to) == reader[c] = from /\ reader' = [reader EXCEPT ![c] = to]

Read(c) ==
    /\ wire[c] # << >>
    /\ ReaderGoes(c, "reading", "got")
    /\ hand' = [hand EXCEPT ![c] = Head(wire[c])]
    /\ wire' = [wire EXCEPT ![c] = Tail(@)]
    /\ UNCHANGED <<phase, ctorVars, sock, cut, sent, linkVars, mine, boxVars, sideVars,
                   appVars>>

\* read_frame fails: the peer closed and everything was read, or this end shut
\* the socket down (what was not read yet may still be).
ReadFails(c) ==
    /\ cut[c] \/ (sock[c] = "closed" /\ wire[c] = << >>)
    /\ ReaderGoes(c, "reading", "ending")
    /\ UNCHANGED <<phase, ctorVars, connVars, linkVars, mine, hand, boxVars, sideVars,
                   appVars>>

CheckGen(c) ==
    /\ ReaderGoes(c, "got", IF connGen[Peer(c)] = mine[c] THEN "fresh" ELSE "ending")
    /\ UNCHANGED <<phase, ctorVars, connVars, linkVars, mine, hand, boxVars, sideVars,
                   appVars>>

\* Where the loop goes on once a frame is dispatched: shutdown ends it.
AfterFrame == IF phase = "dropping" THEN "ending" ELSE "reading"

\* dispatch, but for GETREQ.  A PUT writes to the heap, which is not modelled here.
Dispatch(c) ==
    /\ ReaderGoes(c, "fresh", AfterFrame)
    /\ \/ /\ hand[c].kind = "SEND"
          /\ InboxFree
          /\ inbox' = [inbox EXCEPT ![Peer(c)][hand[c].tag] = Append(@, hand[c])]
          /\ app' = Notified
          /\ UNCHANGED getresp
       \/ /\ hand[c].kind = "GETRESP"
          /\ getresp' = [getresp EXCEPT ![Peer(c)] = @ + 1]
          /\ UNCHANGED <<inbox, app>>
       \/ /\ hand[c].kind = "PUT"
          /\ UNCHANGED <<inbox, getresp, app>>
    /\ hand' = [hand EXCEPT ![c] = NoFrame]
    /\ UNCHANGED <<phase, ctorVars, connVars, linkVars, mine, getreq, sideVars, got, calls>>

\* dispatch of a GETREQ: send_frame locks the write half in use for this peer, which
\* may be a later connection's, and writes the response.
Answer(c) ==
    /\ ReaderGoes(c, "fresh", "replying")
    /\ hand[c].kind = "GETREQ"
    /\ wlock[Peer(c)] = NoConn
    /\ wlock' = [wlock EXCEPT ![Peer(c)] = c[2]]
    /\ UNCHANGED <<phase, ctorVars, connVars, linkVars, mine, hand, boxVars, asked, unshut,
                   appVars>>

\* The write ends, well or not: the reader goes on either way.
Answered(c) ==
    /\ ReaderGoes(c, "replying", AfterFrame)
    /\ wlock' = [wlock EXCEPT ![Peer(c)] = NoConn]
    /\ hand' = [hand EXCEPT ![c] = NoFrame]
    /\ UNCHANGED <<phase, ctorVars, connVars, linkVars, mine, boxVars, asked, unshut,
                   appVars>>

\* The connection a response to c's peer is written to takes no more until the peer
\* reads: a step of the peer's, who may never do so.  Closed or shut down it fails.
AnswerWaits(c) ==
    LET w == <<Peer(c), writers[Peer(c)]>> IN
    reader[c] = "replying" /\ sock[w] = "open" /\ ~cut[w]

PeerTakesAnswer(c) == AnswerWaits(c) /\ Answered(c)
AnswerFails(c)     == ~AnswerWaits(c) /\ Answered(c)

\* After the loop: is this still the peer's connection, and are we running?
EndCheck(c) ==
    /\ ReaderGoes(c, "ending",
           IF phase # "dropping" /\ connGen[Peer(c)] = mine[c] THEN "marking" ELSE "done")
    /\ UNCHANGED <<phase, ctorVars, connVars, linkVars, mine, hand, boxVars, sideVars,
                   appVars>>

MarkLost(c) ==
    /\ ReaderGoes(c, "marking", "notifying")
    /\ lost' = [lost EXCEPT ![Peer(c)] = TRUE]
    /\ UNCHANGED <<phase, ctorVars, connVars, writers, connGen, mine, hand, boxVars,
                   sideVars, appVars>>

\* Mutant: notify without taking the inbox lock.
NotifyLostUnlocked(c) ==
    /\ ReaderGoes(c, "notifying", "done")
    /\ app' = Notified
    /\ UNCHANGED <<phase, ctorVars, connVars, linkVars, mine, hand, boxVars, sideVars, got,
                   calls>>

\* mark_lost takes the inbox lock before it notifies.
NotifyLost(c) ==
    /\ InboxFree
    /\ ReaderGoes(c, "notifying", "done")
    /\ app' = Notified
    /\ UNCHANGED <<phase, ctorVars, connVars, linkVars, mine, hand, boxVars, sideVars, got,
                   calls>>

-----------------------------------------------------------------------------
(* recv_inbox and get, called by the application thread.                   *)

RecvCall(p, t) ==
    /\ phase = "up" /\ app.pc = "idle" /\ calls < MaxRecv[setup]
    /\ app' = [pc |-> "start", res |-> "none", from |-> p, tag |-> t, expired |-> FALSE]
    /\ calls' = calls + 1
    /\ UNCHANGED <<phase, ctorVars, connVars, linkVars, readerVars, boxVars, sideVars, got>>

\* Mutant: the head of the queue is read but stays queued.
RecvPeek ==
    LET p == app.from  t == app.tag IN
    /\ app.pc = "start"
    /\ IF inbox[p][t] # << >>
       THEN /\ got' = [got EXCEPT ![p][t] = Append(@, Head(inbox[p][t]))]
            /\ app' = Idle("ok", p, t)
       ELSE /\ app' = [app EXCEPT !.pc = "checked"]
            /\ UNCHANGED got
    /\ UNCHANGED <<phase, ctorVars, connVars, linkVars, readerVars, boxVars, sideVars,
                   calls>>

\* Mutant: a lost peer is an error even when something of it is queued.
RecvLostFirst ==
    LET p == app.from  t == app.tag IN
    /\ app.pc = "start"
    /\ IF inbox[p][t] # << >> /\ ~lost[p]
       THEN /\ got' = [got EXCEPT ![p][t] = Append(@, Head(inbox[p][t]))]
            /\ inbox' = [inbox EXCEPT ![p][t] = Tail(@)]
            /\ app' = Idle("ok", p, t)
       ELSE /\ app' = [app EXCEPT !.pc = "checked"]
            /\ UNCHANGED <<inbox, got>>
    /\ UNCHANGED <<phase, ctorVars, connVars, linkVars, readerVars, getreq, getresp,
                   sideVars, calls>>

\* With the inbox locked: the head of the queue if there is one.
RecvTake ==
    LET p == app.from  t == app.tag IN
    /\ app.pc = "start"
    /\ IF inbox[p][t] # << >>
       THEN /\ got' = [got EXCEPT ![p][t] = Append(@, Head(inbox[p][t]))]
            /\ inbox' = [inbox EXCEPT ![p][t] = Tail(@)]
            /\ app' = Idle("ok", p, t)
       ELSE /\ app' = [app EXCEPT !.pc = "checked"]
            /\ UNCHANGED <<inbox, got>>
    /\ UNCHANGED <<phase, ctorVars, connVars, linkVars, readerVars, getreq, getresp,
                   sideVars, calls>>

\* Nothing queued: no connection, a lost peer and a passed deadline are errors.  The
\* look for a connection waits for the lock of the write half, the inbox still locked.
RecvCheck ==
    LET p == app.from  t == app.tag IN
    /\ app.pc = "checked" /\ wlock[p] = NoConn
    /\ app' = CASE writers[p] = NoConn -> Idle("noconn", p, t)
                [] writers[p] # NoConn /\ lost[p] -> Idle("lost", p, t)
                [] writers[p] # NoConn /\ ~lost[p] /\ app.expired -> Idle("timeout", p, t)
                [] writers[p] # NoConn /\ ~lost[p] /\ ~app.expired ->
                      [app EXCEPT !.pc = "parking"]
    /\ UNCHANGED <<phase, ctorVars, connVars, linkVars, readerVars, boxVars, sideVars, got,
                   calls>>

\* Condvar::wait releases the lock and sleeps in one step.
RecvWait ==
    /\ app.pc = "parking"
    /\ app' = [app EXCEPT !.pc = "asleep"]
    /\ UNCHANGED <<phase, ctorVars, connVars, linkVars, readerVars, boxVars, sideVars, got,
                   calls>>

DeadlinePasses ==
    /\ setup.timeout /\ app.pc = "asleep"
    /\ app' = [app EXCEPT !.pc = "start", !.expired = TRUE]
    /\ UNCHANGED <<phase, ctorVars, connVars, linkVars, readerVars, boxVars, sideVars, got,
                   calls>>

\* get: send a GETREQ, then wait for the response; the write to a connection
\* the peer has closed may still succeed.
GetCall(p) ==
    LET c == <<p, writers[p]>> IN
    /\ setup.gets /\ phase = "up" /\ app.pc = "idle" /\ calls < MaxRecv[setup]
    /\ wlock[p] = NoConn
    /\ calls' = calls + 1
    /\ \/ /\ writers[p] # NoConn
          /\ getreq' = [getreq EXCEPT ![c] = TRUE]
          /\ app' = [pc |-> "getting", res |-> "none", from |-> p,
                     tag |-> app.tag, expired |-> FALSE]
       \/ /\ writers[p] # NoConn => sock[c] = "closed"
          /\ app' = Idle("senderr", p, app.tag)
          /\ UNCHANGED getreq
    /\ UNCHANGED <<phase, ctorVars, connVars, linkVars, readerVars, inbox, getresp,
                   sideVars, got>>

\* wait_getresp
GetTake ==
    /\ app.pc = "getting" /\ getresp[app.from] > 0
    /\ getresp' = [getresp EXCEPT ![app.from] = @ - 1]
    /\ app' = Idle("ok", app.from, app.tag)
    /\ UNCHANGED <<phase, ctorVars, connVars, linkVars, readerVars, inbox, getreq,
                   sideVars, got, calls>>

-----------------------------------------------------------------------------
(* Drop: set shutdown, shut down the sockets in use, join every reader.    *)

Drop ==
    /\ phase = "up" /\ app.pc = "idle"
    /\ phase' = "dropping"
    /\ unshut' = Peers
    /\ UNCHANGED <<ctorVars, connVars, linkVars, readerVars, boxVars, asked, wlock,
                   appVars>>

\* Mutant: the sockets are not shut down before the readers are joined.
ShutDownSkipped(p) ==
    /\ phase = "dropping"
    /\ p \in unshut /\ \A q \in unshut : p =< q
    /\ wlock[p] = NoConn
    /\ unshut' = unshut \ {p}
    /\ UNCHANGED <<phase, ctorVars, connVars, linkVars, readerVars, boxVars, asked, wlock,
                   appVars>>

\* One writer lock after the other, in rank order.
ShutDown(p) ==
    /\ phase = "dropping"
    /\ p \in unshut /\ \A q \in unshut : p =< q
    /\ wlock[p] = NoConn
    /\ unshut' = unshut \ {p}
    /\ cut' = [c \in Conns |-> cut[c] \/ (Peer(c) = p /\ writers[p] = c[2])]
    /\ UNCHANGED <<phase, ctorVars, sock, wire, sent, linkVars, readerVars, boxVars,
                   asked, wlock, appVars>>

Joined ==
    /\ phase = "dropping" /\ unshut = {}
    /\ \A c \in Conns : reader[c] \in {"none", "done"}
    /\ phase' = "down"
    /\ UNCHANGED <<ctorVars, connVars, linkVars, readerVars, boxVars, sideVars, appVars>>

-----------------------------------------------------------------------------
Init ==
    /\ setup \in Setups
    /\ phase = IF setup.star THEN "accepting" ELSE "dialing"
    /\ expect = Peers \ Dialed
    /\ accepted = 0
    /\ sock = [c \in Conns |-> "unborn"]
    /\ cut = [c \in Conns |-> FALSE]
    /\ wire = [c \in Conns |-> << >>]
    /\ sent = [c \in Conns |-> [t \in Tags |-> 0]]
    /\ writers = [p \in Peers |-> NoConn]
    /\ connGen = [p \in Peers |-> 0]
    /\ lost = [p \in Peers |-> FALSE]
    /\ reader = [c \in Conns |-> "none"]
    /\ mine = [c \in Conns |-> 0]
    /\ hand = [c \in Conns |-> NoFrame]
    /\ inbox = [p \in Peers |-> [t \in Tags |-> << >>]]
    /\ getreq = [c \in Conns |-> FALSE]
    /\ getresp = [p \in Peers |-> 0]
    /\ asked = [c \in Conns |-> 0]
    /\ wlock = [p \in Peers |-> NoConn]
    /\ unshut = {}
    /\ app = Idle("none", CHOOSE p \in Peers : TRUE, CHOOSE t \in Tags : TRUE)
    /\ got = [p \in Peers |-> [t \in Tags |-> << >>]]
    /\ calls = 0

PeerStep(c) == \/ PeerConnects(c) \/ PeerAnswersGet(c) \/ PeerCloses(c)
               \/ \E t \in Tags : PeerSends(c, t)
               \/ \E f \in Asks : PeerAsks(c, f)

ReaderStep(c) == \/ Read(c) \/ ReadFails(c) \/ CheckGen(c) \/ Dispatch(c)
                 \/ Answer(c) \/ AnswerFails(c)
                 \/ EndCheck(c) \/ MarkLost(c) \/ NotifyLost(c)

AppCall == \E p \in Peers : GetCall(p) \/ \E t \in Tags : RecvCall(p, t)

AppStep == RecvTake \/ RecvCheck \/ RecvWait \/ GetTake

Construct == \/ \E p \in Dialed : Dial(p)
             \/ DialFails \/ StartAccepting
             \/ \E c \in Conns : AcceptMesh(c) \/ AcceptStar(c) \/ HelloFails(c)

DropStep == Joined \/ \E p \in Peers : ShutDown(p)

Next == \/ \E c \in Conns : PeerStep(c) \/ PeerTakesAnswer(c) \/ ReaderStep(c)
        \/ Construct \/ AppCall \/ AppStep \/ DeadlinePasses
        \/ Drop \/ DropStep

Spec == Init /\ [][Next]_vars

\* Every thread of this rank that can take a step eventually does.  The peers
\* owe nothing, and no deadline need pass.
Fairness == /\ \A c \in Conns : WF_vars(ReaderStep(c))
            /\ WF_vars(AppStep) /\ WF_vars(DropStep)

FairSpec == Spec /\ Fairness

-----------------------------------------------------------------------------
(* Properties.                                                             *)

Sent == [kind : {"SEND"}, conn : Conns, tag : Tags, n : Nat \ {0}]

\* Rank p has opened a second connection.
Again(p) == sock[<<p, 2>>] # "unborn"

\* Whatever reader threads and replacements interleave, receives see the frames
\* of a connection under a tag in the order they were sent, none twice, and none
\* missing before one that is there.
InOrderOnce ==
    \A p \in Peers, t \in Tags :
       LET s == got[p][t] \o inbox[p][t] IN
       \A i \in DOMAIN s :
          s[i].n = 1 + Cardinality({j \in 1..(i - 1) : s[j].conn = s[i].conn})

\* "Queued data is always delivered first" (recv_inbox): a receive reports a rank
\* with one connection as disconnected only if the rank did close it, and every
\* frame it had sent under that tag has been received.  A close is a clean one here:
\* what a reset may discard unread is not modelled.
DrainedBeforeLost ==
    LET p == app.from  c == <<p, 1>> IN
    (app.res = "lost" /\ ~Again(p)) =>
        sock[c] = "closed" /\ Len(got[p][app.tag]) = sent[c][app.tag]

\* "Per peer: its connection closed" (NetInner::lost), and a reader "whose
\* connection was replaced ... ends without marking the peer lost" (conn_gen):
\* a peer is lost only if its connection in use has been closed by it.
LostMeansClosed ==
    \A p \in Peers : lost[p] => sock[<<p, writers[p]>>] = "closed"

\* A constructor returns with a connection to every peer, also when a rank
\* connects again meanwhile: "a count of connections is not enough"
\* (from_listener_reversed).  coordinator_listen counts connections all the same,
\* so of the star it holds only as long as no rank connects again.
EveryPeerConnected ==
    (phase \in {"up", "dropping", "down"} /\ ~(setup.star /\ \E p \in Peers : Again(p)))
        => \A p \in Peers : writers[p] # NoConn

\* "A receive waiting on a lost peer fails instead of blocking forever"
\* (NetInner::lost): a receive from a rank that has closed its connection ends.
RecvEnds ==
    LET p == app.from IN
    (app.pc \notin {"idle", "getting"} /\ writers[p] # NoConn
        /\ sock[<<p, writers[p]>>] = "closed") ~> (app.pc = "idle")

\* Drop returns, its join of the reader threads included: "Closing each socket makes
\* the reader threads' read_exact fail".  Two cases are excepted: a peer that keeps
\* its connection open and never takes the response a reader is writing to it, whose
\* writer lock Drop then waits for; and a star of which a worker connected again,
\* whose earlier socket is left open.
DropEnds ==
    (\A c \in Conns : []<>~AnswerWaits(c)) =>
        ((phase = "dropping" /\ ~(setup.star /\ \E p \in Peers : Again(p)))
            ~> (phase = "down" \/ (setup.star /\ \E p \in Peers : Again(p))))

=============================================================================

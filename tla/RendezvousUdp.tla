---------------------------- MODULE RendezvousUdp ----------------------------
(***************************************************************************)
(* The rendezvous over UDP (rendezvous.rs, serve_udp and the Udp arm of    *)
(* register).  net holds the datagrams that may still arrive.  Receiving   *)
(* one leaves it there, so it may arrive again (duplication) or after      *)
(* later ones (reordering); Lose takes it away.  The workers re-send their *)
(* registration until they are answered; the coordinator answers           *)
(* registrations it already knows with the same rank, and lingers after    *)
(* the roster is complete until every rank has acknowledged its answer.    *)
(***************************************************************************)
EXTENDS Roster

VARIABLES worldArg,   \* the WORLD rank 0 was started with
          want,       \* per worker: the RANK and WORLD it was started with
          roster,     \* serve_udp: roster
          status,     \* serve_udp: done_at unset / set, or how it returned
          lingered,   \* serve_udp: returned because the linger expired
          replyTo,    \* serve_udp: reply_to, by rank the socket to answer
          acked,      \* serve_udp: acked
          net,        \* the datagrams under way
          told        \* per worker: what register() returned, if it has

R == INSTANCE Rendezvous WITH
        agreed <- IF status \in {"done", "returned"} THEN List(roster) ELSE << >>

serverVars == <<roster, status, lingered, replyTo, acked>>
args == <<worldArg, want>>
vars == <<worldArg, want, roster, status, lingered, replyTo, acked, net, told>>

-----------------------------------------------------------------------------
(* The datagrams.  A worker's rendezvous socket is named by the worker.    *)

RegMsg(w)  == [type |-> "RLXREG",
               reg  |-> [addr |-> w, rank |-> want[w].rank, world |-> want[w].world]]
ErrMsg(w)  == [type |-> "RLXERR", to |-> w]
AckMsg(r)  == [type |-> "RLXACK", rank |-> r]

\* Mutant: ranks are counted without the coordinator.
PeersMsgOneLess(w, r, ro) ==
    [type |-> "RLXPEERS", to |-> w, asg |-> PeersLine(r - 1, ro)]

PeersMsg(w, r, ro) ==
    [type |-> "RLXPEERS", to |-> w, asg |-> PeersLine(r, ro)]

\* The answers serve_udp sends to every socket it knows when the roster closes.
ReplyAll(to, ro) == {PeersMsg(to[r], r, ro) : r \in DOMAIN to}

-----------------------------------------------------------------------------
(* The coordinator.                                                        *)

\* Mutant: one acknowledgement too few is waited for.
OneAckMissing == Cardinality(acked) + 2 >= roster.world

EveryoneAcked == Cardinality(acked) + 1 >= roster.world

\* Mutant: no registration is answered once the list has been sent.
ServingOnlyOnce == status = "collecting"

\* The loop returns at its top, before it reads the next datagram.
Serving == status = "collecting" \/ (status = "done" /\ ~EveryoneAcked)

RecvReg(w) ==
    LET reg == RegMsg(w).reg
        r   == AdmittedRank(roster, reg)
        ro  == Admit(roster, reg)
        to  == [q \in DOMAIN replyTo \cup {r} |-> IF q = r THEN w ELSE replyTo[q]]
    IN
    /\ Serving
    /\ RegMsg(w) \in net
    /\ IF Refuses(roster, reg)
       THEN /\ net' = net \cup {ErrMsg(w)}
            /\ UNCHANGED <<roster, status, replyTo>>
       ELSE /\ roster' = ro
            /\ replyTo' = to
            /\ CASE status = "done" ->
                       /\ net' = net \cup {PeersMsg(w, r, ro)}
                       /\ UNCHANGED status
                 [] status = "collecting" /\ Full(ro) ->
                       /\ net' = net \cup ReplyAll(to, ro)
                       /\ status' = "done"
                 [] status = "collecting" /\ ~Full(ro) ->
                       UNCHANGED <<net, status>>
    /\ UNCHANGED <<args, lingered, acked, told>>

RecvAck(r) ==
    /\ Serving
    /\ AckMsg(r) \in net
    /\ acked' = acked \cup {r}
    /\ UNCHANGED <<args, roster, status, lingered, replyTo, net, told>>

\* serve_open: the window ends, the world is whoever registered.
WindowEnds ==
    /\ status = "collecting" /\ worldArg = Open
    /\ roster' = Close(roster)
    /\ status' = "done"
    /\ net' = net \cup ReplyAll(replyTo, Close(roster))
    /\ UNCHANGED <<args, lingered, replyTo, acked, told>>

\* serve: the timeout passes before every rank has registered.
ServeTimesOut ==
    /\ status = "collecting" /\ worldArg # Open
    /\ status' = "timedout"
    /\ UNCHANGED <<args, roster, lingered, replyTo, acked, net, told>>

ServeReturns ==
    /\ status = "done" /\ EveryoneAcked
    /\ status' = "returned"
    /\ UNCHANGED <<args, roster, lingered, replyTo, acked, net, told>>

LingerExpires ==
    /\ status = "done" /\ ~EveryoneAcked
    /\ status' = "returned"
    /\ lingered' = TRUE
    /\ UNCHANGED <<args, roster, replyTo, acked, net, told>>

-----------------------------------------------------------------------------
(* The workers.                                                            *)

\* (Re-)send the registration: every 250 ms until something is received.
SendReg(w) ==
    /\ told[w] = R!Pending
    /\ net' = net \cup {RegMsg(w)}
    /\ UNCHANGED <<args, serverVars, told>>

RecvPeers(w) ==
    /\ told[w] = R!Pending
    /\ \E m \in net :
          /\ m.type = "RLXPEERS" /\ m.to = w
          /\ told' = [told EXCEPT ![w] = m.asg]
          /\ net' = net \cup {AckMsg(m.asg.rank)}
    /\ UNCHANGED <<args, serverVars>>

RecvErr(w) ==
    /\ told[w] = R!Pending
    /\ ErrMsg(w) \in net
    /\ told' = [told EXCEPT ![w] = R!Failed]
    /\ UNCHANGED <<args, serverVars, net>>

RegisterTimesOut(w) ==
    /\ told[w] = R!Pending
    /\ told' = [told EXCEPT ![w] = R!Failed]
    /\ UNCHANGED <<args, serverVars, net>>

Lose ==
    /\ \E m \in net : net' = net \ {m}
    /\ UNCHANGED <<args, serverVars, told>>

-----------------------------------------------------------------------------
Init ==
    /\ worldArg \in WorldArgs
    /\ want \in [Workers -> Wants]
    /\ roster = NewRoster(worldArg)
    /\ status = "collecting"
    /\ lingered = FALSE
    /\ replyTo = << >>
    /\ acked = {}
    /\ net = {}
    /\ told = [w \in Workers |-> R!Pending]

Next ==
    \/ \E w \in Workers : \/ RecvReg(w) \/ SendReg(w) \/ RecvPeers(w)
                          \/ RecvErr(w) \/ RegisterTimesOut(w)
    \/ \E r \in Ranks(roster) : RecvAck(r)
    \/ WindowEnds \/ ServeTimesOut \/ ServeReturns \/ LingerExpires
    \/ Lose

Spec == Init /\ [][Next]_vars

(***************************************************************************)
(* A worker keeps re-sending, the coordinator keeps reading its socket,    *)
(* and the network does not lose every copy of a datagram that is sent     *)
(* again and again.  Nothing forces a timeout to pass.                     *)
(***************************************************************************)
Fairness ==
    /\ \A w \in Workers : /\ WF_vars(SendReg(w))
                          /\ SF_vars(RecvReg(w))
                          /\ SF_vars(RecvPeers(w))
                          /\ SF_vars(RecvErr(w))

FairSpec == Spec /\ Fairness

-----------------------------------------------------------------------------
(* Properties.                                                             *)

Answer == {R!Pending, R!Failed}
          \cup [st : {"assigned"}, rank : Nat, world : Nat, peers : Seq(Addr)]

Members == {w \in Workers : RanksOf(roster, w) # {}}

\* All ranks that return from the rendezvous hold one peer list, the one rank 0
\* returns; each finds its own address at the index of its rank (Assignment:
\* "Every rank's data address, indexed by rank"); and no two share a rank.
OnePeerList ==
    \A v, w \in Workers :
       told[v].st = "assigned" =>
          /\ status \in {"done", "returned"}
          /\ told[v].peers = List(roster)
          /\ told[v].world = Len(told[v].peers)
          /\ told[v].peers[told[v].rank + 1] = v
          /\ (told[w].st = "assigned" /\ told[w].rank = told[v].rank) => v = w

\* A worker that holds a rank is never sent a refusal, however often and in
\* whatever order its registrations arrive (admit: "A retransmit (UDP) or
\* reconnect from the same data address keeps its rank").  The one exception is
\* a member of an open roster whose WORLD is not the one the window closed with:
\* close() makes admit compare a WORLD it had let pass.  It is about datagrams: over
\* TCP a worker registers once on a connection and is answered once.
NoMemberRefused ==
    \A m \in net :
       (m.type = "RLXERR" /\ m.to \in Members) =>
          /\ worldArg = Open /\ status # "collecting"
          /\ want[m.to].world \notin {NoOpt, roster.world}

\* When serve_udp returns before its linger expired, no rank is still without
\* the peer list: an acknowledgement is only ever sent by a rank that has it.
ReturnedMeansInformed ==
    (status = "returned" /\ ~lingered) =>
        \A w \in Members : told[w].st = "assigned"

\* A rank once handed out stays with its address, and nobody joins after the
\* list has been sent, whatever registrations still arrive.
RosterStable ==
    [][ /\ \A r \in Ranks(roster) :
              r \in Ranks(roster') /\ roster'.peers[r] = roster.peers[r]
        /\ status # "collecting" => roster' = roster ]_vars

\* Every rank of a complete roster is answered despite lost datagrams, unless
\* the coordinator's linger or the worker's own timeout ends the attempt first.
MembersInformed ==
    (status = "done") ~> (lingered \/ \A w \in Members : told[w] # R!Pending)

\* serve_udp and register implement the rendezvous.
RendezvousSpec == R!Spec

=============================================================================

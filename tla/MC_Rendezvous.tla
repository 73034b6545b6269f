--------------------------- MODULE MC_Rendezvous ---------------------------
(* The rendezvous for TLC, as serve() and register() are called: `match     *)
(* proto' picks UDP or TCP and the arguments are the same.  The worlds are  *)
(* an open roster, one that fills before everyone has registered, and one   *)
(* that fills with the last.                                                *)
EXTENDS RendezvousUdp

VARIABLES proto, backlog, reading, waiting, conn, line

T == INSTANCE RendezvousTcp

udpOnly == <<lingered, replyTo, acked, net>>
tcpOnly == <<backlog, reading, waiting, conn, line>>
all     == <<proto, vars, tcpOnly>>

Worlds  == {Open, 2, 3}
AnyJob  == [rank |-> NoOpt, world |-> NoOpt]
RankOne == [rank |-> 1, world |-> NoOpt]
World4  == [rank |-> NoOpt, world |-> 4]
Requests == {AnyJob, RankOne, World4}

ServeInit == proto \in {"udp", "tcp"} /\ Init /\ T!Init

Udp(A) == proto = "udp" /\ A /\ UNCHANGED <<proto, tcpOnly>>
Tcp(A) == proto = "tcp" /\ A /\ UNCHANGED <<proto, udpOnly>>

ServeNext == Udp(Next) \/ Tcp(T!Next)

\* The fairness of both modules, each while its protocol runs.
ServeSpec ==
    /\ ServeInit /\ [][ServeNext]_all
    /\ \A w \in Workers : /\ WF_all(Udp(SendReg(w)))
                          /\ SF_all(Udp(RecvReg(w)))
                          /\ SF_all(Udp(RecvPeers(w)))
                          /\ SF_all(Udp(RecvErr(w)))
                          /\ WF_all(Tcp(T!ReadReg(w))) /\ WF_all(Tcp(T!ReadTimesOut(w)))
                          /\ WF_all(Tcp(T!RecvLine(w))) /\ WF_all(Tcp(T!RecvEof(w)))
    /\ WF_all(Tcp(T!Accept)) /\ WF_all(Tcp(T!WindowEnds)) /\ WF_all(Tcp(T!ServeTimesOut))
    /\ WF_all(Tcp(T!Reply)) /\ WF_all(Tcp(T!ServeReturns))

\* serve returns only when everybody on its list has been answered: over UDP
\* every rank has the list unless the linger expired, over TCP it was written to
\* exactly the ranks on the list.
ReturnedMeansServed ==
    IF proto = "udp" THEN ReturnedMeansInformed ELSE T!ReturnedMeansAnswered

\* Every worker that registered over TCP learns its fate, although another that
\* connected before it writes nothing and is read first.
EveryoneResolved == T!EveryoneResolved
=============================================================================

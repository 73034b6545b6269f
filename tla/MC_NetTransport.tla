--------------------------- MODULE MC_NetTransport ---------------------------
(* Instances of NetTransport for TLC: two peers.                           *)
EXTENDS NetTransport

BothPeers == {1, 2}

\* Everyone connects once; receives with a deadline, and gets.
Once(star, dialed) ==
    [star |-> star, dialed |-> dialed, again |-> {}, timeout |-> TRUE, gets |-> TRUE,
     asks |-> 0]
\* The first peer may connect again; receives without a deadline.
TwiceFirst(star, dialed) ==
    [star |-> star, dialed |-> dialed, again |-> {1}, timeout |-> FALSE, gets |-> FALSE,
     asks |-> 0]
\* The same while the mesh accepts both peers, without frames.
Accepting == TwiceFirst(FALSE, {})
\* Several frames and receives, for their order.
Stream ==
    [star |-> FALSE, dialed |-> BothPeers, again |-> {}, timeout |-> FALSE, gets |-> FALSE,
     asks |-> 0]
\* Peers that put and get, and need not take the responses.
Asking == [Stream EXCEPT !.asks = 1]
\* The same, one of them connecting again; no receives.
AskingTwice == [Asking EXCEPT !.dialed = {2}, !.again = {1}]

AllSetups == {Once(TRUE, {}), Once(FALSE, {2}), TwiceFirst(TRUE, {}), TwiceFirst(FALSE, {2}),
              Accepting, Stream, Asking, AskingTwice}

Frames == [s \in AllSetups |-> CASE s = Stream -> 2
                                 [] s \in {Accepting, AskingTwice} -> 0
                                 [] OTHER -> 1]
Recvs  == [s \in AllSetups |-> CASE s = AskingTwice -> 0
                                 [] s = Asking \/ s.again = {1} -> 1
                                 [] OTHER -> 2]
=============================================================================

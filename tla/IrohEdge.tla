------------------------------ MODULE IrohEdge ------------------------------
(***************************************************************************)
(* One directed edge of the QUIC transport (rlx-driver,                    *)
(* iroh_transport.rs): the threads of one rank that send to another, the   *)
(* cached connection and its one stream, the reader task per connection    *)
(* on the other side, its mailbox, and a receiver that waits there.  All   *)
(* frames carry one tag, the case in which order matters.                  *)
(*                                                                         *)
(* A stream accepts bytes into a buffer: a send that returned Ok has not   *)
(* arrived.  When its connection ends, what was under way arrives up to    *)
(* some point.  A frame remembers the edge it was sent over.               *)
(***************************************************************************)
EXTENDS Integers, Sequences, FiniteSets

CONSTANTS Threads,    \* the sending threads
          MaxFrames,  \* bound: frames each of them sends
          MaxEdges,   \* bound: connections dialled
          MaxDeaths   \* bound: connections that fail by themselves

ASSUME BoundAssumption == {MaxFrames, MaxEdges, MaxDeaths} \subseteq Nat

VARIABLES up,      \* the sender's IrohTransport exists
          cached,  \* out.get(to): an edge, or NoEdge
          edges,   \* how many were dialled: they are 1..edges
          alive,   \* per edge: the sender's end is open
          wire,    \* per edge: frames accepted and not read yet
          reader,  \* per edge: "unnamed", "named" (it read a header), "ended"
          pc,      \* per thread: "idle", "edge", "dialing", "writing"
          at,      \* the edge it holds
          again,   \* it is on its second attempt
          frame,   \* how many frames it has begun to send
          ok,      \* history: the frames whose send returned Ok
          mail,    \* mailbox[(from, tag)]
          lost,    \* mailbox[(from, TAG_LOST)] is not empty
          taken,   \* history: the frames recv_bytes returned
          failed,  \* a recv_bytes returned an error
          deaths

sender   == <<up, cached, pc, at, again, frame, ok>>
link     == <<edges, alive, wire, reader, deaths>>
receiver == <<mail, lost, taken, failed>>
edgeVars == <<sender, link, receiver>>

NoEdge == 0
Edges  == 1..MaxEdges

EdgeInit ==
    /\ up = TRUE /\ cached = NoEdge /\ edges = 0 /\ deaths = 0
    /\ alive = [e \in Edges |-> FALSE]
    /\ wire = [e \in Edges |-> <<>>]
    /\ reader = [e \in Edges |-> "unnamed"]
    /\ pc = [t \in Threads |-> "idle"]
    /\ at = [t \in Threads |-> NoEdge]
    /\ again = [t \in Threads |-> FALSE]
    /\ frame = [t \in Threads |-> 0]
    /\ ok = {} /\ mail = <<>> /\ lost = FALSE /\ taken = <<>> /\ failed = FALSE

Go(t, s) == pc' = [pc EXCEPT ![t] = s]

-----------------------------------------------------------------------------
(***************************************************************************)
(* send_bytes and edge_to.  Two threads that find no cached edge both      *)
(* dial, and the later one's edge replaces the other's.                    *)
(***************************************************************************)
Send(t) ==
    /\ up /\ pc[t] = "idle" /\ frame[t] < MaxFrames
    /\ frame' = [frame EXCEPT ![t] = @ + 1]
    /\ again' = [again EXCEPT ![t] = FALSE]
    /\ Go(t, "edge")
    /\ UNCHANGED <<up, cached, at, ok, link, receiver>>

LookUp(t) ==
    /\ pc[t] = "edge"
    /\ at' = [at EXCEPT ![t] = cached]
    /\ Go(t, IF cached = NoEdge THEN "dialing" ELSE "writing")
    /\ UNCHANGED <<up, cached, again, frame, ok, link, receiver>>

Dial(t) ==
    /\ pc[t] = "dialing" /\ edges < MaxEdges
    /\ edges' = edges + 1
    /\ alive' = [alive EXCEPT ![edges'] = TRUE]
    /\ cached' = edges'
    /\ at' = [at EXCEPT ![t] = edges']
    /\ Go(t, "writing")
    /\ UNCHANGED <<up, again, frame, ok, wire, reader, deaths, receiver>>

\* No answer for DIAL_TIMEOUT: send_bytes fails.
DialFails(t) ==
    /\ pc[t] = "dialing"
    /\ Go(t, "idle")
    /\ UNCHANGED <<up, cached, at, again, frame, ok, link, receiver>>

\* Mutant: the loop goes on after a write that succeeded.
AfterWriteTwice(t) == IF again[t] THEN "idle" ELSE "edge"

AfterWrite(t) == "idle"

\* Header and payload are written under the stream's lock.
Write(t) ==
    /\ pc[t] = "writing" /\ alive[at[t]]
    /\ wire' = [wire EXCEPT ![at[t]] = Append(@, <<t, frame[t], at[t]>>)]
    /\ ok' = ok \cup {<<t, frame[t]>>}
    /\ again' = [again EXCEPT ![t] = TRUE]
    /\ at' = [at EXCEPT ![t] = NoEdge]
    /\ Go(t, AfterWrite(t))
    /\ UNCHANGED <<up, cached, frame, edges, alive, reader, deaths, receiver>>

\* evict removes whatever edge is cached by now; one redial.
WriteFails(t) ==
    /\ pc[t] = "writing" /\ ~alive[at[t]]
    /\ cached' = NoEdge
    /\ again' = [again EXCEPT ![t] = TRUE]
    /\ at' = [at EXCEPT ![t] = NoEdge]
    /\ Go(t, IF again[t] THEN "idle" ELSE "edge")
    /\ UNCHANGED <<up, frame, ok, link, receiver>>

-----------------------------------------------------------------------------
(***************************************************************************)
(* Connections end.                                                        *)
(***************************************************************************)
Ends(e) ==
    /\ alive' = [alive EXCEPT ![e] = FALSE]
    /\ \E n \in 0..Len(wire[e]) : wire' = [wire EXCEPT ![e] = SubSeq(@, 1, n)]
    /\ UNCHANGED <<edges, reader, receiver>>

\* The network, or the sender's machine, or drop's 3 s without an acknowledgement.
Dies(e) ==
    /\ alive[e] /\ deaths < MaxDeaths
    /\ deaths' = deaths + 1
    /\ Ends(e)
    /\ UNCHANGED sender

\* The last handle of an edge that was replaced or evicted is dropped.
Unheld(e) == e # cached /\ \A t \in Threads : at[t] # e

Closes(e) ==
    /\ alive[e] /\ Unheld(e)
    /\ Ends(e)
    /\ UNCHANGED <<sender, deaths>>

\* Mutant: drop closes the endpoint at once.
FlushedUnasked(e) == TRUE

\* drop finishes the stream and waits until the peer has everything.
Flushed(e) == wire[e] = <<>>

Drop ==
    /\ up /\ \A t \in Threads : pc[t] = "idle"
    /\ up' = FALSE
    /\ UNCHANGED <<cached, pc, at, again, frame, ok, link, receiver>>

Finish(e) ==
    /\ ~up /\ alive[e] /\ e = cached /\ Flushed(e)
    /\ Ends(e)
    /\ UNCHANGED <<sender, deaths>>

-----------------------------------------------------------------------------
(***************************************************************************)
(* reader_loop and recv_bytes                                              *)
(***************************************************************************)
ReadFrame(e) ==
    /\ reader[e] # "ended" /\ wire[e] # <<>>
    /\ mail' = Append(mail, Head(wire[e]))
    /\ wire' = [wire EXCEPT ![e] = Tail(@)]
    /\ reader' = [reader EXCEPT ![e] = "named"]
    /\ UNCHANGED <<sender, edges, alive, deaths, lost, taken, failed>>

\* mark_lost knows the peer only once a header was read.
LostBy(e) == reader[e] = "named"

\* Wires end at whole frames here: a frame cut after its header, which names the peer
\* too, is left out.
ReadEnd(e) ==
    /\ e \in 1..edges /\ reader[e] # "ended" /\ wire[e] = <<>> /\ ~alive[e]
    /\ lost' = (lost \/ LostBy(e))
    /\ reader' = [reader EXCEPT ![e] = "ended"]
    /\ UNCHANGED <<sender, edges, alive, wire, deaths, mail, taken, failed>>

\* What is queued is returned first.  The receiver stops at the first error.
RecvBytes ==
    /\ ~failed
    /\ \/ /\ mail # <<>>
          /\ taken' = Append(taken, Head(mail)) /\ mail' = Tail(mail)
          /\ UNCHANGED failed
       \/ /\ mail = <<>> /\ lost
          /\ failed' = TRUE
          /\ UNCHANGED <<taken, mail>>
    /\ UNCHANGED <<sender, link, lost>>

-----------------------------------------------------------------------------
EdgeNext ==
    \/ Drop \/ RecvBytes
    \/ \E t \in Threads : Send(t) \/ LookUp(t) \/ Dial(t) \/ DialFails(t) \/ Write(t) \/ WriteFails(t)
    \/ \E e \in Edges : Dies(e) \/ Closes(e) \/ Finish(e) \/ ReadFrame(e) \/ ReadEnd(e)

\* Handles are dropped, streams finished and readers run without anybody's help; what
\* the application sends, and when it drops the transport, is its own affair.
EdgeSpec ==
    /\ EdgeInit /\ [][EdgeNext]_edgeVars
    /\ WF_edgeVars(RecvBytes)
    /\ \A e \in Edges : /\ WF_edgeVars(Closes(e)) /\ WF_edgeVars(Finish(e))
                        /\ WF_edgeVars(ReadFrame(e)) /\ WF_edgeVars(ReadEnd(e))

-----------------------------------------------------------------------------
Arrived == taken \o mail

\* No frame arrives twice, whatever is retried, redialled or raced; and the frames of
\* one edge arrive in the order they were sent in.  Across two edges the code keeps no
\* order.
OnceInOrder ==
    \A i, j \in DOMAIN Arrived :
        i < j /\ Arrived[i][1] = Arrived[j][1] =>
            /\ Arrived[i][2] # Arrived[j][2]
            /\ Arrived[i][3] = Arrived[j][3] => Arrived[i][2] < Arrived[j][2]

\* One connection served the whole time.
Undisturbed == edges = 1 /\ deaths = 0

\* A receive on a rank that is gone ends once a frame of it has arrived; and if one
\* connection served the whole time, not before everything it sent was received, the
\* last message of a rank that exits at once included.
RecvEnds ==
    (~up /\ Arrived # <<>>)
        ~> /\ failed
           /\ Undisturbed => ok = {<<taken[i][1], taken[i][2]>> : i \in DOMAIN taken}

=============================================================================

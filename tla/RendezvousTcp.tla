---------------------------- MODULE RendezvousTcp ----------------------------
(***************************************************************************)
(* The rendezvous over TCP (rendezvous.rs, serve_tcp and the Tcp arm of    *)
(* register).  A worker opens one connection, writes its registration and  *)
(* waits for one line.  The coordinator accepts connections one at a time  *)
(* and reads each for at most 10 s, during which nothing else happens;     *)
(* it keeps the admitted ones open in `waiting' and writes to all of them  *)
(* once the roster is complete; a worker may have given up by then.        *)
(***************************************************************************)
EXTENDS Roster

VARIABLES worldArg,  \* the WORLD rank 0 was started with
          want,      \* per worker: the RANK and WORLD it was started with
          roster,    \* serve_tcp: roster
          status,    \* serve_tcp: in its loop, in its reply loop, or how it returned
          backlog,   \* the connections accept() has not returned yet, oldest first
          reading,   \* serve_tcp: the connections being read, at most one
          waiting,   \* serve_tcp: waiting, the admitted connections in order
          conn,      \* per worker: its connection and whether it has written
          line,      \* per worker: the line written to its connection
          told       \* per worker: what register() returned, if it has

R == INSTANCE Rendezvous WITH
        agreed <- IF status \in {"done", "returned"} THEN List(roster) ELSE << >>

args == <<worldArg, want>>
sockets == <<backlog, reading, waiting, conn, line>>
vars == <<worldArg, want, roster, status, sockets, told>>

NoLine  == [type |-> "none"]
ErrLine == [type |-> "RLXERR"]

PeersReply(r, ro) == [type |-> "RLXPEERS", asg |-> PeersLine(r, ro)]

RegOf(w) == [addr |-> w, rank |-> want[w].rank, world |-> want[w].world]

-----------------------------------------------------------------------------
(* The coordinator.                                                        *)

Accept ==
    /\ status = "collecting" /\ reading = {}
    /\ backlog # << >>
    /\ reading' = {Head(backlog)}
    /\ backlog' = Tail(backlog)
    /\ UNCHANGED <<args, roster, status, waiting, conn, line, told>>

\* read_line returns: a registration, or nothing when the worker has left, which
\* parse_reg refuses like any line it cannot read.
ReadReg(w) ==
    LET reg == RegOf(w)
        ro  == Admit(roster, reg)
    IN
    /\ w \in reading
    /\ conn[w] = "sent" \/ told[w] = R!Failed
    /\ reading' = {}
    /\ IF conn[w] # "sent" \/ Refuses(roster, reg)
       THEN /\ line' = [line EXCEPT ![w] = ErrLine]
            /\ conn' = [conn EXCEPT ![w] = "closed"]
            /\ UNCHANGED <<roster, status, waiting>>
       ELSE /\ roster' = ro
            /\ waiting' = Append(waiting, <<w, AdmittedRank(roster, reg)>>)
            /\ conn' = [conn EXCEPT ![w] = "waiting"]
            /\ status' = IF Full(ro) THEN "done" ELSE status
            /\ UNCHANGED line
    /\ UNCHANGED <<args, backlog, told>>

\* Mutant: a connection that writes nothing is read for ever.
ReadNeverTimesOut(w) == FALSE /\ UNCHANGED vars

\* 10 s without a line: the connection is dropped unanswered.
ReadTimesOut(w) ==
    /\ w \in reading /\ conn[w] = "open"
    /\ reading' = {}
    /\ conn' = [conn EXCEPT ![w] = "closed"]
    /\ UNCHANGED <<args, roster, status, backlog, waiting, line, told>>

\* serve_open: the window ends, the world is whoever registered.
WindowEnds ==
    /\ status = "collecting" /\ reading = {} /\ worldArg = Open
    /\ roster' = Close(roster)
    /\ status' = "done"
    /\ UNCHANGED <<args, sockets, told>>

\* serve: the timeout passes; every connection is dropped unanswered.
ServeTimesOut ==
    /\ status = "collecting" /\ reading = {} /\ worldArg # Open
    /\ status' = "timedout"
    /\ UNCHANGED <<args, roster, sockets, told>>

\* One turn of the reply loop; a connection the worker has left is written to
\* all the same.
Reply ==
    /\ status = "done" /\ waiting # << >>
    /\ LET w == Head(waiting)[1]
           r == Head(waiting)[2]
       IN  /\ line' = [line EXCEPT ![w] = PeersReply(r, roster)]
           /\ conn' = [conn EXCEPT ![w] = "closed"]
    /\ waiting' = Tail(waiting)
    /\ UNCHANGED <<args, roster, status, backlog, reading, told>>

ServeReturns ==
    /\ status = "done" /\ waiting = << >>
    /\ status' = "returned"
    /\ UNCHANGED <<args, roster, sockets, told>>

-----------------------------------------------------------------------------
(* The workers.                                                            *)

\* Connect, retried until the coordinator listens.
Connect(w) ==
    /\ told[w] = R!Pending /\ conn[w] = "none"
    /\ status \in {"collecting", "done"}
    /\ conn' = [conn EXCEPT ![w] = "open"]
    /\ backlog' = Append(backlog, w)
    /\ UNCHANGED <<args, roster, status, reading, waiting, line, told>>

\* Bind the data endpoint, write the registration.
SendReg(w) ==
    /\ told[w] = R!Pending /\ conn[w] = "open"
    /\ conn' = [conn EXCEPT ![w] = "sent"]
    /\ UNCHANGED <<args, roster, status, backlog, reading, waiting, line, told>>

RecvLine(w) ==
    /\ told[w] = R!Pending /\ line[w] # NoLine
    /\ told' = [told EXCEPT ![w] = IF line[w] = ErrLine THEN R!Failed ELSE line[w].asg]
    /\ UNCHANGED <<args, roster, status, sockets>>

\* The connection was dropped, or the coordinator is gone, and nothing was
\* written: "rendezvous closed without a reply", or the write fails.
RecvEof(w) ==
    /\ told[w] = R!Pending /\ line[w] = NoLine
    /\ conn[w] = "closed"
       \/ (conn[w] # "none" /\ status \in {"returned", "timedout"})
    /\ told' = [told EXCEPT ![w] = R!Failed]
    /\ UNCHANGED <<args, roster, status, sockets>>

RegisterTimesOut(w) ==
    /\ told[w] = R!Pending
    /\ told' = [told EXCEPT ![w] = R!Failed]
    /\ UNCHANGED <<args, roster, status, sockets>>

-----------------------------------------------------------------------------
Init ==
    /\ worldArg \in WorldArgs
    /\ want \in [Workers -> Wants]
    /\ roster = NewRoster(worldArg)
    /\ status = "collecting"
    /\ backlog = << >>
    /\ reading = {}
    /\ waiting = << >>
    /\ conn = [w \in Workers |-> "none"]
    /\ line = [w \in Workers |-> NoLine]
    /\ told = [w \in Workers |-> R!Pending]

Next ==
    \/ \E w \in Workers : \/ ReadReg(w) \/ ReadTimesOut(w) \/ Connect(w) \/ SendReg(w)
                          \/ RecvLine(w) \/ RecvEof(w) \/ RegisterTimesOut(w)
    \/ Accept \/ WindowEnds \/ ServeTimesOut \/ Reply \/ ServeReturns

Spec == Init /\ [][Next]_vars

\* The coordinator's thread keeps running, its deadline and its read timeout pass
\* some day, and the kernel delivers what was written.  Nothing forces a worker to
\* write, nor its own timeout to pass.
Fairness ==
    /\ WF_vars(Accept) /\ WF_vars(WindowEnds) /\ WF_vars(ServeTimesOut)
    /\ WF_vars(Reply) /\ WF_vars(ServeReturns)
    /\ \A w \in Workers : /\ WF_vars(ReadReg(w)) /\ WF_vars(ReadTimesOut(w))
                          /\ WF_vars(RecvLine(w)) /\ WF_vars(RecvEof(w))

FairSpec == Spec /\ Fairness

-----------------------------------------------------------------------------
(* Properties.                                                             *)

Members == {w \in Workers : RanksOf(roster, w) # {}}

\* serve_tcp returns only after every rank on the list was written the list and
\* nobody else was: a rank that is missing later gave up by itself.
ReturnedMeansAnswered ==
    status = "returned" =>
        \A w \in Workers : line[w].type = "RLXPEERS" <=> w \in Members

\* Every worker that has written its registration learns its fate (the list, a
\* refusal, or a closed connection), although another that connected before it
\* writes nothing and is read first.
EveryoneResolved ==
    \A w \in Workers : (conn[w] = "sent") ~> (told[w] # R!Pending)

=============================================================================

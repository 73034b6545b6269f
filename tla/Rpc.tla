-------------------------------- MODULE Rpc --------------------------------
(***************************************************************************)
(* Request/reply RPC over TCP (rlx-distributed, rpc.rs): serve() accepts,  *)
(* one thread per connection runs serve_connection, a heartbeat thread     *)
(* writes to the same stream while a request is worked on, and a request   *)
(* to stop, or the last of max_requests, ends the server under the other   *)
(* threads' feet.                                                          *)
(*                                                                         *)
(* A request is its number on its connection and its op.  A reply frame is *)
(* written in pieces (tag and length, then payload), so that what another  *)
(* writer could put between them is visible.  Every client has one         *)
(* connection, as an RpcClient does.                                       *)
(***************************************************************************)
EXTENDS Integers, Sequences, FiniteSets

CONSTANTS Clients,   \* the RpcClients
          MaxCalls,  \* bound: how often each of them calls
          Maxes      \* what max_requests may be; 0 is no limit

ASSUME ArgumentAssumption == MaxCalls \in [Clients -> Nat] /\ Maxes \subseteq Nat

VARIABLES max,      \* Shared.max
          done,     \* Shared.done
          served,   \* Shared.served
          open,     \* Shared.open
          lock,     \* who holds Shared.handler
          loop,     \* serve: "accepting", "accepted", "joining", "returned"
          queue,    \* the listener's backlog: clients, and Wake
          thread,   \* per connection: where serve_connection is
          cur,      \* the request it works on
          shut,     \* the halves of the socket that were shut down
          reqs,     \* requests written by the client and not read yet
          out,      \* pieces of frames written by the server and not read yet
          client,   \* the caller: "new", "idle", "waiting", "half", "broken", "closed"
          calls,    \* calls made so far
          late,     \* calls that timed out
          got,      \* what the last call returned
          replied   \* history: the last request answered on each connection

server == <<max, done, served, open, lock, loop, queue>>
conn   == <<thread, cur, shut, replied>>
caller == <<client, calls, late, got>>
vars   == <<server, conn, caller, reqs, out>>

Nobody == "nobody"
Wake   == "wake"
Ops    == {"work", "shutdown"}

NoReq    == [n |-> 0, op |-> "work"]
NoResult == [call |-> 0, n |-> 0]

Init ==
    /\ max \in Maxes
    /\ done = FALSE /\ served = 0 /\ open = {} /\ lock = Nobody
    /\ loop = "accepting" /\ queue = <<>>
    /\ thread = [c \in Clients |-> "none"]
    /\ cur = [c \in Clients |-> NoReq]
    /\ shut = [c \in Clients |-> {}]
    /\ reqs = [c \in Clients |-> <<>>] /\ out = [c \in Clients |-> <<>>]
    /\ client = [c \in Clients |-> "new"]
    /\ calls = [c \in Clients |-> 0] /\ late = [c \in Clients |-> 0]
    /\ got = [c \in Clients |-> NoResult]
    /\ replied = [c \in Clients |-> 0]

Go(c, s) == thread' = [thread EXCEPT ![c] = s]
ClientGo(c, s) == client' = [client EXCEPT ![c] = s]

-----------------------------------------------------------------------------
(***************************************************************************)
(* serve.  Between the look at `done' and the push onto `open' a thread    *)
(* may finish the server.                                                  *)
(***************************************************************************)
Accept ==
    /\ loop = "accepting" /\ queue # <<>>
    /\ IF done
       THEN loop' = "joining" /\ UNCHANGED thread
       ELSE loop' = "accepted" /\ Go(Head(queue), "accepted")
    /\ queue' = Tail(queue)
    /\ UNCHANGED <<max, done, served, open, lock, cur, shut, replied, caller, reqs, out>>

Push(c) ==
    /\ loop = "accepted" /\ thread[c] = "accepted"
    /\ open' = open \cup {c}
    /\ Go(c, "top")
    /\ loop' = "accepting"
    /\ UNCHANGED <<max, done, served, lock, queue, cur, shut, replied, caller, reqs, out>>

\* The scope joins the threads, and returning closes what is still in the backlog.
ServeReturns ==
    /\ loop = "joining"
    /\ \A c \in Clients : thread[c] \in {"none", "ended"}
    /\ loop' = "returned"
    /\ UNCHANGED <<max, done, served, open, lock, queue, conn, caller, reqs, out>>

-----------------------------------------------------------------------------
(***************************************************************************)
(* serve_connection                                                        *)
(***************************************************************************)
\* Mutant: a thread relies on the drain alone.
StopsAtTopNever == FALSE

StopsAtTop == done

Top(c) ==
    /\ thread[c] = "top"
    /\ Go(c, IF StopsAtTop THEN "ended" ELSE "reading")
    /\ UNCHANGED <<server, cur, shut, replied, caller, reqs, out>>

\* The request is read whole.  One that arrived may still be read after the drain.
ReadReq(c) ==
    /\ thread[c] = "reading" /\ reqs[c] # <<>>
    /\ cur' = [cur EXCEPT ![c] = Head(reqs[c])]
    /\ reqs' = [reqs EXCEPT ![c] = Tail(@)]
    /\ Go(c, IF Head(reqs[c]).op = "shutdown" THEN "replying" ELSE "working")
    /\ UNCHANGED <<server, shut, replied, caller, out>>

ReadEof(c) ==
    /\ thread[c] = "reading"
    /\ "read" \in shut[c] \/ (client[c] = "closed" /\ reqs[c] = <<>>)
    /\ Go(c, "ended")
    /\ UNCHANGED <<server, cur, shut, replied, caller, reqs, out>>

\* Mutant: the reply is written while the heartbeat thread still runs.
BeatingUnjoined(c) == thread[c] \in {"working", "holding", "replying", "writing"}

\* From before the handler lock until the thread that beats is joined.
Beating(c) == thread[c] \in {"working", "holding"}

\* Bound: one heartbeat unread.
Beat(c) ==
    /\ Beating(c)
    /\ \A i \in DOMAIN out[c] : out[c][i].k # "beat"
    /\ out' = [out EXCEPT ![c] = Append(@, [k |-> "beat"])]
    /\ UNCHANGED <<server, conn, caller, reqs>>

\* handler.lock(), poisoned or not.
TakeLock(c) ==
    /\ thread[c] = "working" /\ lock = Nobody
    /\ lock' = c
    /\ Go(c, "holding")
    /\ UNCHANGED <<max, done, served, open, loop, queue, cur, shut, replied, caller, reqs, out>>

\* handle returns, fails or panics, which is what the reply's tag says; the lock is
\* dropped and the heartbeat joined.
HandlerEnds(c) ==
    /\ thread[c] = "holding"
    /\ lock' = Nobody
    /\ Go(c, "replying")
    /\ UNCHANGED <<max, done, served, open, loop, queue, cur, shut, replied, caller, reqs, out>>

\* write_frame, in two pieces.
CanWrite(c) == "write" \notin shut[c]

WriteHead(c) ==
    /\ thread[c] = "replying" /\ CanWrite(c)
    /\ out' = [out EXCEPT ![c] = Append(@, [k |-> "head"])]
    /\ Go(c, "writing")
    /\ UNCHANGED <<server, cur, shut, replied, caller, reqs>>

\* The frame is out: stop, count it, and stop or go on.
WriteBody(c) ==
    /\ thread[c] = "writing" /\ CanWrite(c)
    /\ out' = [out EXCEPT ![c] = Append(@, [k |-> "body", n |-> cur[c].n])]
    /\ replied' = [replied EXCEPT ![c] = cur[c].n]
    /\ IF cur[c].op = "shutdown"
       THEN Go(c, "finish") /\ UNCHANGED served
       ELSE /\ served' = served + 1
            /\ Go(c, IF max # 0 /\ served' >= max THEN "finish" ELSE "top")
    /\ UNCHANGED <<max, done, open, lock, loop, queue, cur, shut, caller, reqs>>

\* A write to a client that is gone, or to a half that is shut down.
WriteFails(c) ==
    /\ thread[c] \in {"replying", "writing"}
    /\ client[c] = "closed" \/ ~CanWrite(c)
    /\ Go(c, "ended")
    /\ UNCHANGED <<server, cur, shut, replied, caller, reqs, out>>

(***************************************************************************)
(* Shared::finish: swap `done', drain `open', wake the accept loop.        *)
(***************************************************************************)
Swap(c) ==
    /\ thread[c] = "finish"
    /\ done' = TRUE
    /\ Go(c, IF done THEN "ended" ELSE "drain")
    /\ UNCHANGED <<max, served, open, lock, loop, queue, cur, shut, replied, caller, reqs, out>>

\* Mutant: the drain closes the connections for good.
DrainedBoth == {"read", "write"}

Drained == {"read"}

Drain(c) ==
    /\ thread[c] = "drain"
    /\ shut' = [d \in Clients |-> IF d \in open THEN Drained ELSE shut[d]]
    /\ open' = {}
    /\ Go(c, "wake")
    /\ UNCHANGED <<max, done, served, lock, loop, queue, cur, replied, caller, reqs, out>>

\* A connect that fails, which the code ignores, is left out.
WakeUp(c) ==
    /\ thread[c] = "wake"
    /\ queue' = Append(queue, Wake)
    /\ Go(c, "ended")
    /\ UNCHANGED <<max, done, served, open, lock, loop, cur, shut, replied, caller, reqs, out>>

-----------------------------------------------------------------------------
(***************************************************************************)
(* RpcClient                                                               *)
(***************************************************************************)
Connect(c) ==
    /\ client[c] = "new" /\ loop # "returned"
    /\ ClientGo(c, "idle")
    /\ queue' = Append(queue, c)
    /\ UNCHANGED <<max, done, served, open, lock, loop, conn, calls, late, got, reqs, out>>

Call(c, op) ==
    /\ client[c] = "idle" /\ calls[c] < MaxCalls[c]
    /\ calls' = [calls EXCEPT ![c] = @ + 1]
    /\ reqs' = [reqs EXCEPT ![c] = Append(@, [n |-> calls'[c], op |-> op])]
    /\ ClientGo(c, "waiting")
    /\ UNCHANGED <<server, conn, late, got, out>>

\* One pass of call's loop: heartbeats are skipped, a tag starts a frame.
RecvTag(c) ==
    /\ client[c] = "waiting" /\ out[c] # <<>>
    /\ ClientGo(c, IF Head(out[c]).k = "beat" THEN "waiting" ELSE "half")
    /\ out' = [out EXCEPT ![c] = Tail(@)]
    /\ UNCHANGED <<server, conn, calls, late, got, reqs>>

\* The length says how many bytes follow; whatever they are, they are the payload.
RecvBody(c) ==
    /\ client[c] = "half" /\ out[c] # <<>>
    /\ got' = [got EXCEPT ![c] =
          [call |-> calls[c], n |-> IF Head(out[c]).k = "body" THEN Head(out[c]).n ELSE -1]]
    /\ out' = [out EXCEPT ![c] = Tail(@)]
    /\ ClientGo(c, "idle")
    /\ UNCHANGED <<server, conn, calls, late, reqs>>

\* Nothing came for the timeout: the call fails, the connection is kept.  In the middle
\* of a frame the next call would read the rest of it as a tag; no call follows.
TimesOut(c) ==
    /\ client[c] \in {"waiting", "half"} /\ out[c] = <<>>
    /\ late' = [late EXCEPT ![c] = @ + 1]
    /\ ClientGo(c, IF client[c] = "half" THEN "broken" ELSE "idle")
    /\ UNCHANGED <<server, conn, calls, got, reqs, out>>

\* The server's end is closed: its thread has ended, or was never started, and the
\* clone in `open' is gone.
RecvEof(c) ==
    /\ client[c] \in {"waiting", "half"} /\ out[c] = <<>>
    /\ \/ thread[c] = "ended" /\ c \notin open
       \/ thread[c] \in {"none", "ended"} /\ loop = "returned"
    /\ ClientGo(c, "closed")
    /\ UNCHANGED <<server, conn, calls, late, got, reqs, out>>

\* The RpcClient is dropped between two calls.
Close(c) ==
    /\ client[c] \in {"idle", "broken"}
    /\ ClientGo(c, "closed")
    /\ UNCHANGED <<server, conn, calls, late, got, reqs, out>>

-----------------------------------------------------------------------------
Serve(c) ==
    \/ Push(c) \/ Top(c) \/ ReadReq(c) \/ ReadEof(c) \/ TakeLock(c) \/ HandlerEnds(c)
    \/ WriteHead(c) \/ WriteBody(c) \/ WriteFails(c) \/ Swap(c) \/ Drain(c) \/ WakeUp(c)

Ask(c) ==
    \/ Connect(c) \/ (\E op \in Ops : Call(c, op)) \/ RecvTag(c) \/ RecvBody(c)
    \/ TimesOut(c) \/ RecvEof(c) \/ Close(c)

Next == Accept \/ ServeReturns \/ \E c \in Clients : Serve(c) \/ Beat(c) \/ Ask(c)

\* The server's threads and its handler go on; clients do what they like.
Spec ==
    /\ Init /\ [][Next]_vars
    /\ WF_vars(Accept) /\ WF_vars(ServeReturns)
    /\ \A c \in Clients : WF_vars(Serve(c))

-----------------------------------------------------------------------------
\* A call returns the reply to its own request, and that whole, as far as
\* no earlier call of this client timed out: the late reply of such a call is still on
\* the stream and is taken for the next one's, so a call is behind by at most as many
\* requests as have timed out.
ReplyMatches ==
    \A c \in Clients :
        got[c].call # 0 => got[c].n \in (got[c].call - late[c])..got[c].call

\* What was read is answered, although another connection stops the server meanwhile: a
\* thread that is done with a request has written its reply, or the client is gone.
NothingLost ==
    \A c \in Clients :
        \/ thread[c] \in {"working", "holding", "replying", "writing"}
        \/ replied[c] = cur[c].n
        \/ client[c] = "closed"

\* Once it is told to stop, serve returns, whether its clients are idle, are accepted
\* while the others are drained, or wait for the handler.  Sockets are unbounded here: a
\* client that never reads a large reply would keep serve from returning.
ServeStops == done ~> (loop = "returned")

=============================================================================

--------------------------- MODULE Sockets_proofs ---------------------------
(***************************************************************************)
(* What threads do with sockets.  The RPC server and its clients, for any  *)
(* number of them: a request that was read is answered although another    *)
(* connection stops the server, and a call returns its own reply as far    *)
(* as none before it timed out.  The threads that share a NetTransport,    *)
(* for any number of them: their frames do not mix on a socket.            *)
(***************************************************************************)
EXTENDS Rpc, NetThreads, DataLemmas

-----------------------------------------------------------------------------
(* The RPC server and its clients.                                         *)

\* The server has a request of c in hand.
Busy(c) == thread[c] \in {"working", "holding", "replying", "writing"}

TypeOK ==
    /\ DOMAIN thread = Clients /\ DOMAIN cur = Clients /\ DOMAIN shut = Clients
    /\ DOMAIN replied = Clients /\ DOMAIN client = Clients

\* The drain leaves the connections open for writing.
WriteOpen == \A c \in Clients : "write" \notin shut[c]

ReplyInv == TypeOK /\ WriteOpen /\ NothingLost

\* A client that waits in the backlog has no thread, so that accepting it overwrites none;
\* the wake-up is there only once the server is done, and nobody is accepted after that.
QueueFresh ==
    /\ queue \in Seq(Clients \cup {Wake})
    /\ done \/ \A i \in 1..Len(queue) :
                 /\ queue[i] \in Clients /\ thread[queue[i]] = "none" /\ client[queue[i]] # "new"
                 /\ \A j \in 1..Len(queue) : i # j => queue[i] # queue[j]
    /\ \A c \in Clients : thread[c] \in {"drain", "wake"} => done
    /\ \A c \in Clients : client[c] = "new" => thread[c] = "none"

IInv == ReplyInv /\ QueueFresh

Answered(c) == Busy(c) \/ replied[c] = cur[c].n \/ client[c] = "closed"

LEMMA NothingLostIs == NothingLost <=> \A c \in Clients : Answered(c)
  BY DEF NothingLost, Answered, Busy

\* A step that moves the thread of c only, and takes on or answers no request.
LEMMA ThreadMoves ==
    ASSUME ReplyInv, NEW c \in Clients, NEW s, Go(c, s), UNCHANGED <<cur, shut, replied, client>>,
           \/ s \in {"working", "holding", "replying", "writing"}
           \/ ~Busy(c)
           \/ client[c] = "closed"
    PROVE  ReplyInv'
<1>1. /\ thread' = [thread EXCEPT ![c] = s] /\ cur' = cur /\ shut' = shut
      /\ replied' = replied /\ client' = client
  BY DEF Go
<1>2. TypeOK' /\ WriteOpen'
  BY <1>1 DEF ReplyInv, TypeOK, WriteOpen
<1>3. \A d \in Clients : Answered(d)'
  BY <1>1, NothingLostIs DEF ReplyInv, TypeOK, Answered, Busy
<1>4. NothingLost'
  BY <1>3 DEF NothingLost, Answered, Busy
<1> QED
  BY <1>2, <1>4 DEF ReplyInv

\* A step of a client that was not closed.
LEMMA ClientMoves ==
    ASSUME ReplyInv, NEW c \in Clients, NEW s, client[c] # "closed",
           ClientGo(c, s) \/ UNCHANGED client, UNCHANGED conn
    PROVE  ReplyInv'
<1>1. /\ thread' = thread /\ cur' = cur /\ shut' = shut /\ replied' = replied
      /\ client' = [client EXCEPT ![c] = s] \/ client' = client
  BY DEF ClientGo, conn
<1>2. TypeOK' /\ WriteOpen'
  BY <1>1 DEF ReplyInv, TypeOK, WriteOpen
<1>3. \A d \in Clients : Answered(d)'
  BY <1>1, NothingLostIs DEF ReplyInv, TypeOK, Answered, Busy
<1>4. NothingLost'
  BY <1>3 DEF NothingLost, Answered, Busy
<1> QED
  BY <1>2, <1>4 DEF ReplyInv

LEMMA ReadReqReplyInv ==
    ASSUME ReplyInv, NEW c \in Clients, ReadReq(c)
    PROVE  ReplyInv'
<1>1. /\ \E s \in {"working", "replying"} : thread' = [thread EXCEPT ![c] = s]
      /\ cur' = [cur EXCEPT ![c] = Head(reqs[c])]
      /\ shut' = shut /\ replied' = replied /\ client' = client
  BY DEF ReadReq, Go, caller
<1>2. TypeOK' /\ WriteOpen'
  BY <1>1 DEF ReplyInv, TypeOK, WriteOpen
<1>3. \A d \in Clients : Answered(d)'
  BY <1>1, NothingLostIs DEF ReplyInv, TypeOK, Answered, Busy
<1>4. NothingLost'
  BY <1>3 DEF NothingLost, Answered, Busy
<1> QED
  BY <1>2, <1>4 DEF ReplyInv

LEMMA WriteBodyReplyInv ==
    ASSUME ReplyInv, NEW c \in Clients, WriteBody(c)
    PROVE  ReplyInv'
<1>1. /\ \E s : thread' = [thread EXCEPT ![c] = s]
      /\ replied' = [replied EXCEPT ![c] = cur[c].n]
      /\ shut' = shut /\ cur' = cur /\ client' = client
  BY DEF WriteBody, Go, caller
<1>2. TypeOK' /\ WriteOpen'
  BY <1>1 DEF ReplyInv, TypeOK, WriteOpen
<1>3. \A d \in Clients : Answered(d)'
  BY <1>1, NothingLostIs DEF ReplyInv, TypeOK, Answered, Busy
<1>4. NothingLost'
  BY <1>3 DEF NothingLost, Answered, Busy
<1> QED
  BY <1>2, <1>4 DEF ReplyInv

LEMMA DrainReplyInv ==
    ASSUME ReplyInv, NEW c \in Clients, Drain(c)
    PROVE  ReplyInv'
<1>1. /\ thread[c] = "drain" /\ thread' = [thread EXCEPT ![c] = "wake"]
      /\ shut' = [d \in Clients |-> IF d \in open THEN {"read"} ELSE shut[d]]
      /\ cur' = cur /\ replied' = replied /\ client' = client
  BY DEF Drain, Drained, Go, caller
<1>2. TypeOK' /\ WriteOpen'
  BY <1>1 DEF ReplyInv, TypeOK, WriteOpen
<1>3. \A d \in Clients : Answered(d)'
  BY <1>1, NothingLostIs DEF ReplyInv, TypeOK, Answered, Busy
<1>4. NothingLost'
  BY <1>3 DEF NothingLost, Answered, Busy
<1> QED
  BY <1>2, <1>4 DEF ReplyInv

\* The accept loop marks an accepted connection; the wake-up comes only when it is done.
LEMMA AcceptReplyInv ==
    ASSUME ReplyInv, Accept, \A c \in Clients : thread[c] = "none" \/ Head(queue) # c \/ done
    PROVE  ReplyInv'
<1>1. /\ thread' = thread
         \/ (~done /\ thread' = [thread EXCEPT ![Head(queue)] = "accepted"])
      /\ shut' = shut /\ cur' = cur /\ replied' = replied /\ client' = client
  BY DEF Accept, Go, caller
<1>2. TypeOK' /\ WriteOpen'
  BY <1>1 DEF ReplyInv, TypeOK, WriteOpen
<1>3. \A d \in Clients : Answered(d)'
  BY <1>1, NothingLostIs DEF ReplyInv, TypeOK, Answered, Busy
<1>4. NothingLost'
  BY <1>3 DEF NothingLost, Answered, Busy
<1> QED
  BY <1>2, <1>4 DEF ReplyInv

-----------------------------------------------------------------------------
\* A step of a thread that is running leaves the backlog fresh.
LEMMA ThreadKeepsQueue ==
    ASSUME IInv, NEW c \in Clients, NEW s, Go(c, s), thread[c] # "none",
           s \in {"drain", "wake"} => done', done' = done \/ done' = TRUE,
           UNCHANGED <<queue, client>>
    PROVE  QueueFresh'
<1>1. /\ thread' = [thread EXCEPT ![c] = s] /\ queue' = queue /\ client' = client
      /\ DOMAIN thread = Clients
  BY DEF Go, IInv, ReplyInv, TypeOK
<1>2. \A d \in Clients : thread'[d] = IF d = c THEN s ELSE thread[d]
  BY <1>1
<1>3. done' \/ \A i \in 1..Len(queue) :
                 /\ queue[i] \in Clients /\ thread'[queue[i]] = "none" /\ client[queue[i]] # "new"
                 /\ \A j \in 1..Len(queue) : i # j => queue[i] # queue[j]
  <2> SUFFICES ASSUME ~done' PROVE \A i \in 1..Len(queue) :
                 /\ queue[i] \in Clients /\ thread'[queue[i]] = "none" /\ client[queue[i]] # "new"
                 /\ \A j \in 1..Len(queue) : i # j => queue[i] # queue[j]
    OBVIOUS
  <2>1. \A i \in 1..Len(queue) :
                 /\ queue[i] \in Clients /\ thread[queue[i]] = "none" /\ client[queue[i]] # "new"
                 /\ \A j \in 1..Len(queue) : i # j => queue[i] # queue[j]
    BY DEF IInv, QueueFresh
  <2> QED
    BY <1>2, <2>1
<1>4. \A d \in Clients : /\ thread'[d] \in {"drain", "wake"} => done'
                         /\ client[d] = "new" => thread'[d] = "none"
  BY <1>2 DEF IInv, QueueFresh
<1> QED
  BY <1>1, <1>3, <1>4 DEF IInv, QueueFresh

\* A client that has connected stays connected.
LEMMA ClientKeepsQueue ==
    ASSUME IInv, NEW c \in Clients, NEW s, s # "new", client[c] # "new",
           ClientGo(c, s) \/ UNCHANGED client, UNCHANGED <<queue, done, thread>>
    PROVE  QueueFresh'
<1>1. \A d \in Clients : client'[d] = "new" <=> client[d] = "new"
  BY DEF ClientGo, IInv, ReplyInv, TypeOK
<1> QED
  BY <1>1 DEF IInv, QueueFresh

LEMMA AcceptKeeps ==
    ASSUME IInv, Accept
    PROVE  IInv'
<1>1. /\ queue \in Seq(Clients \cup {Wake}) /\ queue # <<>> /\ queue' = Tail(queue)
      /\ done' = done /\ client' = client
  BY DEF Accept, IInv, QueueFresh, caller
<1>2. /\ Len(queue) \in Nat \ {0} /\ Head(queue) = queue[1]
      /\ queue' \in Seq(Clients \cup {Wake})
      /\ Len(queue') = Len(queue) - 1
      /\ \A i \in 1..Len(queue') : queue'[i] = queue[i + 1]
  BY <1>1
<1>3. CASE done
  <2>1. thread' = thread
    BY <1>3 DEF Accept
  <2>2. \A c \in Clients : thread[c] = "none" \/ Head(queue) # c \/ done
    BY <1>3
  <2>3. ReplyInv'
    BY <2>2, AcceptReplyInv DEF IInv
  <2>4. QueueFresh'
    BY <1>1, <1>2, <1>3, <2>1 DEF IInv, QueueFresh
  <2> QED
    BY <2>3, <2>4 DEF IInv
<1>4. CASE ~done
  <2>1. \A i \in 1..Len(queue) :
          /\ queue[i] \in Clients /\ thread[queue[i]] = "none" /\ client[queue[i]] # "new"
          /\ \A j \in 1..Len(queue) : i # j => queue[i] # queue[j]
    BY <1>4 DEF IInv, QueueFresh
  <2>2. Head(queue) \in Clients /\ thread[Head(queue)] = "none" /\ client[Head(queue)] # "new"
    BY <1>2, <2>1
  <2>3. ReplyInv'
    BY <2>2, AcceptReplyInv DEF IInv
  <2>4. \A d \in Clients : thread'[d] = IF d = Head(queue) THEN "accepted" ELSE thread[d]
    BY <1>4, <2>2 DEF Accept, Go, IInv, ReplyInv, TypeOK
  <2>5. \A i \in 1..Len(queue') :
          /\ i + 1 \in 1..Len(queue) /\ queue'[i] = queue[i + 1] /\ queue[i + 1] # Head(queue)
    BY <1>2, <2>1
  <2>6. \A i \in 1..Len(queue') :
          /\ queue'[i] \in Clients /\ thread'[queue'[i]] = "none" /\ client'[queue'[i]] # "new"
          /\ \A j \in 1..Len(queue') : i # j => queue'[i] # queue'[j]
    <3>1. \A i \in 1..Len(queue') :
          /\ queue'[i] \in Clients /\ thread'[queue'[i]] = "none" /\ client'[queue'[i]] # "new"
      BY <1>1, <2>1, <2>4, <2>5
    <3>2. \A i, j \in 1..Len(queue') : i # j => queue'[i] # queue'[j]
      BY <1>2, <2>1, <2>5
    <3> QED
      BY <3>1, <3>2
  <2>7. \A d \in Clients : /\ thread'[d] \in {"drain", "wake"} => done'
                           /\ client'[d] = "new" => thread'[d] = "none"
    BY <1>1, <2>2, <2>4 DEF IInv, QueueFresh
  <2>8. QueueFresh'
    BY <1>2, <2>6, <2>7 DEF QueueFresh
  <2> QED
    BY <2>3, <2>8 DEF IInv
<1> QED
  BY <1>3, <1>4

LEMMA WakeUpKeepsQueue ==
    ASSUME IInv, NEW c \in Clients, WakeUp(c)
    PROVE  QueueFresh'
<1>1. /\ done /\ done' = done /\ client' = client
      /\ queue' \in Seq(Clients \cup {Wake})
      /\ thread[c] = "wake" /\ thread' = [thread EXCEPT ![c] = "ended"]
  BY DEF IInv, QueueFresh, WakeUp, Go, caller
<1>2. \A d \in Clients : thread'[d] = IF d = c THEN "ended" ELSE thread[d]
  BY <1>1 DEF IInv, ReplyInv, TypeOK
<1>3. \A d \in Clients : client[d] = "new" => thread'[d] = "none"
  BY <1>1, <1>2 DEF IInv, QueueFresh
<1> QED
  BY <1>1, <1>3 DEF QueueFresh

LEMMA ConnectKeepsQueue ==
    ASSUME IInv, NEW c \in Clients, Connect(c)
    PROVE  QueueFresh'
<1>1. /\ done' = done /\ thread' = thread /\ client[c] = "new" /\ thread[c] = "none"
      /\ queue \in Seq(Clients \cup {Wake}) /\ queue' = Append(queue, c)
      /\ client' = [client EXCEPT ![c] = "idle"] /\ DOMAIN client = Clients
  BY DEF IInv, ReplyInv, TypeOK, QueueFresh, Connect, ClientGo, conn
<1>2. /\ queue' \in Seq(Clients \cup {Wake}) /\ Len(queue') = Len(queue) + 1 /\ Len(queue) \in Nat
      /\ \A i \in 1..Len(queue) : queue'[i] = queue[i]
      /\ queue'[Len(queue) + 1] = c
  BY <1>1
<1>3. \A d \in Clients : client'[d] = IF d = c THEN "idle" ELSE client[d]
  BY <1>1
<1>4. done' \/ \A i \in 1..Len(queue') :
          /\ queue'[i] \in Clients /\ thread'[queue'[i]] = "none" /\ client'[queue'[i]] # "new"
          /\ \A j \in 1..Len(queue') : i # j => queue'[i] # queue'[j]
  <2> SUFFICES ASSUME ~done PROVE \A i \in 1..Len(queue') :
          /\ queue'[i] \in Clients /\ thread'[queue'[i]] = "none" /\ client'[queue'[i]] # "new"
          /\ \A j \in 1..Len(queue') : i # j => queue'[i] # queue'[j]
    BY <1>1
  <2>1. \A i \in 1..Len(queue) :
          /\ queue[i] \in Clients /\ thread[queue[i]] = "none" /\ client[queue[i]] # "new"
          /\ \A j \in 1..Len(queue) : i # j => queue[i] # queue[j]
    BY DEF IInv, QueueFresh
  <2>2. \A i \in 1..Len(queue) : queue[i] # c
    BY <1>1, <2>1
  <2>3. \A i \in 1..Len(queue') :
          /\ queue'[i] \in Clients /\ thread'[queue'[i]] = "none" /\ client'[queue'[i]] # "new"
    BY <1>1, <1>2, <1>3, <2>1
  <2>4. \A i, j \in 1..Len(queue') : i # j => queue'[i] # queue'[j]
    BY <1>2, <2>1, <2>2
  <2> QED
    BY <2>3, <2>4
<1>5. \A d \in Clients : /\ thread'[d] \in {"drain", "wake"} => done'
                         /\ client'[d] = "new" => thread'[d] = "none"
  BY <1>1, <1>3 DEF IInv, QueueFresh
<1> QED
  BY <1>2, <1>4, <1>5 DEF QueueFresh

-----------------------------------------------------------------------------
LEMMA InitIInv == Init => IInv
  BY DEF Init, IInv, ReplyInv, TypeOK, WriteOpen, NothingLost, QueueFresh, NoReq

LEMMA ServeIInv ==
    ASSUME IInv, NEW c \in Clients, Serve(c)
    PROVE  IInv'
<1> USE DEF caller
<1>1. CASE Push(c)
  <2>1. /\ Go(c, "top") /\ thread[c] = "accepted"
        /\ UNCHANGED <<cur, shut, replied, client, queue, done>>
    BY <1>1 DEF Push
  <2>2. ReplyInv'
    BY <2>1, ThreadMoves DEF IInv, Busy
  <2>3. QueueFresh'
    BY <2>1, ThreadKeepsQueue
  <2> QED
    BY <2>2, <2>3 DEF IInv
<1>2. CASE Top(c) \/ ReadEof(c)
  <2>1. PICK s \in {"ended", "reading"} : Go(c, s)
    BY <1>2 DEF Top, ReadEof, Go
  <2>2. thread[c] \in {"top", "reading"} /\ UNCHANGED <<cur, shut, replied, client, queue, done>>
    BY <1>2 DEF Top, ReadEof, server
  <2>3. ReplyInv'
    BY <2>1, <2>2, ThreadMoves DEF IInv, Busy
  <2>4. QueueFresh'
    BY <2>1, <2>2, ThreadKeepsQueue
  <2> QED
    BY <2>3, <2>4 DEF IInv
<1>3. CASE ReadReq(c)
  <2>1. PICK s \in {"working", "replying"} : Go(c, s)
    BY <1>3 DEF ReadReq, Go
  <2>2. thread[c] = "reading" /\ UNCHANGED <<client, queue, done>>
    BY <1>3 DEF ReadReq, server
  <2>3. ReplyInv'
    BY <1>3, ReadReqReplyInv DEF IInv
  <2>4. QueueFresh'
    BY <2>1, <2>2, ThreadKeepsQueue
  <2> QED
    BY <2>3, <2>4 DEF IInv
<1>4. CASE TakeLock(c) \/ HandlerEnds(c) \/ WriteHead(c)
  <2>1. PICK s \in {"holding", "replying", "writing"} : Go(c, s)
    BY <1>4 DEF TakeLock, HandlerEnds, WriteHead, Go
  <2>2. /\ thread[c] \in {"working", "holding", "replying"}
        /\ UNCHANGED <<cur, shut, replied, client, queue, done>>
    BY <1>4 DEF TakeLock, HandlerEnds, WriteHead, server
  <2>3. ReplyInv'
    BY <2>1, <2>2, ThreadMoves DEF IInv
  <2>4. QueueFresh'
    BY <2>1, <2>2, ThreadKeepsQueue
  <2> QED
    BY <2>3, <2>4 DEF IInv
<1>5. CASE WriteBody(c)
  <2>1. PICK s \in {"finish", "top"} : Go(c, s)
    BY <1>5 DEF WriteBody, Go
  <2>2. thread[c] = "writing" /\ UNCHANGED <<client, queue, done>>
    BY <1>5 DEF WriteBody
  <2>3. ReplyInv'
    BY <1>5, WriteBodyReplyInv DEF IInv
  <2>4. QueueFresh'
    BY <2>1, <2>2, ThreadKeepsQueue
  <2> QED
    BY <2>3, <2>4 DEF IInv
<1>6. CASE WriteFails(c)
  <2>1. /\ Go(c, "ended") /\ thread[c] \in {"replying", "writing"} /\ client[c] = "closed"
        /\ UNCHANGED <<cur, shut, replied, client, queue, done>>
    BY <1>6 DEF WriteFails, CanWrite, server, IInv, ReplyInv, WriteOpen
  <2>2. ReplyInv'
    BY <2>1, ThreadMoves DEF IInv
  <2>3. QueueFresh'
    BY <2>1, ThreadKeepsQueue
  <2> QED
    BY <2>2, <2>3 DEF IInv
<1>7. CASE Swap(c)
  <2>1. PICK s \in {"ended", "drain"} : Go(c, s)
    BY <1>7 DEF Swap, Go
  <2>2. /\ thread[c] = "finish" /\ done' = TRUE
        /\ UNCHANGED <<cur, shut, replied, client, queue>>
    BY <1>7 DEF Swap
  <2>3. ReplyInv'
    BY <2>1, <2>2, ThreadMoves DEF IInv, Busy
  <2>4. QueueFresh'
    BY <2>1, <2>2, ThreadKeepsQueue
  <2> QED
    BY <2>3, <2>4 DEF IInv
<1>8. CASE Drain(c)
  <2>1. /\ Go(c, "wake") /\ thread[c] = "drain" /\ done /\ UNCHANGED <<client, queue, done>>
    BY <1>8 DEF Drain, IInv, QueueFresh
  <2>2. ReplyInv'
    BY <1>8, DrainReplyInv DEF IInv
  <2>3. QueueFresh'
    BY <2>1, ThreadKeepsQueue
  <2> QED
    BY <2>2, <2>3 DEF IInv
<1>9. CASE WakeUp(c)
  <2>1. /\ Go(c, "ended") /\ thread[c] = "wake" /\ UNCHANGED <<cur, shut, replied, client>>
    BY <1>9 DEF WakeUp
  <2>2. ReplyInv'
    BY <2>1, ThreadMoves DEF IInv, Busy
  <2>3. QueueFresh'
    BY <1>9, WakeUpKeepsQueue
  <2> QED
    BY <2>2, <2>3 DEF IInv
<1> QED
  BY <1>1, <1>2, <1>3, <1>4, <1>5, <1>6, <1>7, <1>8, <1>9 DEF Serve

LEMMA AskIInv ==
    ASSUME IInv, NEW c \in Clients, Ask(c)
    PROVE  IInv'
<1>1. CASE Connect(c)
  <2>1. ClientGo(c, "idle") /\ client[c] = "new" /\ UNCHANGED conn
    BY <1>1 DEF Connect
  <2>2. ReplyInv'
    BY <2>1, ClientMoves DEF IInv
  <2>3. QueueFresh'
    BY <1>1, ConnectKeepsQueue
  <2> QED
    BY <2>2, <2>3 DEF IInv
<1>2. CASE ~Connect(c)
  <2>1. PICK s \in {"idle", "waiting", "half", "broken", "closed"} : ClientGo(c, s)
    BY <1>2 DEF Ask, Call, RecvTag, RecvBody, TimesOut, RecvEof, Close, ClientGo
  <2>2. /\ client[c] \in {"idle", "waiting", "half", "broken"}
        /\ UNCHANGED <<server, conn>>
    BY <1>2 DEF Ask, Call, RecvTag, RecvBody, TimesOut, RecvEof, Close
  <2>3. UNCHANGED <<queue, done, thread>>
    BY <2>2 DEF server, conn
  <2>4. ReplyInv'
    BY <2>1, <2>2, ClientMoves DEF IInv
  <2>5. QueueFresh'
    BY <2>1, <2>2, <2>3, ClientKeepsQueue
  <2> QED
    BY <2>4, <2>5 DEF IInv
<1> QED
  BY <1>1, <1>2

\* Steps that none of the invariant's variables see.
LEMMA OtherIInv ==
    ASSUME IInv, UNCHANGED <<thread, cur, shut, replied, client, queue, done>>
    PROVE  IInv'
  BY DEF IInv, ReplyInv, TypeOK, WriteOpen, NothingLost, QueueFresh

LEMMA NextIInv ==
    ASSUME IInv, [Next]_vars
    PROVE  IInv'
<1>1. CASE Accept
  BY <1>1, AcceptKeeps
<1>2. CASE ServeReturns
  BY <1>2, OtherIInv DEF ServeReturns, conn, caller
<1>3. CASE \E c \in Clients : Serve(c)
  BY <1>3, ServeIInv
<1>4. CASE \E c \in Clients : Beat(c)
  BY <1>4, OtherIInv DEF Beat, server, conn, caller
<1>5. CASE \E c \in Clients : Ask(c)
  BY <1>5, AskIInv
<1>6. CASE UNCHANGED vars
  BY <1>6, OtherIInv DEF vars, server, conn, caller
<1> QED
  BY <1>1, <1>2, <1>3, <1>4, <1>5, <1>6 DEF Next

\* Whatever the clients do and whichever thread stops the server, for any number of
\* clients and calls: a request that serve_connection has read is in its hands, or its
\* reply was written, or the client is gone.  finish() may run in another thread between
\* any two steps; that it shuts down the reading halves only is what the proof turns on.
THEOREM ReadMeansAnswered == Spec => []NothingLost
<1>1. IInv => NothingLost
  BY DEF IInv, ReplyInv
<1> QED
  BY <1>1, InitIInv, NextIInv, PTL DEF Spec

-----------------------------------------------------------------------------
(***************************************************************************)
(* The call gets its own reply.  What the server writes on a connection is *)
(* a sequence of pieces; st is where the client is: in the middle of a     *)
(* frame when it is "half".                                                *)
(***************************************************************************)
Pieces == [k : {"beat", "head"}] \cup [k : {"body"}, n : Nat]

Requests == [n : Nat, op : Ops]

\* A payload follows its head and nothing else does: no heartbeat cuts a frame.
Frames(s, st) ==
    /\ \A i \in 1..(Len(s) - 1) : s[i].k = "head" <=> s[i + 1].k = "body"
    /\ s # <<>> => (s[1].k = "body" <=> st = "half")

\* The last frame written is without its payload.
Cut(s, st) == IF s = <<>> THEN st = "half" ELSE s[Len(s)].k = "head"

\* The payloads answer the requests after lo, up to hi, each once and in order.
Numbers(s, lo, hi) ==
    /\ lo =< hi
    /\ \A i \in 1..Len(s) : s[i].k = "body" => lo + 1 =< s[i].n /\ s[i].n =< hi
    /\ \A i, j \in 1..Len(s) : i < j /\ s[i].k = "body" /\ s[j].k = "body" => s[i].n < s[j].n
    /\ \A m \in (lo + 1)..hi : \E i \in 1..Len(s) : s[i].k = "body" /\ s[i].n = m

LEMMA PieceAppended ==
    ASSUME NEW s \in Seq(Pieces), NEW e \in Pieces
    PROVE  /\ Append(s, e) \in Seq(Pieces) /\ Append(s, e) # <<>>
           /\ Len(s) \in Nat /\ Len(Append(s, e)) = Len(s) + 1
           /\ \A i \in 1..Len(s) : Append(s, e)[i] = s[i]
           /\ Append(s, e)[Len(s) + 1] = e
           /\ s # <<>> => Len(s) >= 1
BY AppendProperties, LenProperties, EmptySeq

LEMMA PieceTaken ==
    ASSUME NEW s \in Seq(Pieces), s # <<>>
    PROVE  /\ Tail(s) \in Seq(Pieces) /\ Len(s) \in Nat /\ Len(s) >= 1
           /\ Head(s) = s[1] /\ s[1] \in Pieces
           /\ Len(Tail(s)) = Len(s) - 1 /\ (Tail(s) = <<>> <=> Len(s) = 1)
           /\ \A i \in 1..(Len(s) - 1) : Tail(s)[i] = s[i + 1]
<1>1. Len(s) \in Nat /\ Len(s) # 0
  BY LenProperties, EmptySeq
<1>2. /\ Tail(s) \in Seq(Pieces) /\ Len(Tail(s)) = Len(s) - 1
      /\ \A i \in 1..Len(Tail(s)) : Tail(s)[i] = s[i + 1]
  BY HeadTailProperties
<1>3. Tail(s) = <<>> <=> Len(Tail(s)) = 0
  BY <1>2, EmptySeq
<1>4. Head(s) = s[1] /\ s[1] \in Pieces
  BY <1>1, HeadTailProperties
<1> QED
  BY <1>1, <1>2, <1>3, <1>4

\* A piece that continues what was begun, and only then a payload.
LEMMA AppendFrames ==
    ASSUME NEW s \in Seq(Pieces), NEW e \in Pieces, NEW st, Frames(s, st),
           e.k = "body" <=> Cut(s, st)
    PROVE  Frames(Append(s, e), st) /\ (Cut(Append(s, e), st) <=> e.k = "head")
<1> DEFINE t == Append(s, e)
<1>1. /\ Len(s) \in Nat /\ Len(t) = Len(s) + 1 /\ t # <<>>
      /\ \A i \in 1..Len(s) : t[i] = s[i]
      /\ t[Len(s) + 1] = e /\ (s # <<>> => Len(s) >= 1)
  BY PieceAppended
<1> HIDE DEF t
<1>2. ASSUME NEW i \in 1..(Len(t) - 1) PROVE t[i].k = "head" <=> t[i + 1].k = "body"
  <2>1. CASE i < Len(s)
    <3>1. i \in 1..(Len(s) - 1) /\ t[i] = s[i] /\ t[i + 1] = s[i + 1]
      BY <1>1, <2>1
    <3> QED
      BY <3>1 DEF Frames
  <2>2. CASE i = Len(s)
    <3>1. t[i] = s[Len(s)] /\ t[i + 1] = e /\ s # <<>>
      BY <1>1, <2>2
    <3> QED
      BY <3>1 DEF Cut
  <2> QED
    BY <1>1, <2>1, <2>2
<1>3. t[1].k = "body" <=> st = "half"
  <2>1. CASE s = <<>>
    <3>1. t[1] = e
      BY <1>1, <2>1
    <3> QED
      BY <2>1, <3>1 DEF Cut
  <2>2. CASE s # <<>>
    <3>1. t[1] = s[1]
      BY <1>1, <2>2
    <3> QED
      BY <2>2, <3>1 DEF Frames
  <2> QED
    BY <2>1, <2>2
<1>4. Cut(t, st) <=> e.k = "head"
  BY <1>1 DEF Cut
<1> QED
  BY <1>2, <1>3, <1>4 DEF Frames, t

\* The client takes a piece, and is in the middle of a frame if it was a head.
LEMMA TailFrames ==
    ASSUME NEW s \in Seq(Pieces), s # <<>>, NEW st, NEW sn, Frames(s, st),
           sn = "half" <=> s[1].k = "head"
    PROVE  Frames(Tail(s), sn) /\ (Cut(Tail(s), sn) <=> Cut(s, st))
<1> DEFINE t == Tail(s)
<1>1. /\ Len(s) \in Nat /\ Len(s) >= 1 /\ Len(t) = Len(s) - 1 /\ (t = <<>> <=> Len(s) = 1)
      /\ \A i \in 1..(Len(s) - 1) : t[i] = s[i + 1]
  BY PieceTaken
<1> HIDE DEF t
<1>2. ASSUME NEW i \in 1..(Len(t) - 1) PROVE t[i].k = "head" <=> t[i + 1].k = "body"
  <2>1. i + 1 \in 1..(Len(s) - 1) /\ t[i] = s[i + 1] /\ t[i + 1] = s[(i + 1) + 1]
    BY <1>1
  <2> QED
    BY <2>1 DEF Frames
<1>3. t # <<>> => (t[1].k = "body" <=> sn = "half")
  <2> HAVE t # <<>>
  <2>1. 1 \in 1..(Len(s) - 1) /\ t[1] = s[1 + 1]
    BY <1>1
  <2> QED
    BY <2>1 DEF Frames
<1>4. Cut(t, sn) <=> Cut(s, st)
  <2>1. CASE t = <<>>
    BY <1>1, <2>1 DEF Cut
  <2>2. CASE t # <<>>
    <3>1. t[Len(t)] = s[Len(s)]
      BY <1>1, <2>2
    <3> QED
      BY <2>2, <3>1 DEF Cut
  <2> QED
    BY <2>1, <2>2
<1> QED
  BY <1>2, <1>3, <1>4 DEF Frames, t

\* A piece that is no payload changes nothing about the numbers.
LEMMA AppendOther ==
    ASSUME NEW s \in Seq(Pieces), NEW e \in Pieces, e.k # "body", NEW lo \in Nat, NEW hi \in Nat,
           Numbers(s, lo, hi)
    PROVE  Numbers(Append(s, e), lo, hi)
<1> DEFINE t == Append(s, e)
<1>1. /\ Len(s) \in Nat /\ Len(t) = Len(s) + 1
      /\ \A i \in 1..Len(s) : t[i] = s[i]
      /\ t[Len(s) + 1] = e
  BY PieceAppended
<1> HIDE DEF t
<1>2. \A i \in 1..Len(t) : t[i].k = "body" => i \in 1..Len(s) /\ t[i] = s[i]
  BY <1>1
<1>3. \A i \in 1..Len(s) : i \in 1..Len(t)
  BY <1>1
<1>4. \A i \in 1..Len(t) : t[i].k = "body" => lo + 1 =< t[i].n /\ t[i].n =< hi
  BY <1>2 DEF Numbers
<1>5. \A i, j \in 1..Len(t) : i < j /\ t[i].k = "body" /\ t[j].k = "body" => t[i].n < t[j].n
  BY <1>2 DEF Numbers
<1>6. \A m \in (lo + 1)..hi : \E i \in 1..Len(t) : t[i].k = "body" /\ t[i].n = m
  BY <1>1, <1>3 DEF Numbers
<1> QED
  BY <1>4, <1>5, <1>6 DEF Numbers, t

\* The payload of the next request.
LEMMA AppendBody ==
    ASSUME NEW s \in Seq(Pieces), NEW lo \in Nat, NEW hi \in Nat, Numbers(s, lo, hi),
           NEW e, e = [k |-> "body", n |-> hi + 1]
    PROVE  Numbers(Append(s, e), lo, hi + 1)
<1> DEFINE t == Append(s, e)
<1>0. e \in Pieces /\ e.k = "body" /\ e.n = hi + 1
  BY DEF Pieces
<1>1. /\ Len(s) \in Nat /\ Len(t) = Len(s) + 1
      /\ \A i \in 1..Len(s) : t[i] = s[i]
      /\ t[Len(s) + 1] = e
  BY <1>0, PieceAppended
<1> HIDE DEF t
<1>2. \A i \in 1..Len(t) : (i \in 1..Len(s) /\ t[i] = s[i]) \/ (i = Len(s) + 1 /\ t[i] = e)
  BY <1>1
<1>s. \A i \in 1..Len(s) : s[i] \in Pieces
  BY ElementOfSeq
<1>n. \A i \in 1..Len(s) : s[i].k = "body" => s[i].n \in Nat
  BY <1>s DEF Pieces
<1>4. \A i \in 1..Len(t) : t[i].k = "body" => lo + 1 =< t[i].n /\ t[i].n =< hi + 1
  BY <1>0, <1>2, <1>n DEF Numbers
<1>5. \A i, j \in 1..Len(t) : i < j /\ t[i].k = "body" /\ t[j].k = "body" => t[i].n < t[j].n
  <2> TAKE i, j \in 1..Len(t)
  <2> HAVE i < j /\ t[i].k = "body" /\ t[j].k = "body"
  <2>1. i \in 1..Len(s) /\ t[i] = s[i]
    BY <1>1, <1>2
  <2>2. CASE j \in 1..Len(s) /\ t[j] = s[j]
    BY <2>1, <2>2 DEF Numbers
  <2>3. CASE j = Len(s) + 1 /\ t[j] = e
    BY <1>0, <1>n, <2>1, <2>3 DEF Numbers
  <2> QED
    BY <1>2, <2>2, <2>3
<1>6. ASSUME NEW m \in (lo + 1)..(hi + 1)
      PROVE  \E i \in 1..Len(t) : t[i].k = "body" /\ t[i].n = m
  <2>1. CASE m = hi + 1
    BY <1>0, <1>1, <2>1
  <2>2. CASE m # hi + 1
    <3>1. m \in (lo + 1)..hi
      BY <2>2
    <3>2. PICK i \in 1..Len(s) : s[i].k = "body" /\ s[i].n = m
      BY <3>1 DEF Numbers
    <3> QED
      BY <1>1, <3>2
  <2> QED
    BY <2>1, <2>2
<1>7. lo =< hi + 1
  BY DEF Numbers
<1> QED
  BY <1>4, <1>5, <1>6, <1>7 DEF Numbers, t

\* The client takes a piece that is no payload.
LEMMA TailOther ==
    ASSUME NEW s \in Seq(Pieces), s # <<>>, s[1].k # "body", NEW lo \in Nat, NEW hi \in Nat,
           Numbers(s, lo, hi)
    PROVE  Numbers(Tail(s), lo, hi)
<1> DEFINE t == Tail(s)
<1>1. /\ Len(s) \in Nat /\ Len(s) >= 1 /\ Len(t) = Len(s) - 1
      /\ \A i \in 1..(Len(s) - 1) : t[i] = s[i + 1]
  BY PieceTaken
<1> HIDE DEF t
<1>2. \A i \in 1..Len(t) : i + 1 \in 1..Len(s) /\ t[i] = s[i + 1]
  BY <1>1
<1>3. \A i \in 1..Len(s) : s[i].k = "body" => i - 1 \in 1..Len(t) /\ t[i - 1] = s[i]
  BY <1>1
<1>4. \A i \in 1..Len(t) : t[i].k = "body" => lo + 1 =< t[i].n /\ t[i].n =< hi
  BY <1>2 DEF Numbers
<1>5. \A i, j \in 1..Len(t) : i < j /\ t[i].k = "body" /\ t[j].k = "body" => t[i].n < t[j].n
  <2> TAKE i, j \in 1..Len(t)
  <2> HAVE i < j /\ t[i].k = "body" /\ t[j].k = "body"
  <2>1. /\ i + 1 < j + 1 /\ i + 1 \in 1..Len(s) /\ j + 1 \in 1..Len(s)
        /\ t[i] = s[i + 1] /\ t[j] = s[j + 1]
    BY <1>1, <1>2
  <2>2. \A a, b \in 1..Len(s) : a < b /\ s[a].k = "body" /\ s[b].k = "body" => s[a].n < s[b].n
    BY DEF Numbers
  <2> QED
    BY <2>1, <2>2
<1>6. \A m \in (lo + 1)..hi : \E i \in 1..Len(t) : t[i].k = "body" /\ t[i].n = m
  <2> TAKE m \in (lo + 1)..hi
  <2>1. PICK i \in 1..Len(s) : s[i].k = "body" /\ s[i].n = m
    BY DEF Numbers
  <2> QED
    BY <1>3, <2>1
<1> QED
  BY <1>4, <1>5, <1>6 DEF Numbers, t

\* The client takes a payload: the oldest reply it has not had.
LEMMA TailBody ==
    ASSUME NEW s \in Seq(Pieces), s # <<>>, s[1].k = "body", NEW lo \in Nat, NEW hi \in Nat,
           Numbers(s, lo, hi)
    PROVE  s[1].n = lo + 1 /\ Numbers(Tail(s), lo + 1, hi)
<1> DEFINE t == Tail(s)
<1>1. /\ Len(s) \in Nat /\ Len(s) >= 1 /\ Len(t) = Len(s) - 1 /\ s[1] \in Pieces
      /\ \A i \in 1..(Len(s) - 1) : t[i] = s[i + 1]
  BY PieceTaken
<1> HIDE DEF t
<1>2. \A i \in 1..Len(t) : i + 1 \in 1..Len(s) /\ t[i] = s[i + 1] /\ 1 < i + 1
  BY <1>1
<1>n. \A i \in 1..Len(s) : s[i].k = "body" => s[i].n \in Nat
  <2>1. \A i \in 1..Len(s) : s[i] \in Pieces
    BY ElementOfSeq
  <2> QED
    BY <2>1 DEF Pieces
<1>3. 1 \in 1..Len(s) /\ s[1].n \in Nat /\ lo + 1 =< s[1].n /\ s[1].n =< hi
  BY <1>1, <1>n DEF Numbers
<1>4. s[1].n = lo + 1
  <2>1. lo + 1 \in (lo + 1)..hi
    BY <1>3
  <2>2. PICK i \in 1..Len(s) : s[i].k = "body" /\ s[i].n = lo + 1
    BY <2>1 DEF Numbers
  <2>3. CASE i = 1
    BY <2>2, <2>3
  <2>4. CASE i # 1
    <3>1. 1 < i
      BY <1>1, <2>4
    <3>2. s[1].n < s[i].n
      BY <1>3, <2>2, <3>1 DEF Numbers
    <3> QED
      BY <1>3, <2>2, <3>2
  <2> QED
    BY <2>3, <2>4
<1>5. \A i \in 1..Len(t) : t[i].k = "body" => (lo + 1) + 1 =< t[i].n /\ t[i].n =< hi
  <2> TAKE i \in 1..Len(t)
  <2> HAVE t[i].k = "body"
  <2>1. s[1].n < s[i + 1].n /\ s[i + 1].n =< hi /\ s[i + 1].n \in Nat
    BY <1>2, <1>3, <1>n DEF Numbers
  <2> QED
    BY <1>2, <1>4, <2>1
<1>6. \A i, j \in 1..Len(t) : i < j /\ t[i].k = "body" /\ t[j].k = "body" => t[i].n < t[j].n
  <2> TAKE i, j \in 1..Len(t)
  <2> HAVE i < j /\ t[i].k = "body" /\ t[j].k = "body"
  <2>1. /\ i + 1 < j + 1 /\ i + 1 \in 1..Len(s) /\ j + 1 \in 1..Len(s)
        /\ t[i] = s[i + 1] /\ t[j] = s[j + 1]
    BY <1>1, <1>2
  <2>2. \A a, b \in 1..Len(s) : a < b /\ s[a].k = "body" /\ s[b].k = "body" => s[a].n < s[b].n
    BY DEF Numbers
  <2> QED
    BY <2>1, <2>2
<1>7. ASSUME NEW m \in ((lo + 1) + 1)..hi
      PROVE  \E i \in 1..Len(t) : t[i].k = "body" /\ t[i].n = m
  <2>1. m \in (lo + 1)..hi /\ m # lo + 1
    OBVIOUS
  <2>2. PICK i \in 1..Len(s) : s[i].k = "body" /\ s[i].n = m
    BY <2>1 DEF Numbers
  <2>3. i - 1 \in 1..Len(t) /\ t[i - 1] = s[(i - 1) + 1] /\ (i - 1) + 1 = i
    BY <1>1, <1>2, <1>4, <2>1, <2>2
  <2> QED
    BY <2>2, <2>3
<1>8. lo + 1 =< hi
  BY <1>3, <1>4
<1> QED
  BY <1>4, <1>5, <1>6, <1>7, <1>8 DEF Numbers, t

-----------------------------------------------------------------------------
\* The server's thread is between two requests, and has answered all it read.
Between(c) == thread[c] \in {"none", "accepted", "top", "reading"}

\* The client still reads its stream.
Live(c) == client[c] \in {"new", "idle", "waiting", "half"}

InCall(c) == client[c] \in {"waiting", "half"}

CallTypes ==
    /\ cur \in [Clients -> Requests] /\ reqs \in [Clients -> Seq(Requests)]
    /\ out \in [Clients -> Seq(Pieces)] /\ replied \in [Clients -> Nat]
    /\ calls \in [Clients -> Nat] /\ late \in [Clients -> Nat]
    /\ got \in [Clients -> [call : Nat, n : Nat]]

\* The requests not read yet follow the one in hand.
RequestsInOrder(c) ==
    /\ \A i \in 1..Len(reqs[c]) : reqs[c][i].n = cur[c].n + i
    /\ calls[c] = cur[c].n + Len(reqs[c])
    /\ Busy(c) => replied[c] = cur[c].n - 1
    /\ Between(c) => replied[c] = cur[c].n

\* What is on the stream are whole frames but for the one being written, the replies the
\* client has not had; and each of its calls had a reply, timed out or is under way.
StreamInOrder(c) ==
    /\ calls[c] = got[c].n + late[c] + (IF InCall(c) THEN 1 ELSE 0)
    /\ Frames(out[c], client[c]) /\ Numbers(out[c], got[c].n, replied[c])
    /\ Cut(out[c], client[c]) => thread[c] \in {"writing", "ended"}
    /\ thread[c] = "writing" => Cut(out[c], client[c])

MatchOf(c) ==
    got[c].call # 0 => got[c].call - late[c] =< got[c].n /\ got[c].n =< got[c].call

CallInv(c) == RequestsInOrder(c) /\ MatchOf(c) /\ (Live(c) => StreamInOrder(c))

View(c) == <<thread[c], cur[c], replied[c], client[c], calls[c], late[c], got[c], reqs[c], out[c]>>

StreamInv == IInv /\ CallTypes /\ \A c \in Clients : CallInv(c)

\* Steps of others.
LEMMA OthersCall ==
    ASSUME NEW c, CallInv(c), View(c)' = View(c)
    PROVE  CallInv(c)'
BY DEF View, CallInv, RequestsInOrder, MatchOf, Live, StreamInOrder, Busy, Between, InCall

\* The sizes.
LEMMA CallSizes ==
    ASSUME CallTypes, NEW c \in Clients
    PROVE  /\ cur[c] \in Requests /\ cur[c].n \in Nat /\ replied[c] \in Nat
           /\ calls[c] \in Nat /\ late[c] \in Nat
           /\ got[c].n \in Nat /\ got[c].call \in Nat
           /\ reqs[c] \in Seq(Requests) /\ Len(reqs[c]) \in Nat /\ out[c] \in Seq(Pieces)
BY LenProperties DEF CallTypes, Requests

\* The thread of c moves on without touching requests or stream.
LEMMA ThreadCall ==
    ASSUME NEW c \in Clients, CallInv(c), NEW s, thread'[c] = s,
           UNCHANGED <<cur[c], replied[c], client[c], calls[c], late[c], got[c], reqs[c], out[c]>>,
           s = "ended" \/ (thread[c] \notin {"writing", "ended"} /\ s # "writing"),
           s \in {"working", "holding", "replying", "writing"} => Busy(c),
           s \in {"none", "accepted", "top", "reading"} => Between(c)
    PROVE  CallInv(c)'
<1>1. RequestsInOrder(c)' /\ MatchOf(c)'
  BY DEF CallInv, RequestsInOrder, MatchOf, Busy, Between
<1>2. Live(c)' => StreamInOrder(c)'
  BY DEF CallInv, Live, StreamInOrder, InCall
<1> QED
  BY <1>1, <1>2 DEF CallInv

LEMMA ReadReqCall ==
    ASSUME StreamInv, NEW c \in Clients, ReadReq(c)
    PROVE  CallInv(c)' /\ CallTypes'
<1>1. /\ thread[c] = "reading" /\ reqs[c] # <<>>
      /\ cur' = [cur EXCEPT ![c] = Head(reqs[c])]
      /\ reqs' = [reqs EXCEPT ![c] = Tail(@)]
      /\ UNCHANGED <<replied, client, calls, late, got, out>>
  BY DEF ReadReq, caller
<1>2. \E s \in {"replying", "working"} : thread'[c] = s
  BY DEF ReadReq, Go, StreamInv, IInv, ReplyInv, TypeOK
<1>3. /\ reqs \in [Clients -> Seq(Requests)] /\ cur \in [Clients -> Requests] /\ CallTypes
  BY DEF StreamInv, CallTypes
<1>4. /\ Head(reqs[c]) \in Requests /\ Head(reqs[c]) = reqs[c][1] /\ Len(reqs[c]) \in Nat \ {0}
      /\ reqs' \in [Clients -> Seq(Requests)] /\ Len(reqs'[c]) = Len(reqs[c]) - 1
      /\ \A i \in 1..Len(reqs'[c]) : reqs'[c][i] = reqs[c][i + 1]
  BY <1>1, <1>3, QueueTake
<1>5. CallTypes'
  BY <1>1, <1>3, <1>4 DEF CallTypes
<1>6. cur'[c] = reqs[c][1]
  BY <1>1, <1>3, <1>4
<1>7. /\ \A i \in 1..Len(reqs[c]) : reqs[c][i].n = cur[c].n + i
      /\ calls[c] = cur[c].n + Len(reqs[c]) /\ replied[c] = cur[c].n /\ cur[c].n \in Nat
  BY <1>1, <1>3, CallSizes DEF StreamInv, CallInv, RequestsInOrder, Between
<1>n. cur[c].n \in Nat /\ Len(reqs[c]) \in Nat
  BY <1>4, <1>7
<1>8. cur'[c].n = cur[c].n + 1
  BY <1>4, <1>6, <1>7
<1>9. \A i \in 1..Len(reqs'[c]) : reqs'[c][i].n = cur'[c].n + i
  <2> TAKE i \in 1..Len(reqs'[c])
  <2>1. i + 1 \in 1..Len(reqs[c]) /\ reqs'[c][i] = reqs[c][i + 1]
    BY <1>4
  <2>2. reqs[c][i + 1].n = cur[c].n + (i + 1)
    BY <1>7, <2>1
  <2>3. i \in Nat
    BY <1>4
  <2>4. cur[c].n + (i + 1) = (cur[c].n + 1) + i
    BY <1>n, <2>3
  <2> QED
    BY <1>8, <2>1, <2>2, <2>4
<1>10. calls'[c] = cur'[c].n + Len(reqs'[c]) /\ replied'[c] = cur'[c].n - 1
  <2>1. /\ cur[c].n + Len(reqs[c]) = (cur[c].n + 1) + (Len(reqs[c]) - 1)
        /\ cur[c].n = (cur[c].n + 1) - 1
    <3>1. \A x, y \in Nat : x + y = (x + 1) + (y - 1) /\ x = (x + 1) - 1
      OBVIOUS
    <3> QED
      BY <1>n, <3>1, Zenon
  <2>2. calls'[c] = calls[c] /\ replied'[c] = replied[c]
    BY <1>1
  <2> QED
    BY <1>4, <1>7, <1>8, <2>1, <2>2
<1>11. RequestsInOrder(c)'
  BY <1>2, <1>9, <1>10 DEF RequestsInOrder, Busy, Between
<1>12. MatchOf(c)'
  BY <1>1 DEF StreamInv, CallInv, MatchOf
<1>13. Live(c)' => StreamInOrder(c)'
  BY <1>1, <1>2 DEF StreamInv, CallInv, Live, StreamInOrder, InCall
<1> QED
  BY <1>5, <1>11, <1>12, <1>13 DEF CallInv

\* A heartbeat, or the head of a reply.
LEMMA PieceCall ==
    ASSUME StreamInv, NEW c \in Clients, NEW e \in Pieces, e.k # "body",
           out' = [out EXCEPT ![c] = Append(@, e)], Busy(c), thread[c] # "writing",
           thread'[c] = IF e.k = "head" THEN "writing" ELSE thread[c],
           UNCHANGED <<cur, replied, client, calls, late, got, reqs>>
    PROVE  CallInv(c)' /\ CallTypes'
<1>1. CallTypes /\ out \in [Clients -> Seq(Pieces)] /\ CallInv(c)
  BY DEF StreamInv, CallTypes
<1>2. out' \in [Clients -> Seq(Pieces)] /\ out'[c] = Append(out[c], e)
  BY <1>1, QueueAppend
<1>3. CallTypes'
  BY <1>1, <1>2 DEF CallTypes
<1>4. thread'[c] \in {"working", "holding", "replying", "writing"}
  BY DEF Busy
<1>5. RequestsInOrder(c)' /\ MatchOf(c)'
  BY <1>1, <1>4 DEF CallInv, RequestsInOrder, MatchOf, Busy, Between
<1>6. ASSUME Live(c)' PROVE StreamInOrder(c)'
  <2>1. StreamInOrder(c)
    BY <1>1, <1>6 DEF CallInv, Live
  <2>2. ~Cut(out[c], client[c]) /\ Frames(out[c], client[c])
    BY <2>1 DEF StreamInOrder, Busy
  <2>3. Numbers(out[c], got[c].n, replied[c]) /\ got[c].n \in Nat /\ replied[c] \in Nat
        /\ out[c] \in Seq(Pieces)
    BY <1>1, <2>1, CallSizes DEF StreamInOrder
  <2>4. /\ Frames(Append(out[c], e), client[c])
        /\ Cut(Append(out[c], e), client[c]) <=> e.k = "head"
    BY <2>2, <2>3, AppendFrames
  <2>5. Numbers(Append(out[c], e), got[c].n, replied[c])
    BY <2>3, AppendOther
  <2>6. thread'[c] = "writing" <=> e.k = "head"
    OBVIOUS
  <2> QED
    BY <1>2, <2>1, <2>4, <2>5, <2>6 DEF StreamInOrder, InCall
<1> QED
  BY <1>3, <1>5, <1>6 DEF CallInv

LEMMA WriteBodyCall ==
    ASSUME StreamInv, NEW c \in Clients, WriteBody(c)
    PROVE  CallInv(c)' /\ CallTypes'
<1> DEFINE e == [k |-> "body", n |-> cur[c].n]
<1>1. /\ thread[c] = "writing" /\ out' = [out EXCEPT ![c] = Append(@, e)]
      /\ replied' = [replied EXCEPT ![c] = cur[c].n]
      /\ UNCHANGED <<cur, client, calls, late, got, reqs>>
  BY DEF WriteBody, caller
<1>2. \E s \in {"finish", "top"} : thread'[c] = s
  BY DEF WriteBody, Go, StreamInv, IInv, ReplyInv, TypeOK
<1>3. /\ out \in [Clients -> Seq(Pieces)] /\ replied \in [Clients -> Nat] /\ CallTypes
      /\ CallInv(c)
  BY DEF StreamInv, CallTypes
<1>4. cur[c].n \in Nat /\ replied[c] \in Nat /\ replied[c] = cur[c].n - 1 /\ e \in Pieces
  BY <1>1, <1>3, CallSizes DEF CallInv, RequestsInOrder, Busy, Pieces
<1>5. out' \in [Clients -> Seq(Pieces)] /\ out'[c] = Append(out[c], e)
  BY <1>1, <1>3, <1>4, QueueAppend
<1>6. replied' \in [Clients -> Nat] /\ replied'[c] = cur[c].n /\ replied'[c] = replied[c] + 1
  BY <1>1, <1>3, <1>4
<1>7. CallTypes'
  BY <1>1, <1>3, <1>5, <1>6 DEF CallTypes
<1>8. RequestsInOrder(c)' /\ MatchOf(c)'
  BY <1>1, <1>2, <1>3, <1>6 DEF CallInv, RequestsInOrder, MatchOf, Busy, Between
<1>9. ASSUME Live(c)' PROVE StreamInOrder(c)'
  <2>1. StreamInOrder(c)
    BY <1>1, <1>3, <1>9 DEF CallInv, Live
  <2>2. Cut(out[c], client[c]) /\ Frames(out[c], client[c])
    BY <1>1, <2>1 DEF StreamInOrder
  <2>3. Numbers(out[c], got[c].n, replied[c]) /\ got[c].n \in Nat /\ out[c] \in Seq(Pieces)
    BY <1>3, <2>1, CallSizes DEF StreamInOrder
  <2>4. e.k = "body" /\ e = [k |-> "body", n |-> replied[c] + 1]
    BY <1>4, <1>6
  <2> HIDE DEF e
  <2>5. /\ Frames(Append(out[c], e), client[c])
        /\ ~Cut(Append(out[c], e), client[c])
    BY <1>4, <2>2, <2>3, <2>4, AppendFrames
  <2>6. Numbers(Append(out[c], e), got[c].n, replied[c] + 1)
    BY <1>4, <2>3, <2>4, AppendBody
  <2> QED
    BY <1>1, <1>2, <1>5, <1>6, <2>1, <2>5, <2>6 DEF StreamInOrder, InCall
<1> QED
  BY <1>7, <1>8, <1>9 DEF CallInv

-----------------------------------------------------------------------------
LEMMA CallCall ==
    ASSUME StreamInv, NEW c \in Clients, NEW op \in Ops, Call(c, op)
    PROVE  CallInv(c)' /\ CallTypes'
<1> DEFINE e == [n |-> calls[c] + 1, op |-> op]
<1>1. /\ client[c] = "idle" /\ calls' = [calls EXCEPT ![c] = @ + 1]
      /\ UNCHANGED <<thread, cur, replied, late, got, out>>
  BY DEF Call, conn
<1>2. /\ CallTypes /\ CallInv(c) /\ reqs \in [Clients -> Seq(Requests)]
      /\ calls \in [Clients -> Nat]
  BY DEF StreamInv, CallTypes
<1>3. calls'[c] = calls[c] + 1 /\ calls' \in [Clients -> Nat]
  BY <1>1, <1>2
<1>4. reqs' = [reqs EXCEPT ![c] = Append(@, e)] /\ e \in Requests
  BY <1>2, <1>3 DEF Call, Requests
<1>5. /\ reqs' \in [Clients -> Seq(Requests)] /\ Len(reqs'[c]) = Len(reqs[c]) + 1
      /\ \A i \in 1..Len(reqs[c]) : reqs'[c][i] = reqs[c][i]
      /\ reqs'[c][Len(reqs[c]) + 1] = e
  BY <1>2, <1>4, QueueAppend
<1>6. CallTypes'
  BY <1>1, <1>2, <1>3, <1>5 DEF CallTypes
<1>7. client'[c] = "waiting"
  BY DEF Call, ClientGo, StreamInv, IInv, ReplyInv, TypeOK
<1>8. /\ cur[c].n \in Nat /\ Len(reqs[c]) \in Nat /\ calls[c] \in Nat
      /\ got[c].n \in Nat /\ late[c] \in Nat
  BY <1>2, CallSizes
<1>9. /\ \A i \in 1..Len(reqs[c]) : reqs[c][i].n = cur[c].n + i
      /\ calls[c] = cur[c].n + Len(reqs[c])
  BY <1>2 DEF CallInv, RequestsInOrder
<1>10. calls'[c] = cur[c].n + Len(reqs'[c])
  <2>1. (cur[c].n + Len(reqs[c])) + 1 = cur[c].n + (Len(reqs[c]) + 1)
    BY <1>8
  <2> QED
    BY <1>3, <1>5, <1>9, <2>1
<1>11. ASSUME NEW i \in 1..Len(reqs'[c]) PROVE reqs'[c][i].n = cur[c].n + i
  <2>1. CASE i \in 1..Len(reqs[c])
    BY <1>5, <1>9, <2>1
  <2>2. CASE i = Len(reqs[c]) + 1
    <3>1. reqs'[c][i].n = calls[c] + 1
      BY <1>5, <2>2
    <3> QED
      BY <1>3, <1>5, <1>10, <2>2, <3>1
  <2>3. i \in 1..(Len(reqs[c]) + 1)
    BY <1>5
  <2> QED
    BY <1>8, <2>1, <2>2, <2>3
<1>12. RequestsInOrder(c)' /\ MatchOf(c)'
  BY <1>1, <1>2, <1>10, <1>11 DEF CallInv, RequestsInOrder, MatchOf, Busy, Between
<1>13. StreamInOrder(c)'
  <2>1. StreamInOrder(c)
    BY <1>1, <1>2 DEF CallInv, Live
  <2>2. calls[c] = got[c].n + late[c] + 0
    BY <1>1, <2>1 DEF StreamInOrder, InCall
  <2>3. calls'[c] = got[c].n + late[c] + 1
    BY <1>3, <1>8, <2>2
  <2>4. /\ Frames(out[c], client'[c]) <=> Frames(out[c], client[c])
        /\ Cut(out[c], client'[c]) <=> Cut(out[c], client[c])
    BY <1>1, <1>7 DEF Frames, Cut
  <2> QED
    BY <1>1, <1>7, <2>1, <2>3, <2>4 DEF StreamInOrder, InCall
<1> QED
  BY <1>6, <1>12, <1>13 DEF CallInv

LEMMA RecvTagCall ==
    ASSUME StreamInv, NEW c \in Clients, RecvTag(c)
    PROVE  CallInv(c)' /\ CallTypes'
<1>1. /\ client[c] = "waiting" /\ out[c] # <<>> /\ out' = [out EXCEPT ![c] = Tail(@)]
      /\ UNCHANGED <<thread, cur, replied, calls, late, got, reqs>>
  BY DEF RecvTag, conn
<1>2. client'[c] = IF Head(out[c]).k = "beat" THEN "waiting" ELSE "half"
  BY DEF RecvTag, ClientGo, StreamInv, IInv, ReplyInv, TypeOK
<1>3. CallTypes /\ CallInv(c) /\ StreamInOrder(c) /\ out \in [Clients -> Seq(Pieces)]
  BY <1>1 DEF StreamInv, CallTypes, CallInv, Live
<1>4. /\ out' \in [Clients -> Seq(Pieces)] /\ out'[c] = Tail(out[c]) /\ Head(out[c]) = out[c][1]
      /\ out[c] \in Seq(Pieces) /\ out[c][1] \in Pieces
  BY <1>1, <1>3, QueueTake
<1>5. CallTypes'
  BY <1>1, <1>3, <1>4 DEF CallTypes
<1>6. RequestsInOrder(c)' /\ MatchOf(c)'
  BY <1>1, <1>3 DEF CallInv, RequestsInOrder, MatchOf, Busy, Between
<1>7. /\ Frames(out[c], client[c]) /\ out[c][1].k # "body"
      /\ Numbers(out[c], got[c].n, replied[c]) /\ got[c].n \in Nat /\ replied[c] \in Nat
  BY <1>1, <1>3, CallSizes DEF StreamInOrder, Frames
<1>8. client'[c] = "half" <=> out[c][1].k = "head"
  BY <1>2, <1>4, <1>7 DEF Pieces
<1>9. /\ Frames(Tail(out[c]), client'[c])
      /\ Cut(Tail(out[c]), client'[c]) <=> Cut(out[c], client[c])
  BY <1>1, <1>4, <1>7, <1>8, TailFrames
<1>10. Numbers(Tail(out[c]), got[c].n, replied[c])
  BY <1>1, <1>4, <1>7, TailOther
<1>11. InCall(c) /\ InCall(c)'
  BY <1>1, <1>2 DEF InCall
<1>12. StreamInOrder(c)'
  BY <1>1, <1>3, <1>4, <1>9, <1>10, <1>11 DEF StreamInOrder
<1> QED
  BY <1>5, <1>6, <1>12 DEF CallInv

\* The payload a call returns is the oldest reply the client has not had.
LEMMA RecvBodyCall ==
    ASSUME StreamInv, NEW c \in Clients, RecvBody(c)
    PROVE  CallInv(c)' /\ CallTypes'
<1>1. /\ client[c] = "half" /\ out[c] # <<>> /\ out' = [out EXCEPT ![c] = Tail(@)]
      /\ got' = [got EXCEPT ![c] = [call |-> calls[c],
                                    n |-> IF Head(out[c]).k = "body" THEN Head(out[c]).n ELSE -1]]
      /\ UNCHANGED <<thread, cur, replied, calls, late, reqs>>
  BY DEF RecvBody, conn
<1>2. client'[c] = "idle"
  BY DEF RecvBody, ClientGo, StreamInv, IInv, ReplyInv, TypeOK
<1>3. /\ CallTypes /\ CallInv(c) /\ StreamInOrder(c) /\ out \in [Clients -> Seq(Pieces)]
      /\ got \in [Clients -> [call : Nat, n : Nat]]
  BY <1>1 DEF StreamInv, CallTypes, CallInv, Live
<1>4. /\ out' \in [Clients -> Seq(Pieces)] /\ out'[c] = Tail(out[c]) /\ Head(out[c]) = out[c][1]
      /\ out[c] \in Seq(Pieces) /\ out[c][1] \in Pieces
  BY <1>1, <1>3, QueueTake
<1>5. /\ Frames(out[c], client[c]) /\ out[c][1].k = "body"
      /\ Numbers(out[c], got[c].n, replied[c])
  BY <1>1, <1>3 DEF StreamInOrder, Frames
<1>6. /\ got[c].n \in Nat /\ replied[c] \in Nat /\ calls[c] \in Nat /\ late[c] \in Nat
  BY <1>3, CallSizes
<1>7. out[c][1].n = got[c].n + 1 /\ Numbers(Tail(out[c]), got[c].n + 1, replied[c])
  BY <1>1, <1>4, <1>5, <1>6, TailBody
<1>8. got'[c] = [call |-> calls[c], n |-> got[c].n + 1] /\ got' \in [Clients -> [call : Nat, n : Nat]]
  BY <1>1, <1>3, <1>4, <1>5, <1>6, <1>7
<1>9. CallTypes'
  BY <1>1, <1>3, <1>4, <1>8 DEF CallTypes
<1>10. got'[c].n = got[c].n + 1 /\ got'[c].call = calls[c]
  BY <1>8
<1>11. calls[c] = got[c].n + late[c] + 1
  BY <1>1, <1>3 DEF StreamInOrder, InCall
<1>12. /\ calls[c] - late[c] =< got[c].n + 1 /\ got[c].n + 1 =< calls[c]
       /\ calls[c] = (got[c].n + 1) + late[c] + 0
  BY <1>6, <1>11
<1>13. MatchOf(c)'
  BY <1>1, <1>10, <1>12 DEF MatchOf
<1>14. RequestsInOrder(c)'
  BY <1>1, <1>3 DEF CallInv, RequestsInOrder, Busy, Between
<1>15. client'[c] = "half" <=> out[c][1].k = "head"
  BY <1>2, <1>5
<1>16. /\ Frames(Tail(out[c]), client'[c])
       /\ Cut(Tail(out[c]), client'[c]) <=> Cut(out[c], client[c])
  BY <1>1, <1>4, <1>5, <1>15, TailFrames
<1>17. StreamInOrder(c)'
  BY <1>1, <1>2, <1>3, <1>4, <1>7, <1>10, <1>12, <1>16 DEF StreamInOrder, InCall
<1> QED
  BY <1>9, <1>13, <1>14, <1>17 DEF CallInv

LEMMA TimesOutCall ==
    ASSUME StreamInv, NEW c \in Clients, TimesOut(c)
    PROVE  CallInv(c)' /\ CallTypes'
<1>1. /\ client[c] \in {"waiting", "half"} /\ out[c] = <<>>
      /\ late' = [late EXCEPT ![c] = @ + 1]
      /\ UNCHANGED <<thread, cur, replied, calls, got, reqs, out>>
  BY DEF TimesOut, conn
<1>2. client'[c] = IF client[c] = "half" THEN "broken" ELSE "idle"
  BY DEF TimesOut, ClientGo, StreamInv, IInv, ReplyInv, TypeOK
<1>3. CallTypes /\ CallInv(c) /\ StreamInOrder(c) /\ late \in [Clients -> Nat]
  BY <1>1 DEF StreamInv, CallTypes, CallInv, Live
<1>4. /\ late' \in [Clients -> Nat] /\ late'[c] = late[c] + 1
  BY <1>1, <1>3
<1>5. CallTypes'
  BY <1>1, <1>3, <1>4 DEF CallTypes
<1>6. got[c].n \in Nat /\ late[c] \in Nat /\ calls[c] \in Nat /\ got[c].call \in Nat
  BY <1>3, CallSizes
<1>7. calls[c] = got[c].n + late[c] + 1
  BY <1>1, <1>3 DEF StreamInOrder, InCall
<1>8. calls[c] = got[c].n + (late[c] + 1) + 0
  BY <1>6, <1>7
<1>9. RequestsInOrder(c)'
  BY <1>1, <1>3 DEF CallInv, RequestsInOrder, Busy, Between
<1>10. MatchOf(c)'
  <2>1. MatchOf(c)
    BY <1>3 DEF CallInv
  <2>2. got[c].call - late[c] =< got[c].n => got[c].call - (late[c] + 1) =< got[c].n
    BY <1>6
  <2> QED
    BY <1>1, <1>4, <2>1, <2>2 DEF MatchOf
<1>11. ASSUME Live(c)' PROVE StreamInOrder(c)'
  <2>1. client[c] = "waiting" /\ client'[c] = "idle"
    BY <1>1, <1>2, <1>11 DEF Live
  <2>2. /\ Frames(out[c], client'[c]) <=> Frames(out[c], client[c])
        /\ Cut(out[c], client'[c]) <=> Cut(out[c], client[c])
    BY <2>1 DEF Frames, Cut
  <2> QED
    BY <1>1, <1>3, <1>4, <1>8, <2>1, <2>2 DEF StreamInOrder, InCall
<1> QED
  BY <1>5, <1>9, <1>10, <1>11 DEF CallInv

\* The caller connects, or lets go of the connection.
LEMMA CallerMoves ==
    ASSUME StreamInv, NEW c \in Clients, Connect(c) \/ RecvEof(c) \/ Close(c)
    PROVE  CallInv(c)' /\ CallTypes'
<1>1. UNCHANGED <<thread, cur, replied, calls, late, got, reqs, out>>
  BY DEF Connect, RecvEof, Close, conn
<1>2. CallTypes' /\ RequestsInOrder(c)' /\ MatchOf(c)'
  BY <1>1 DEF StreamInv, CallInv, CallTypes, RequestsInOrder, MatchOf, Busy, Between
<1>3. (client[c] = "new" /\ client'[c] = "idle") \/ client'[c] = "closed"
  BY DEF Connect, RecvEof, Close, ClientGo, StreamInv, IInv, ReplyInv, TypeOK
<1>4. Live(c)' => StreamInOrder(c)'
  BY <1>1, <1>3 DEF StreamInv, CallInv, Live, StreamInOrder, InCall, Frames, Cut
<1> QED
  BY <1>2, <1>4 DEF CallInv

-----------------------------------------------------------------------------
LEMMA InitStream == Init => StreamInv
<1> SUFFICES ASSUME Init PROVE StreamInv
  OBVIOUS
<1>1. CallTypes
  BY DEF Init, CallTypes, NoReq, NoResult, Requests, Ops
<1>2. ASSUME NEW c \in Clients PROVE CallInv(c)
  <2>1. /\ cur[c].n = 0 /\ calls[c] = 0 /\ replied[c] = 0 /\ late[c] = 0 /\ got[c].n = 0
        /\ got[c].call = 0 /\ reqs[c] = <<>> /\ out[c] = <<>>
        /\ thread[c] = "none" /\ client[c] = "new"
    BY DEF Init, NoReq, NoResult
  <2>2. RequestsInOrder(c) /\ MatchOf(c)
    BY <2>1 DEF RequestsInOrder, MatchOf, Busy, Between
  <2>3. StreamInOrder(c)
    BY <2>1 DEF StreamInOrder, Frames, Cut, Numbers, InCall
  <2> QED
    BY <2>2, <2>3 DEF CallInv
<1> QED
  BY <1>1, <1>2, InitIInv DEF StreamInv

\* A step that concerns one client leaves the others' calls as they are.
LEMMA OneClientSteps ==
    ASSUME StreamInv, NEW c \in Clients, CallInv(c)', CallTypes', IInv',
           \A d \in Clients : d # c => View(d)' = View(d)
    PROVE  StreamInv'
<1>1. \A d \in Clients : CallInv(d)'
  BY OthersCall DEF StreamInv
<1> QED
  BY <1>1 DEF StreamInv

LEMMA ServeStream ==
    ASSUME StreamInv, NEW c \in Clients, Serve(c)
    PROVE  StreamInv'
<1> USE DEF caller
<1>a. IInv' /\ IInv /\ CallTypes /\ CallInv(c) /\ DOMAIN thread = Clients
  BY ServeIInv DEF StreamInv, IInv, ReplyInv, TypeOK
<1>1. CASE ReadReq(c)
  <2>1. \A d \in Clients : d # c => View(d)' = View(d)
    BY <1>1, <1>a DEF ReadReq, Go, View, StreamInv, CallTypes
  <2> QED
    BY <1>1, <1>a, <2>1, ReadReqCall, OneClientSteps
<1>2. CASE WriteHead(c)
  <2>0. [k |-> "head"] \in Pieces
    BY DEF Pieces
  <2>1. /\ out' = [out EXCEPT ![c] = Append(@, [k |-> "head"])] /\ thread[c] = "replying"
        /\ thread' = [thread EXCEPT ![c] = "writing"]
        /\ UNCHANGED <<cur, replied, client, calls, late, got, reqs>>
    BY <1>2 DEF WriteHead, Go
  <2>2. \A d \in Clients : d # c => View(d)' = View(d)
    BY <1>a, <2>1 DEF View, CallTypes
  <2>3. CallInv(c)' /\ CallTypes'
    BY <1>a, <2>0, <2>1, PieceCall DEF Busy
  <2> QED
    BY <1>a, <2>2, <2>3, OneClientSteps
<1>3. CASE WriteBody(c)
  <2>1. \A d \in Clients : d # c => View(d)' = View(d)
    BY <1>3, <1>a DEF WriteBody, Go, View, StreamInv, CallTypes
  <2> QED
    BY <1>3, <1>a, <2>1, WriteBodyCall, OneClientSteps
<1>4. CASE ~ReadReq(c) /\ ~WriteHead(c) /\ ~WriteBody(c)
  <2>1. UNCHANGED <<cur, replied, client, calls, late, got, reqs, out>>
    BY <1>4 DEF Serve, Push, Top, ReadEof, TakeLock, HandlerEnds, WriteFails, Swap, Drain, WakeUp
  <2>2. PICK s : /\ thread' = [thread EXCEPT ![c] = s]
                 /\ s = "ended" \/ (thread[c] \notin {"writing", "ended"} /\ s # "writing")
                 /\ s \in {"working", "holding", "replying", "writing"} => Busy(c)
                 /\ s \in {"none", "accepted", "top", "reading"} => Between(c)
    <3>1. CASE Push(c)
      BY <3>1 DEF Push, Go, Busy, Between
    <3>2. CASE Top(c)
      <4>1. /\ thread[c] = "top"
            /\ thread' = [thread EXCEPT ![c] = "ended"] \/ thread' = [thread EXCEPT ![c] = "reading"]
        BY <3>2 DEF Top, Go
      <4> QED
        BY <4>1 DEF Busy, Between
    <3>3. CASE ReadEof(c) \/ WriteFails(c) \/ WakeUp(c)
      <4>1. thread' = [thread EXCEPT ![c] = "ended"]
        BY <3>3 DEF ReadEof, WriteFails, WakeUp, Go
      <4> WITNESS "ended"
      <4> QED
        BY <4>1
    <3>4. CASE TakeLock(c) \/ HandlerEnds(c)
      <4>1. /\ thread[c] \in {"working", "holding"}
            /\ thread' = [thread EXCEPT ![c] = "holding"] \/ thread' = [thread EXCEPT ![c] = "replying"]
        BY <3>4 DEF TakeLock, HandlerEnds, Go
      <4> QED
        BY <4>1 DEF Busy
    <3>5. CASE Swap(c)
      <4>1. /\ thread[c] = "finish"
            /\ thread' = [thread EXCEPT ![c] = "ended"] \/ thread' = [thread EXCEPT ![c] = "drain"]
        BY <3>5 DEF Swap, Go
      <4> QED
        BY <4>1
    <3>6. CASE Drain(c)
      <4>1. thread[c] = "drain" /\ thread' = [thread EXCEPT ![c] = "wake"]
        BY <3>6 DEF Drain, Go
      <4> WITNESS "wake"
      <4> QED
        BY <4>1
    <3> QED
      BY <1>4, <3>1, <3>2, <3>3, <3>4, <3>5, <3>6 DEF Serve
  <2>3. thread'[c] = s /\ \A d \in Clients : d # c => View(d)' = View(d)
    BY <1>a, <2>1, <2>2 DEF View
  <2>4. CallInv(c)'
    BY <1>a, <2>1, <2>2, <2>3, ThreadCall
  <2>5. CallTypes'
    BY <1>a, <2>1 DEF CallTypes
  <2> QED
    BY <1>a, <2>3, <2>4, <2>5, OneClientSteps
<1> QED
  BY <1>1, <1>2, <1>3, <1>4

LEMMA AskStream ==
    ASSUME StreamInv, NEW c \in Clients, Ask(c)
    PROVE  StreamInv'
<1>a. IInv' /\ IInv /\ CallTypes /\ DOMAIN client = Clients
  BY AskIInv DEF StreamInv, IInv, ReplyInv, TypeOK
<1>1. \A d \in Clients : d # c => View(d)' = View(d)
  BY <1>a DEF Ask, Connect, Call, RecvTag, RecvBody, TimesOut, RecvEof, Close, ClientGo, conn, View, CallTypes
<1>2. CallInv(c)' /\ CallTypes'
  BY CallCall, RecvTagCall, RecvBodyCall, TimesOutCall, CallerMoves DEF Ask
<1> QED
  BY <1>a, <1>1, <1>2, OneClientSteps

LEMMA OtherStream ==
    ASSUME StreamInv, IInv', UNCHANGED <<thread, conn, caller, reqs, out>>
    PROVE  StreamInv'
<1>1. CallTypes'
  BY DEF StreamInv, CallTypes, conn, caller
<1>2. \A d \in Clients : View(d)' = View(d)
  BY DEF View, conn, caller
<1> QED
  BY <1>1, <1>2, OthersCall DEF StreamInv

LEMMA NextStream ==
    ASSUME StreamInv, [Next]_vars
    PROVE  StreamInv'
<1>a. IInv' /\ IInv /\ CallTypes /\ DOMAIN thread = Clients
  BY NextIInv DEF StreamInv, IInv, ReplyInv, TypeOK
<1>1. CASE Accept
  <2>1. UNCHANGED <<cur, replied, client, calls, late, got, reqs, out>>
    BY <1>1 DEF Accept, caller
  <2>2. CallTypes'
    BY <1>a, <2>1 DEF CallTypes
  <2>3. CASE done
    <3>1. thread' = thread
      BY <1>1, <2>3 DEF Accept
    <3>2. \A d \in Clients : View(d)' = View(d)
      BY <2>1, <3>1 DEF View
    <3> QED
      BY <1>a, <2>2, <3>2, OthersCall DEF StreamInv
  <2>4. CASE ~done
    <3>1. thread' = [thread EXCEPT ![Head(queue)] = "accepted"] /\ queue # <<>>
      BY <1>1, <2>4 DEF Accept, Go
    <3>2. Head(queue) \in Clients /\ thread[Head(queue)] = "none"
      <4>1. queue \in Seq(Clients \cup {Wake})
        BY <1>a DEF IInv, QueueFresh
      <4>2. Head(queue) = queue[1] /\ 1 \in 1..Len(queue)
        BY <3>1, <4>1, LenProperties, EmptySeq
      <4> QED
        BY <1>a, <2>4, <4>2 DEF IInv, QueueFresh
    <3>3. PICK c \in Clients : c = Head(queue)
      BY <3>2
    <3>4. thread'[c] = "accepted" /\ thread[c] = "none"
      BY <1>a, <3>1, <3>2, <3>3
    <3>5. CallInv(c)'
      BY <2>1, <3>4, ThreadCall DEF StreamInv, Between
    <3>6. \A d \in Clients : d # c => View(d)' = View(d)
      BY <1>a, <2>1, <3>1, <3>3 DEF View
    <3> QED
      BY <1>a, <2>2, <3>5, <3>6, OneClientSteps
  <2> QED
    BY <2>3, <2>4
<1>2. CASE ServeReturns
  BY <1>2, <1>a, OtherStream DEF ServeReturns, conn
<1>3. CASE \E c \in Clients : Serve(c)
  BY <1>3, ServeStream
<1>4. ASSUME NEW c \in Clients, Beat(c) PROVE StreamInv'
  <2>0. [k |-> "beat"] \in Pieces
    BY DEF Pieces
  <2>1. /\ out' = [out EXCEPT ![c] = Append(@, [k |-> "beat"])]
        /\ thread[c] \in {"working", "holding"} /\ thread' = thread
        /\ UNCHANGED <<cur, replied, client, calls, late, got, reqs>>
    BY <1>4 DEF Beat, Beating, conn, caller
  <2>2. \A d \in Clients : d # c => View(d)' = View(d)
    BY <1>a, <2>1 DEF View, CallTypes
  <2>3. CallInv(c)' /\ CallTypes'
    BY <2>0, <2>1, PieceCall DEF Busy
  <2> QED
    BY <1>a, <2>2, <2>3, OneClientSteps
<1>5. CASE \E c \in Clients : Ask(c)
  BY <1>5, AskStream
<1>6. CASE UNCHANGED vars
  BY <1>6, <1>a, OtherStream DEF vars, conn
<1> QED
  BY <1>1, <1>2, <1>3, <1>4, <1>5, <1>6 DEF Next

\* For any number of clients and calls, whatever times out and whoever stops the server:
\* a call returns a whole reply, the one to its own request unless earlier calls of the
\* client timed out, and then one at most that many requests old.  RpcClient::call takes
\* the next frame that is no heartbeat; that the server writes heartbeats only between
\* the frames of a connection, and one reply per request, in order, is why that is enough.
THEOREM OwnReply == Spec => []ReplyMatches
<1>1. StreamInv => ReplyMatches
  <2> SUFFICES ASSUME StreamInv, NEW c \in Clients, got[c].call # 0
               PROVE  got[c].n \in (got[c].call - late[c])..got[c].call
    BY DEF ReplyMatches
  <2>1. got[c].n \in Nat /\ got[c].call \in Nat /\ late[c] \in Nat
    BY CallSizes DEF StreamInv
  <2>2. got[c].call - late[c] =< got[c].n /\ got[c].n =< got[c].call
    BY DEF StreamInv, CallInv, MatchOf
  <2> QED
    BY <2>1, <2>2
<1> QED
  BY <1>1, InitStream, NextStream, PTL DEF Spec

-----------------------------------------------------------------------------
(* The threads of NetTransport: a frame is written under the writer's lock. *)

-----------------------------------------------------------------------------
(* The invariant.                                                          *)

Calls == [op : {"send", "recv", "get", "push", "take"}, peer : Ranks]
Frame == [by : Threads, kind : {"SEND", "GETREQ", "GETRESP"}, last : BOOLEAN]
Positions == {"start", "writing", "response", "empty", "asleep",
              "reading", "push", "reply", "replying"}

\* A thread is in the middle of send_frame.
Writing(th) == at[th] \in {"writing", "replying"}

\* A thread has a link to work on: it is a reader, or in a call that names a peer.
OnLink(th) == th \in Readers \/ (~Finished(th) /\ CallOf(th).op \in {"send", "recv", "get"})

ThreadTypes ==
    /\ program \in [AppThreads -> Seq(Calls)]
    /\ \A th \in AppThreads : \A i \in DOMAIN program[th] :
          program[th][i].op \in {"send", "recv", "get"} => program[th][i].peer # th[1]
    /\ ip \in [AppThreads -> Nat \ {0}]
    /\ at \in [Threads -> Positions]
    /\ left \in [Threads -> Nat]
    /\ wlock \in [Links -> Threads \cup {NoOne}]
    /\ pipe \in [Links -> Seq(Frame)]

\* A thread writes a frame exactly while it holds the writer lock of its link.
LocksHeld ==
    /\ \A th \in AppThreads : Writing(th) => ~Finished(th) /\ CallOf(th).op \in {"send", "get"}
    /\ \A th \in Threads : Writing(th) => wlock[LinkOf(th)] = th
    /\ \A l \in Links, th \in Threads : wlock[l] = th => Writing(th) /\ LinkOf(th) = l

\* If the last unit written to a socket does not end its frame, the thread that wrote
\* it holds the lock and has more to write.
TailOpen ==
    \A l \in Links :
        (pipe[l] # << >> /\ ~pipe[l][Len(pipe[l])].last) =>
            wlock[l] = pipe[l][Len(pipe[l])].by /\ left[wlock[l]] > 0

ThreadInv == ThreadTypes /\ LocksHeld /\ TailOpen /\ FramesWhole

-----------------------------------------------------------------------------
(* Threads and links.                                                      *)

\* Application threads and readers are different, and nobody is NoOne.
LEMMA ThreadsApart ==
    /\ \A th \in AppThreads : th \notin Readers /\ th[1] \in Ranks
    /\ \A rd \in Readers : rd[1] \in Ranks /\ rd[3] \in Ranks /\ rd[1] # rd[3]
    /\ NoOne \notin Threads
<1>1. \A th \in AppThreads : th \in Ranks \X STRING
  BY ProgramAssumption DEF AppThreads
<1>2. \A rd \in Readers : \E r, p \in Ranks : r # p /\ rd = <<r, "reader", p>>
  BY DEF Readers, Links
<1>3. \A th \in AppThreads : Len(th) = 2 /\ th[1] \in Ranks
  BY <1>1
<1>4. \A rd \in Readers : Len(rd) = 3 /\ rd[1] \in Ranks /\ rd[3] \in Ranks /\ rd[1] # rd[3]
  BY <1>2
<1>5. Len(NoOne) = 1
  BY DEF NoOne
<1> QED
  BY <1>3, <1>4, <1>5 DEF Threads

\* The link of a thread that has one.
LEMMA LinkIs ==
    ASSUME ThreadTypes, NEW th \in Threads, OnLink(th)
    PROVE  LinkOf(th) \in Links
<1>1. CASE th \in Readers
  BY <1>1, ThreadsApart DEF ThreadTypes, LinkOf, Links
<1>2. CASE th \in AppThreads /\ ~Finished(th) /\ CallOf(th).op \in {"send", "recv", "get"}
  <2>1. ip[th] \in DOMAIN program[th] /\ CallOf(th) \in Calls
    BY <1>2 DEF ThreadTypes, Finished, CallOf
  <2>2. CallOf(th).peer \in Ranks /\ CallOf(th).peer # th[1]
    BY <1>2, <2>1 DEF ThreadTypes, CallOf, Calls
  <2> QED
    BY <1>2, <2>2, ThreadsApart DEF ThreadTypes, LinkOf, Links
<1> QED
  BY <1>1, <1>2 DEF OnLink, Threads

\* The last unit in a socket.
LEMMA LastUnit ==
    ASSUME ThreadTypes, NEW l \in Links, pipe[l] # << >>
    PROVE  /\ Len(pipe[l]) \in Nat \ {0} /\ pipe[l][Len(pipe[l])] \in Frame
           /\ pipe[l][Len(pipe[l])].by \in Threads
<1>1. pipe[l] \in Seq(Frame)
  BY DEF ThreadTypes
<1>2. Len(pipe[l]) \in Nat \ {0}
  BY <1>1, EmptySeq
<1>3. pipe[l][Len(pipe[l])] \in Frame
  BY <1>1, <1>2
<1> QED
  BY <1>2, <1>3 DEF Frame

-----------------------------------------------------------------------------
(* send_frame.                                                             *)

\* What a step that leaves locks, counts and sockets alone keeps.
LEMMA QuietKept ==
    ASSUME ThreadInv, ThreadTypes',
           wlock' = wlock, left' = left, pipe' = pipe, program' = program,
           \A th \in Threads : Writing(th)' = Writing(th),
           \A th \in AppThreads : Writing(th) => ip'[th] = ip[th]
    PROVE  LocksHeld' /\ TailOpen' /\ FramesWhole'
<1>1. \A th \in Threads : Writing(th) => LinkOf(th)' = LinkOf(th)
  BY DEF Threads, LinkOf, CallOf
<1>2. \A th \in AppThreads : Writing(th) => Finished(th)' = Finished(th) /\ CallOf(th)' = CallOf(th)
  BY DEF Finished, CallOf
<1>3. \A l \in Links : wlock[l] # NoOne => wlock[l] \in Threads
  BY DEF ThreadInv, ThreadTypes
<1>4. LocksHeld'
  BY <1>1, <1>2, <1>3 DEF ThreadInv, LocksHeld, Threads
<1>5. TailOpen' /\ FramesWhole'
  BY DEF ThreadInv, TailOpen, FramesWhole
<1> QED
  BY <1>4, <1>5

\* The writer lock is taken, and the whole frame is to be written.
LEMMA LockKept ==
    ASSUME ThreadInv, NEW th \in Threads, OnLink(th),
           th \in AppThreads => CallOf(th).op \in {"send", "get"},
           NEW from \in {"start", "reply"}, NEW to \in {"writing", "replying"}, NEW units \in Nat,
           LockWriter(th, from, to, units), program' = program
    PROVE  ThreadInv'
<1> DEFINE l == LinkOf(th)
<1>1. l \in Links
  BY LinkIs DEF ThreadInv
<1>2. /\ at[th] = from /\ wlock[l] = NoOne /\ wlock' = [wlock EXCEPT ![l] = th]
      /\ left' = [left EXCEPT ![th] = units] /\ at' = [at EXCEPT ![th] = to] /\ ip' = ip
      /\ pipe' = pipe
  BY DEF LockWriter, Goes
<1>3. ~Writing(th) /\ Writing(th)'
  BY <1>2 DEF ThreadInv, ThreadTypes, Writing
<1>4. \A x \in Threads : LinkOf(x)' = LinkOf(x) /\ (x # th => Writing(x)' = Writing(x))
  BY <1>2 DEF ThreadInv, ThreadTypes, Writing, LinkOf, CallOf
<1>5. \A x \in AppThreads : Finished(x)' = Finished(x) /\ CallOf(x)' = CallOf(x)
  BY <1>2 DEF Finished, CallOf
<1>6. NoOne \notin Threads
  BY ThreadsApart DEF ThreadInv, ThreadTypes
<1> HIDE DEF l
<1>7. ThreadTypes'
  <2>1. wlock' \in [Links -> Threads \cup {NoOne}] /\ left' \in [Threads -> Nat]
    BY <1>1, <1>2 DEF ThreadInv, ThreadTypes
  <2>2. to \in Positions
    BY DEF Positions
  <2>3. at' \in [Threads -> Positions]
    BY <1>2, <2>2 DEF ThreadInv, ThreadTypes
  <2> QED
    BY <1>2, <2>1, <2>3 DEF ThreadInv, ThreadTypes
<1>8. \A m \in Links : wlock'[m] = IF m = l THEN th ELSE wlock[m]
  BY <1>1, <1>2 DEF ThreadInv, ThreadTypes
<1>9. LocksHeld'
  <2>1. \A x \in AppThreads : Writing(x)' => ~Finished(x)' /\ CallOf(x)'.op \in {"send", "get"}
    <3> SUFFICES ASSUME NEW x \in AppThreads, Writing(x)'
                 PROVE  ~Finished(x) /\ CallOf(x).op \in {"send", "get"}
      BY <1>5
    <3>1. x \in Threads
      BY DEF Threads
    <3>2. CASE x = th
      BY <3>2, ThreadsApart DEF OnLink, ThreadInv, ThreadTypes
    <3>3. CASE x # th
      BY <1>4, <3>1, <3>3 DEF ThreadInv, LocksHeld
    <3> QED
      BY <3>2, <3>3
  <2>2. ASSUME NEW x \in Threads, Writing(x)'
        PROVE  wlock'[LinkOf(x)] = x
    <3>1. CASE x = th
      BY <1>1, <1>8, <3>1 DEF l
    <3>2. CASE x # th
      <4>1. Writing(x) /\ wlock[LinkOf(x)] = x
        BY <1>4, <2>2, <3>2 DEF ThreadInv, LocksHeld
      <4>2. LinkOf(x) \in Links
        <5>1. x \in AppThreads => ~Finished(x) /\ CallOf(x).op \in {"send", "get"}
          BY <4>1 DEF ThreadInv, LocksHeld
        <5> QED
          BY <5>1, LinkIs DEF OnLink, Threads, ThreadInv
      <4>3. LinkOf(x) # l
        BY <1>2, <1>6, <4>1
      <4> QED
        BY <1>8, <4>1, <4>2, <4>3
    <3> QED
      BY <3>1, <3>2
  <2>3. ASSUME NEW m \in Links, NEW x \in Threads, wlock'[m] = x
        PROVE  Writing(x)' /\ LinkOf(x) = m
    <3>1. CASE m = l
      BY <1>3, <1>8, <2>3, <3>1 DEF l
    <3>2. CASE m # l
      <4>1. wlock[m] = x /\ Writing(x) /\ LinkOf(x) = m
        BY <1>8, <2>3, <3>2 DEF ThreadInv, LocksHeld
      <4>2. x # th
        BY <1>3, <4>1
      <4> QED
        BY <1>4, <4>1, <4>2
    <3> QED
      BY <3>1, <3>2
  <2> QED
    BY <1>4, <1>5, <2>1, <2>2, <2>3 DEF LocksHeld
<1>10. TailOpen'
  <2> SUFFICES ASSUME NEW m \in Links, pipe[m] # << >>, ~pipe[m][Len(pipe[m])].last
               PROVE  wlock'[m] = pipe[m][Len(pipe[m])].by /\ left'[wlock'[m]] > 0
    BY <1>2 DEF TailOpen
  <2>1. pipe[m][Len(pipe[m])].by \in Threads
    BY LastUnit DEF ThreadInv
  <2>2. wlock[m] = pipe[m][Len(pipe[m])].by /\ left[wlock[m]] > 0 /\ wlock[m] # NoOne
    BY <1>6, <2>1 DEF ThreadInv, TailOpen
  <2>3. m # l /\ wlock[m] # th
    BY <1>2, <1>3, <2>2 DEF ThreadInv, LocksHeld
  <2>4. left'[wlock[m]] = left[wlock[m]]
    BY <1>2, <2>1, <2>2, <2>3 DEF ThreadInv, ThreadTypes
  <2> QED
    BY <1>8, <2>2, <2>3, <2>4
<1>11. FramesWhole'
  BY <1>2 DEF ThreadInv, FramesWhole
<1> QED
  BY <1>7, <1>9, <1>10, <1>11 DEF ThreadInv

\* A unit is written by the thread that holds the lock.
LEMMA WriteKept ==
    ASSUME ThreadInv, NEW th \in Threads, NEW kind \in {"SEND", "GETREQ", "GETRESP"},
           Writing(th), WriteUnit(th, kind), program' = program
    PROVE  ThreadInv'
<1> DEFINE l == LinkOf(th)
           u == Unit(th, kind, left[th] = 1)
           n == Len(pipe[l])
<1>0. ThreadTypes /\ LocksHeld /\ TailOpen /\ FramesWhole
  BY DEF ThreadInv
<1>1. l \in Links /\ wlock[l] = th
  <2>1. th \in AppThreads => ~Finished(th) /\ CallOf(th).op \in {"send", "get"}
    BY <1>0 DEF LocksHeld
  <2> QED
    BY <1>0, <2>1, LinkIs DEF OnLink, Threads, LocksHeld
<1>2. /\ left[th] > 0 /\ pipe' = [pipe EXCEPT ![l] = Append(@, u)]
      /\ left' = [left EXCEPT ![th] = @ - 1] /\ ip' = ip /\ at' = at /\ wlock' = wlock
  BY DEF WriteUnit
<1>3. u \in Frame /\ u.by = th /\ u.last = (left[th] = 1)
  BY DEF Unit, Frame
<1>4. left[th] \in Nat /\ left'[th] = left[th] - 1 /\ \A x \in Threads : x # th => left'[x] = left[x]
  BY <1>0, <1>2 DEF ThreadTypes
<1> HIDE DEF l, u, n
<1>5. /\ pipe' \in [Links -> Seq(Frame)] /\ pipe[l] \in Seq(Frame) /\ n \in Nat
      /\ Len(pipe'[l]) = n + 1 /\ pipe'[l][n + 1] = u /\ \A i \in 1..n : pipe'[l][i] = pipe[l][i]
      /\ \A m \in Links : m # l => pipe'[m] = pipe[m]
  <2>1. pipe \in [Links -> Seq(Frame)] /\ pipe'[l] = Append(pipe[l], u)
    BY <1>0, <1>1, <1>2 DEF ThreadTypes
  <2>2. \A m \in Links : m # l => pipe'[m] = pipe[m]
    BY <1>2, <2>1
  <2>3. pipe[l] \in Seq(Frame) /\ Len(pipe[l]) \in Nat
    BY <1>1, <2>1
  <2> QED
    BY <1>1, <1>2, <1>3, <2>1, <2>2, <2>3, QueueAppend DEF n
<1>6. ThreadTypes'
  <2>1. left' \in [Threads -> Nat]
    BY <1>0, <1>2 DEF ThreadTypes
  <2> QED
    BY <1>0, <1>2, <1>5, <2>1 DEF ThreadTypes
<1>7. LocksHeld'
  BY <1>0, <1>2 DEF LocksHeld, Writing, LinkOf, CallOf, Finished
<1>8. TailOpen'
  <2> SUFFICES ASSUME NEW m \in Links, pipe'[m] # << >>, ~pipe'[m][Len(pipe'[m])].last
               PROVE  wlock[m] = pipe'[m][Len(pipe'[m])].by /\ left'[wlock[m]] > 0
    BY <1>2 DEF TailOpen
  <2>1. CASE m = l
    <3>1. left[th] # 1
      BY <1>3, <1>5, <2>1
    <3> QED
      BY <1>1, <1>2, <1>3, <1>4, <1>5, <2>1, <3>1
  <2>2. CASE m # l
    <3>1. /\ pipe'[m] = pipe[m] /\ wlock[m] = pipe[m][Len(pipe[m])].by /\ left[wlock[m]] > 0
          /\ wlock[m] \in Threads
      BY <1>0, <1>5, <2>2, LastUnit DEF TailOpen
    <3>2. wlock[m] # th
      BY <1>0, <2>2 DEF LocksHeld, l
    <3> QED
      BY <1>4, <3>1, <3>2
  <2> QED
    BY <2>1, <2>2
<1>9. FramesWhole'
  <2> SUFFICES ASSUME NEW m \in Links, NEW i \in 1..(Len(pipe'[m]) - 1)
               PROVE  pipe'[m][i].last \/ pipe'[m][i + 1].by = pipe'[m][i].by
    BY DEF FramesWhole
  <2>1. CASE m = l /\ i = n
    <3>1. pipe[l] # << >> /\ n = Len(pipe[l]) /\ n \in 1..n
      BY <1>5, <2>1 DEF n
    <3>2. pipe[l][n].last \/ pipe[l][n].by = th
      BY <1>0, <1>1, <3>1 DEF TailOpen
    <3> QED
      BY <1>3, <1>5, <2>1, <3>1, <3>2
  <2>2. CASE m = l /\ i # n
    <3>1. i \in 1..(Len(pipe[l]) - 1) /\ i \in 1..n /\ i + 1 \in 1..n
      BY <1>5, <2>2 DEF n
    <3>2. pipe[l][i].last \/ pipe[l][i + 1].by = pipe[l][i].by
      BY <1>0, <1>1, <3>1 DEF FramesWhole
    <3> QED
      BY <1>5, <2>2, <3>1, <3>2
  <2>3. CASE m # l
    BY <1>0, <1>5, <2>3 DEF FramesWhole
  <2> QED
    BY <2>1, <2>2, <2>3
<1> QED
  BY <1>6, <1>7, <1>8, <1>9 DEF ThreadInv

\* The lock is released once the frame is complete; an application thread goes on in
\* its call or returns from it.
LEMMA UnlockKept ==
    ASSUME ThreadInv, NEW th \in Threads, Writing(th), UnlockWriter(th), program' = program,
           NEW to \in Positions \ {"writing", "replying"}, at' = [at EXCEPT ![th] = to],
           ip' \in [AppThreads -> Nat \ {0}], \A x \in AppThreads : x # th => ip'[x] = ip[x]
    PROVE  ThreadInv'
<1> DEFINE l == LinkOf(th)
<1>0. ThreadTypes /\ LocksHeld /\ TailOpen /\ FramesWhole
  BY DEF ThreadInv
<1>1. l \in Links /\ wlock[l] = th
  <2>1. th \in AppThreads => ~Finished(th) /\ CallOf(th).op \in {"send", "get"}
    BY <1>0 DEF LocksHeld
  <2> QED
    BY <1>0, <2>1, LinkIs DEF OnLink, Threads, LocksHeld
<1>2. /\ left[th] = 0 /\ wlock' = [wlock EXCEPT ![l] = NoOne]
      /\ pipe' = pipe /\ left' = left
  BY DEF UnlockWriter
<1>3. NoOne \notin Threads
  BY <1>0, ThreadsApart DEF ThreadTypes
<1>4. \A x \in Threads : x # th => LinkOf(x)' = LinkOf(x) /\ Writing(x)' = Writing(x)
  BY <1>0 DEF ThreadTypes, Writing, LinkOf, CallOf, Threads
<1>5. \A x \in AppThreads : x # th => Finished(x)' = Finished(x) /\ CallOf(x)' = CallOf(x)
  BY DEF Finished, CallOf
<1>6. ~Writing(th)'
  BY <1>0 DEF ThreadTypes, Writing
<1> HIDE DEF l
<1>7. \A m \in Links : wlock'[m] = IF m = l THEN NoOne ELSE wlock[m]
  BY <1>0, <1>1, <1>2 DEF ThreadTypes
<1>8. ThreadTypes'
  <2>1. wlock' \in [Links -> Threads \cup {NoOne}] /\ at' \in [Threads -> Positions]
    BY <1>0, <1>1, <1>2 DEF ThreadTypes
  <2> QED
    BY <1>0, <1>2, <2>1 DEF ThreadTypes
<1>9. LocksHeld'
  <2>1. \A x \in AppThreads : Writing(x)' => ~Finished(x)' /\ CallOf(x)'.op \in {"send", "get"}
    BY <1>0, <1>4, <1>5, <1>6 DEF LocksHeld, Threads
  <2>2. ASSUME NEW x \in Threads, Writing(x)'
        PROVE  wlock'[LinkOf(x)'] = x
    <3>1. x # th /\ Writing(x) /\ LinkOf(x)' = LinkOf(x) /\ wlock[LinkOf(x)] = x
      BY <1>0, <1>4, <1>6, <2>2 DEF LocksHeld
    <3>2. LinkOf(x) \in Links
      <4>1. x \in AppThreads => ~Finished(x) /\ CallOf(x).op \in {"send", "get"}
        BY <1>0, <3>1 DEF LocksHeld
      <4> QED
        BY <1>0, <4>1, LinkIs DEF OnLink, Threads
    <3>3. LinkOf(x) # l
      BY <1>1, <3>1
    <3> QED
      BY <1>7, <3>1, <3>2, <3>3
  <2>3. ASSUME NEW m \in Links, NEW x \in Threads, wlock'[m] = x
        PROVE  Writing(x)' /\ LinkOf(x)' = m
    <3>1. m # l /\ wlock[m] = x
      BY <1>3, <1>7, <2>3
    <3>2. Writing(x) /\ LinkOf(x) = m
      BY <1>0, <3>1 DEF LocksHeld
    <3>3. x # th
      BY <3>1, <3>2 DEF l
    <3> QED
      BY <1>4, <3>2, <3>3
  <2> QED
    BY <2>1, <2>2, <2>3 DEF LocksHeld
<1>10. TailOpen'
  <2> SUFFICES ASSUME NEW m \in Links, pipe[m] # << >>, ~pipe[m][Len(pipe[m])].last
               PROVE  wlock'[m] = pipe[m][Len(pipe[m])].by /\ left[wlock'[m]] > 0
    BY <1>2 DEF TailOpen
  <2>1. wlock[m] = pipe[m][Len(pipe[m])].by /\ left[wlock[m]] > 0
    BY <1>0 DEF TailOpen
  <2>2. m # l
    BY <1>1, <1>2, <2>1
  <2> QED
    BY <1>7, <2>1, <2>2
<1>11. FramesWhole'
  BY <1>0, <1>2 DEF FramesWhole
<1> QED
  BY <1>8, <1>9, <1>10, <1>11 DEF ThreadInv

\* A unit is read.
LEMMA ReadKept ==
    ASSUME ThreadInv, NEW l \in Links, pipe[l] # << >>, pipe' = [pipe EXCEPT ![l] = Tail(@)],
           wlock' = wlock, left' = left
    PROVE  /\ pipe' \in [Links -> Seq(Frame)] /\ TailOpen' /\ FramesWhole'
<1>0. ThreadTypes /\ TailOpen /\ FramesWhole
  BY DEF ThreadInv
<1>1. pipe \in [Links -> Seq(Frame)]
  BY <1>0 DEF ThreadTypes
<1>2. /\ pipe' \in [Links -> Seq(Frame)] /\ Len(pipe[l]) \in Nat \ {0}
      /\ pipe'[l] = Tail(pipe[l]) /\ pipe'[l] \in Seq(Frame)
      /\ Len(pipe'[l]) = Len(pipe[l]) - 1
      /\ \A i \in 1..Len(pipe'[l]) : pipe'[l][i] = pipe[l][i + 1]
      /\ \A m \in Links : m # l => pipe'[m] = pipe[m]
  BY <1>1, QueueTake
<1>3. TailOpen'
  <2> SUFFICES ASSUME NEW m \in Links, pipe'[m] # << >>, ~pipe'[m][Len(pipe'[m])].last
               PROVE  wlock[m] = pipe'[m][Len(pipe'[m])].by /\ left[wlock[m]] > 0
    BY DEF TailOpen
  <2>1. CASE m = l
    <3>1. Len(pipe'[l]) \in Nat \ {0}
      BY <1>2, <2>1, EmptySeq
    <3>2. pipe'[l][Len(pipe'[l])] = pipe[l][Len(pipe[l])]
      BY <1>2, <3>1
    <3> QED
      BY <1>0, <2>1, <3>2 DEF TailOpen
  <2>2. CASE m # l
    BY <1>0, <1>2, <2>2 DEF TailOpen
  <2> QED
    BY <2>1, <2>2
<1>4. FramesWhole'
  <2> SUFFICES ASSUME NEW m \in Links, NEW i \in 1..(Len(pipe'[m]) - 1)
               PROVE  pipe'[m][i].last \/ pipe'[m][i + 1].by = pipe'[m][i].by
    BY DEF FramesWhole
  <2>1. CASE m = l
    <3>1. i + 1 \in 1..(Len(pipe[l]) - 1) /\ i \in 1..Len(pipe'[l]) /\ i + 1 \in 1..Len(pipe'[l])
      BY <1>2, <2>1
    <3>2. pipe[l][i + 1].last \/ pipe[l][(i + 1) + 1].by = pipe[l][i + 1].by
      BY <1>0, <3>1 DEF FramesWhole
    <3> QED
      BY <1>2, <2>1, <3>1, <3>2
  <2>2. CASE m # l
    BY <1>0, <1>2, <2>2 DEF FramesWhole
  <2> QED
    BY <2>1, <2>2
<1> QED
  BY <1>2, <1>3, <1>4

-----------------------------------------------------------------------------
(* Every step.                                                             *)

\* A step of a thread that writes nothing: it goes on, or returns from its call.
LEMMA StepQuiet ==
    ASSUME ThreadInv, NEW th \in Threads, ~Writing(th), program' = program,
           wlock' = wlock, left' = left, pipe' = pipe,
           NEW to \in Positions \ {"writing", "replying"}, at' = [at EXCEPT ![th] = to],
           ip' = ip \/ (th \in AppThreads /\ ip' = [ip EXCEPT ![th] = @ + 1])
    PROVE  ThreadInv'
<1>0. ThreadTypes
  BY DEF ThreadInv
<1>1. ip' \in [AppThreads -> Nat \ {0}] /\ \A x \in AppThreads : x # th => ip'[x] = ip[x]
  <2>1. ip \in [AppThreads -> Nat \ {0}]
    BY <1>0 DEF ThreadTypes
  <2>2. CASE th \in AppThreads /\ ip' = [ip EXCEPT ![th] = @ + 1]
    <3>1. ip[th] + 1 \in Nat \ {0}
      BY <2>1, <2>2
    <3> QED
      BY <2>1, <2>2, <3>1
  <2> QED
    BY <2>1, <2>2
<1>2. at' \in [Threads -> Positions]
  BY <1>0 DEF ThreadTypes
<1>3. ThreadTypes'
  BY <1>0, <1>1, <1>2 DEF ThreadTypes
<1>4. \A x \in Threads : Writing(x)' = Writing(x)
  BY <1>0 DEF ThreadTypes, Writing
<1>5. \A x \in AppThreads : Writing(x) => ip'[x] = ip[x]
  BY <1>1
<1> QED
  BY <1>3, <1>4, <1>5, QuietKept DEF ThreadInv

LEMMA AppKept ==
    ASSUME ThreadInv, NEW th \in AppThreads, AppStep(th)
    PROVE  ThreadInv'
<1>0. /\ ThreadTypes /\ LocksHeld /\ th \in Threads /\ th \notin Readers
      /\ SendUnits \in Nat /\ 1 \in Nat
  BY ThreadsApart, SizeAssumption DEF ThreadInv, ThreadTypes, Threads
<1>1. ~Finished(th) /\ program' = program
  BY DEF AppStep, job
<1>2. ip[th] \in Nat \ {0} /\ ip \in [AppThreads -> Nat \ {0}]
  BY <1>0 DEF ThreadTypes
<1>3. ASSUME NEW units \in Nat, LockWriter(th, "start", "writing", units),
             CallOf(th).op \in {"send", "get"}
      PROVE  ThreadInv'
  BY <1>0, <1>1, <1>3, LockKept DEF OnLink
<1>4. ASSUME NEW kind \in {"SEND", "GETREQ"}, at[th] = "writing", WriteUnit(th, kind)
      PROVE  ThreadInv'
  <2>1. kind \in {"SEND", "GETREQ", "GETRESP"}
    OBVIOUS
  <2> QED
    BY <1>0, <1>1, <1>4, <2>1, WriteKept DEF Writing
<1>5. CASE Send(th)
  <2>1. CASE LockWriter(th, "start", "writing", SendUnits)
    BY <1>0, <1>3, <1>5, <2>1 DEF Send
  <2>2. CASE at[th] = "writing" /\ WriteUnit(th, "SEND")
    BY <1>4, <2>2
  <2>3. CASE at[th] = "writing" /\ UnlockWriter(th) /\ Returns(th)
    <3>1. at' = [at EXCEPT ![th] = "start"] /\ ip' = [ip EXCEPT ![th] = @ + 1]
      BY <2>3 DEF Returns
    <3>2. ip' \in [AppThreads -> Nat \ {0}] /\ \A x \in AppThreads : x # th => ip'[x] = ip[x]
      BY <1>2, <3>1
    <3>3. "start" \in Positions \ {"writing", "replying"} /\ Writing(th)
      BY <2>3 DEF Positions, Writing
    <3> QED
      BY <1>0, <1>1, <2>3, <3>1, <3>2, <3>3, UnlockKept
  <2> QED
    BY <1>5, <2>1, <2>2, <2>3 DEF Send
<1>6. CASE Get(th)
  <2>1. CASE LockWriter(th, "start", "writing", 1)
    BY <1>0, <1>3, <1>6, <2>1 DEF Get
  <2>2. CASE at[th] = "writing" /\ WriteUnit(th, "GETREQ")
    BY <1>4, <2>2
  <2>3. CASE at[th] = "writing" /\ UnlockWriter(th) /\ Goes(th, "response")
    <3>1. at' = [at EXCEPT ![th] = "response"] /\ ip' = ip
      BY <2>3 DEF Goes
    <3>2. ip' \in [AppThreads -> Nat \ {0}] /\ \A x \in AppThreads : x # th => ip'[x] = ip[x]
      BY <1>2, <3>1
    <3>3. "response" \in Positions \ {"writing", "replying"} /\ Writing(th)
      BY <2>3 DEF Positions, Writing
    <3> QED
      BY <1>0, <1>1, <2>3, <3>1, <3>2, <3>3, UnlockKept
  <2>4. CASE /\ at[th] = "response" /\ Returns(th)
             /\ UNCHANGED <<left, wlock, ilock, pipe, inbox, chan>>
    <3>1. ~Writing(th) /\ "start" \in Positions \ {"writing", "replying"}
      BY <2>4 DEF Positions, Writing
    <3> QED
      BY <1>0, <1>1, <2>4, <3>1, StepQuiet DEF Returns
  <2> QED
    BY <1>6, <2>1, <2>2, <2>3, <2>4 DEF Get
<1>7. CASE Recv(th)
  <2>1. /\ ~Writing(th) /\ wlock' = wlock /\ left' = left /\ pipe' = pipe
        /\ \E to \in {"start", "empty", "asleep"} : at' = [at EXCEPT ![th] = to]
        /\ ip' = ip \/ ip' = [ip EXCEPT ![th] = @ + 1]
    BY <1>7 DEF Recv, LockInbox, LookAtWriter, Returns, Goes, Writing
  <2>2. PICK to \in {"start", "empty", "asleep"} : at' = [at EXCEPT ![th] = to]
    BY <2>1
  <2>3. to \in Positions \ {"writing", "replying"}
    BY DEF Positions
  <2> QED
    BY <1>0, <1>1, <2>1, <2>2, <2>3, StepQuiet
<1>8. CASE Channel(th)
  <2>1. /\ CallOf(th).op \in {"push", "take"} /\ wlock' = wlock /\ left' = left /\ pipe' = pipe
        /\ at' = [at EXCEPT ![th] = "start"] /\ ip' = [ip EXCEPT ![th] = @ + 1]
    BY <1>8 DEF Channel, Returns
  <2>2. ~Writing(th) /\ "start" \in Positions \ {"writing", "replying"}
    BY <1>0, <2>1 DEF LocksHeld, Positions
  <2> QED
    BY <1>0, <1>1, <2>1, <2>2, StepQuiet
<1> QED
  BY <1>5, <1>6, <1>7, <1>8 DEF AppStep

LEMMA ReaderKept ==
    ASSUME ThreadInv, respUnits \in Nat, NEW rd \in Readers, ReaderStep(rd)
    PROVE  ThreadInv'
<1>0. /\ ThreadTypes /\ LocksHeld /\ rd \in Threads /\ rd \notin AppThreads
      /\ <<rd[3], rd[1]>> \in Links
  BY ThreadsApart DEF ThreadInv, ThreadTypes, Threads, Links
<1>1. program' = program /\ ip \in [AppThreads -> Nat \ {0}]
  BY <1>0 DEF ReaderStep, job, ThreadTypes
<1>2. CASE ReadUnit(rd)
  <2> DEFINE in == <<rd[3], rd[1]>>
  <2>1. /\ pipe[in] # << >> /\ pipe' = [pipe EXCEPT ![in] = Tail(@)]
        /\ wlock' = wlock /\ left' = left /\ ip' = ip /\ at[rd] = "reading"
    BY <1>2 DEF ReadUnit, Goes
  <2>2. PICK to \in {"push", "reply", "reading"} : at' = [at EXCEPT ![rd] = to]
    <3>1. Head(pipe[in]) \in Frame
      <4>1. pipe \in [Links -> Seq(Frame)]
        BY <1>0 DEF ThreadTypes
      <4> QED
        BY <1>0, <2>1, <4>1, QueueTake
    <3>2. Head(pipe[in]).kind \in {"SEND", "GETREQ", "GETRESP"}
      BY <3>1 DEF Frame
    <3> QED
      BY <1>2, <3>2 DEF ReadUnit, Goes
  <2>3. to \in Positions
    BY DEF Positions
  <2>4. pipe' \in [Links -> Seq(Frame)] /\ TailOpen' /\ FramesWhole'
    BY <1>0, <2>1, ReadKept
  <2>5. at' \in [Threads -> Positions] /\ \A x \in Threads : Writing(x)' = Writing(x)
    BY <1>0, <2>1, <2>2, <2>3 DEF ThreadTypes, Writing
  <2>6. ThreadTypes'
    BY <1>0, <1>1, <2>1, <2>4, <2>5 DEF ThreadTypes
  <2>7. LocksHeld'
    <3>1. \A x \in Threads : LinkOf(x)' = LinkOf(x)
      BY <1>1, <2>1 DEF LinkOf, CallOf
    <3>2. \A x \in AppThreads : Finished(x)' = Finished(x) /\ CallOf(x)' = CallOf(x)
      BY <1>1, <2>1 DEF Finished, CallOf
    <3> QED
      BY <1>0, <2>1, <2>5, <3>1, <3>2 DEF LocksHeld, Threads
  <2> QED
    BY <2>4, <2>6, <2>7 DEF ThreadInv
<1>3. CASE PushFrame(rd)
  <2>1. /\ at[rd] = "push" /\ wlock' = wlock /\ left' = left /\ pipe' = pipe /\ ip' = ip
        /\ at' = [x \in Threads |-> IF x = rd THEN "reading"
                                   ELSE IF x[1] = rd[1] /\ at[x] = "asleep" THEN "start" ELSE at[x]]
    BY <1>3 DEF PushFrame
  <2>2. at' \in [Threads -> Positions]
    BY <1>0, <2>1 DEF ThreadTypes, Positions
  <2>3. \A x \in Threads : Writing(x)' = Writing(x)
    BY <1>0, <2>1 DEF ThreadTypes, Writing
  <2>4. ThreadTypes'
    BY <1>0, <1>1, <2>1, <2>2 DEF ThreadTypes
  <2> QED
    BY <1>1, <2>1, <2>3, <2>4, QuietKept DEF ThreadInv
<1>4. CASE Reply(rd)
  <2>1. CASE LockWriter(rd, "reply", "replying", respUnits)
    BY <1>0, <1>1, <2>1, LockKept DEF OnLink
  <2>2. CASE at[rd] = "replying" /\ WriteUnit(rd, "GETRESP")
    BY <1>0, <1>1, <2>2, WriteKept DEF Writing
  <2>3. CASE at[rd] = "replying" /\ UnlockWriter(rd) /\ Goes(rd, "reading")
    <3>1. at' = [at EXCEPT ![rd] = "reading"] /\ ip' = ip
      BY <2>3 DEF Goes
    <3>2. "reading" \in Positions \ {"writing", "replying"} /\ Writing(rd)
      BY <2>3 DEF Positions, Writing
    <3> QED
      BY <1>0, <1>1, <2>3, <3>1, <3>2, UnlockKept
  <2> QED
    BY <1>4, <2>1, <2>2, <2>3 DEF Reply
<1> QED
  BY <1>2, <1>3, <1>4 DEF ReaderStep

LEMMA ThreadStart ==
    ASSUME ThreadsInit
    PROVE  ThreadInv /\ respUnits \in Nat
<1>0. respUnits \in Nat
  BY SizeAssumption DEF ThreadsInit
<1>1. PICK p \in Programs :
          program = [th \in AppThreads |-> IF th \in DOMAIN p THEN p[th] ELSE << >>]
  BY DEF ThreadsInit
<1>2. \A th \in AppThreads : /\ program[th] \in Seq(Calls)
                             /\ \A i \in DOMAIN program[th] :
                                   program[th][i].op \in {"send", "recv", "get"}
                                      => program[th][i].peer # th[1]
  <2> TAKE th \in AppThreads
  <2>1. CASE th \in DOMAIN p
    BY <1>1, <2>1, ProgramAssumption DEF Calls
  <2>2. CASE th \notin DOMAIN p
    BY <1>1, <2>2
  <2> QED
    BY <2>1, <2>2
<1>3. program \in [AppThreads -> Seq(Calls)]
  BY <1>1, <1>2
<1>4. /\ ip \in [AppThreads -> Nat \ {0}] /\ at \in [Threads -> Positions]
      /\ left \in [Threads -> Nat] /\ wlock \in [Links -> Threads \cup {NoOne}]
      /\ pipe \in [Links -> Seq(Frame)]
  BY DEF ThreadsInit, Positions
<1>5. ThreadTypes
  BY <1>2, <1>3, <1>4 DEF ThreadTypes
<1>6. /\ \A l \in Links : pipe[l] = << >> /\ wlock[l] = NoOne
      /\ \A th \in Threads : ~Writing(th)
  BY DEF ThreadsInit, Writing
<1>7. LocksHeld
  BY <1>6, ThreadsApart DEF LocksHeld, Threads
<1>8. TailOpen
  BY <1>6 DEF TailOpen
<1>9. FramesWhole
  <2>1. \A l \in Links : Len(pipe[l]) = 0
    BY <1>6
  <2> QED
    BY <2>1 DEF FramesWhole
<1> QED
  BY <1>0, <1>5, <1>7, <1>8, <1>9 DEF ThreadInv

\* send_frame (net.rs) keeps frames whole: however many threads of a rank write to one
\* peer, readers that answer a GETREQ included, the units of a frame lie together on
\* the socket.
THEOREM FramesStayWhole == ThreadsSpec => []FramesWhole
<1> DEFINE Inv == ThreadInv /\ respUnits \in Nat
<1>1. ThreadsInit => Inv
  BY ThreadStart
<1>2. Inv /\ [ThreadsNext]_threadVars => Inv'
  <2> SUFFICES ASSUME ThreadInv, respUnits \in Nat, [ThreadsNext]_threadVars
               PROVE  ThreadInv' /\ respUnits' \in Nat
    OBVIOUS
  <2>0. respUnits' = respUnits
    BY DEF ThreadsNext, AppStep, ReaderStep, threadVars, job
  <2>1. CASE ThreadsNext
    BY <2>0, <2>1, AppKept, ReaderKept DEF ThreadsNext
  <2>2. CASE UNCHANGED threadVars
    <3>1. ThreadTypes'
      BY <2>2 DEF ThreadInv, ThreadTypes, threadVars, job
    <3> QED
      BY <2>2, <3>1, QuietKept DEF threadVars, job, Writing, ThreadInv
  <2> QED
    BY <2>0, <2>1, <2>2
<1>3. Inv => FramesWhole
  BY DEF ThreadInv
<1> QED
  BY <1>1, <1>2, <1>3, PTL DEF ThreadsSpec

=============================================================================

# Verification of the RLX distributed runtime

RLX is a tensor compiler and runtime. Most of the repository is sequential: an
IR, rewriting passes, numerical kernels. The part whose correctness depends on
orders nobody chose is the distributed runtime: processes that find each other
over lossy datagrams, agree on ranks, connect to each other, run collectives with
several threads over shared queues, and lose peers; and, beside it, the RPC server that
stops under its own threads and the KV cache whose pages many sequences share. This
project models these parts in TLA+, checks them with TLC on small instances and proves
the results it lists about them with TLAPS for all instances.

Sources are named relative to `src/`; `driver` is `crates/core/rlx-driver/src`, `runtime`
is `crates/core/rlx-runtime/src`.

## The system

### Components, their state and their operations

**Rendezvous** (`driver/rendezvous.rs`). Rank 0 runs `serve` (known world) or
`serve_open` (world = whoever registers in a window), over UDP or TCP; every other
process runs `register`. *State*: the `Roster` (world, and a `BTreeMap` from rank to
data address), the sockets to answer, the set of acknowledged ranks; at a worker
only whether it has its answer. *Operations*: `admit`, `close`, `full`, `list`, the
receive loops, the deadlines (window, timeout, linger, the 10 s read of a TCP
registration), the worker's re-sending every 250 ms. *Hard*: lost, repeated and reordered datagrams, retransmits
after the roster closed, workers that ask for a rank or a world, rank 0 leaving
while somebody has not been answered, a connection that writes nothing while others wait
behind it. *Right means*: everyone who returns holds one
list with its own address at its own rank; a rank once given stays; a member is
answered.

**NetTransport** (`driver/net.rs`). *State*: per peer a write half behind a mutex
(`writers`), a connection generation (`conn_gen`), a `lost` flag; a reader thread per
connection; an inbox of FIFO queues per (source, tag) with a condition variable; a
queue of GETRESPs; the symmetric heap. *Operations*: the constructors
(`from_listener_reversed` for a mesh, `coordinator_listen`/`worker_dial` for a star),
replacement of a connection by a later HELLO, `reader_loop` and `dispatch`,
`recv_inbox` (with or without deadline), `get`/`put`, `mark_lost`, `Drop`. *Hard*: a
reader, the constructor and a receive touch the same peer's state in separate locked
steps; locks are nested; readers also write. *Right means*: each connection's frames
arrive once and in order, a loss is reported after what was sent and only if it
happened, no call hangs on a peer that is gone, and no set of calls that should
complete stops everybody.

**ProcessGroup** (`driver/transport.rs`). Collectives written on
`send_bytes`/`recv_bytes`: three ring all-reduces, the split form
`reduce_scatter_owned` + `all_gather_owned`, `spawn_all_reduce`, `all_gather`,
`broadcast`, `all_to_all(_v)`, `reduce`, `ppermute`, `federated_average`,
`default_barrier`. *State*: the caller's buffer, the loop's step; frames in the inbox.
*Hard*: ranks run apart while all frames carry one tag; chunk arithmetic; deadlines
after which the late message still arrives. *Right means*: every rank leaves with every
rank's input of that call, each once and in the same order.

**Symmetric-heap collectives** (`driver/collective.rs`, `driver/symmetric.rs`).
`all_reduce`, `all_gather`, `reduce_scatter` and `ring_all_reduce` on one-sided `put`,
`get` and `barrier`, over `LocalTransport` (memory) or `NetTransport` (frames). *Hard*:
what orders a put with a barrier, and a read with the next call's write.

**Streaming pipeline** (`crates/core/rlx-runtime/src/dist/inference.rs`). Stages
receive activations, compute and hand the result to an `Outbox` thread; rank 0 feeds
and collects concurrently. *Hard*: it is the one caller with several threads on one
transport.

**Discovery** (`driver/node.rs`, `discover_peers`). Without a coordinator every process
broadcasts its rank and address until it has heard of as many ranks as its world, then
until its peers report the same or 3 s have passed. *State*: a `BTreeMap` from rank to
address, the ranks that said they are done. *Hard*: beacons are lost, repeated and late, a
process may stop announcing before the last peer has heard it, and a beacon names no job.
*Right means*: the list has each rank's address at its index, and nobody leaves while
somebody still needs it.

**iroh transport** (`driver/iroh_transport.rs`). Per directed edge one QUIC connection with
one stream, dialled on first use, cached, evicted on a failed write and redialled once; a
reader task per connection that fills a mailbox; `Drop` flushes. *Hard*: a send that
returned is only buffered; two threads may dial at once; a reader learns whose stream it
reads from the first header. *Right means*: no frame twice, an edge's frames in order, the
last message of a rank that exits is received, and a receive on a rank that is gone ends.

**RPC** (`crates/core/rlx-distributed/src/rpc.rs`). `serve` accepts and starts a thread per
connection; `serve_connection` reads a request, runs the handler under one lock while
another thread writes heartbeats, and writes the reply; a shutdown request or the last of
`max_requests` calls `finish`, which sets `done`, shuts down the reading half of every open
connection and wakes the accept loop. *State*: `done`, `served`, `open`, the handler's lock,
the sockets. *Hard*: `finish` runs between any two steps of the other threads; a call that
timed out leaves its reply on the stream. *Right means*: a call returns its own reply, what
was read is answered, and `serve` returns.

**Paged KV cache** (`runtime/paged_kv.rs`). `KvPagePool` counts the owners of each page,
`KvBlockTable` maps a sequence's tokens to pages, `KvPrefixCache` is a trie over full pages
that shares them between sequences, copies a partly shared page and evicts the least
recently used leaf that nobody else owns. *Hard*: counts are kept by hand over long
sequences of calls, and a freed page is reused at once. *Right means*: counts are exact and a
sequence never reads another's rows.

**MPI transport**, **cluster training and expert placement** (`rlx-collectives`),
**sessions** (`rlx-runtime`), **compiler**, **backends**, **bindings and I/O**: not modelled,
see the end.

### How they interact

`Node::connect` calls the rendezvous (or discovery) for a list of addresses indexed by
rank, then `NetTransport` with that list; `ProcessGroup` wraps the transport; the
collectives, the pipeline and federated averaging call it. `IrohTransport` takes
`NetTransport`'s place over QUIC. RPC and the KV cache stand by themselves. Between processes there
are only sockets. Within a process, reader threads share `NetInner` with the calling
threads.

## The modules

| module | models | extended or used by |
|---|---|---|
| `RankMaps` | the `BTreeMap` from rank to address, and its values in key order | `Roster`, `Discovery` |
| `Roster` | `Roster` and the parsed lines | `RendezvousUdp`, `RendezvousTcp` |
| `Rendezvous` | what a rendezvous promises (abstract) | refined by both |
| `RendezvousUdp`, `RendezvousTcp` | `serve_udp`, `serve_tcp`, `register` | `MC_Rendezvous`, which is `serve` and `register` with either protocol |
| `Discovery` | `discover_peers` of several jobs on one port | `MC_Discovery` |
| `NetTransport` | one rank's endpoint, its peers as environment | `MC_NetTransport` |
| `NetThreads` | threads of several ranks, locks and socket space | `MC_NetThreads` |
| `IrohEdge` | one directed edge of `IrohTransport` and its receiver | run directly |
| `AllReduce` | what an all-reduce promises (abstract) | refined by `RingAllReduce` |
| `RingAllReduce` | the ring all-reduces over FIFO mailboxes | run directly |
| `Collectives` | the other collectives of `ProcessGroup`, one after the other | `MC_Collectives` |
| `SymmetricCollectives` | one-sided collectives over memory or sockets | `MC_SymmetricCollectives` |
| `FederatedAverage` | repeated `federated_average` | run directly |
| `Rpc` | `serve`, `serve_connection`, `finish`, `RpcClient` | `MC_Rpc` |
| `PagedKv` | the page pool, block tables and prefix cache | `MC_PagedKv` |
| `DataLemmas` | lemmas about functions of queues, maps from ranks and sets of numbers | the proofs |
| `RingAllReduce_proofs`, `SymmetricCollectives_proofs`, `FederatedAverage_proofs`, `PagedKv_proofs` | theorems about the module of that name | |
| `Peers_proofs` | theorems about the rendezvous (`MC_Rendezvous`), `Discovery` and `IrohEdge` | |
| `Sockets_proofs` | theorems about `Rpc` and `NetThreads` | |
| `Messages_proofs` | theorems about `NetTransport` and `Collectives` | |

A definition whose comment starts with "Mutant" is the following definition with a
plausible mistake in it. No specification uses it; it is there to show that the
property it goes with notices the mistake.

### Rendezvous

`Roster` has `admit` as three operators, in the order of the code: `WorldMismatch` is
looked at first, then an address that already has a rank keeps it, then `NoRankFor`
decides whether there is a place. A registration is the address, a rank or `NoOpt`
(`auto`) and a world or `NoOpt`; text formats are left out. `list()` is by key order,
not by rank, so that "index = rank" is something to check.

`RendezvousUdp` keeps the set of datagrams that may still arrive. Receiving leaves a
datagram there, `Lose` takes it away: this is every combination of loss, repetition and
reordering. `RecvReg` is the whole handler: admit, remember the socket, and, depending
on `done_at`, answer this one or everybody. The deadlines are nondeterministic
(`WindowEnds`, `ServeTimesOut`, `LingerExpires`, `RegisterTimesOut`). `RendezvousTcp` has
the backlog, the one connection that is read, for at most 10 s (`ReadTimesOut`), the
`waiting` list and the reply loop, one turn per step; a worker may connect and write
nothing, and may give up at any moment.

### Discovery

A process is the record of its job, rank and world, which stands for its address too.
`Announce`, `Recv`, `LeaveDone` and `LeaveLinger` are the loop's pieces; a beacon once sent
may be taken at any later time, any number of times or never. The set of processes on the
port is chosen in `Init`, so that jobs may share it. What the code's checks can see is only
the number of ranks heard of: `ListRight` and `LeftTogether` say what that amounts to, in
addresses. A process that took another job's beacon may leave because of it (`heard`, which is
history, says whether it did), and a rank of its job may then be left waiting: `Abandoned`.

### NetTransport and NetThreads

`NetTransport` is one rank against arbitrary peers. Its steps are the code's locked
regions: a reader reads (`Read`), compares `conn_gen` (`CheckGen`), dispatches
(`Dispatch`), and at its end compares again (`EndCheck`), sets `lost` (`MarkLost`) and
takes the inbox lock to notify (`NotifyLost`). A receive takes from the queue
(`RecvTake`), looks at the connection and at `lost` (`RecvCheck`) and waits
(`RecvWait`); it holds the inbox lock over the last two. The peers connect, send, put, get
and close whenever they like. Frames carry their connection, tag and number and nothing
else. A reader that has a GETREQ in hand takes the lock of the peer's write half (`Answer`,
`wlock`) and keeps it until the write ends: when the peer takes the response
(`PeerTakesAnswer`, a step of the peer, who may never make it) or the write fails
(`AnswerFails`). Replacing the connection, `RecvCheck`, `GetCall` and `Drop` wait for that
lock. `Drop` sets the flag, then locks and shuts down one socket after the other in rank order
(`ShutDown`), then joins the readers (`Joined`). A response that fits the socket ends at once,
which is `PeerTakesAnswer` too. A PUT is read and dropped: the heap is in
`SymmetricCollectives`. What the application sends itself is not in this module; its locks are
in `NetThreads`.

`NetThreads` drops contents and keeps what can block: the writer mutexes, the inbox
mutex, the bounded sockets, the reader threads. A frame is several units, written one
at a time by the holder of the writer lock. Application threads run programs, sequences
of `send`, `recv`, `get` and the Outbox's `push`/`take`, taken from
`all_reduce_ring_f32`, from the pipeline and from the gets of the one-sided `all_reduce`. A
response has `respUnits` units, chosen in the initial state: it may fit a socket or not.

`IrohEdge` is the sending side of one rank, with several threads, the connections it dials
one after the other or at once, and the receiving rank's readers and mailbox. A write that
succeeds puts the frame on the wire of its edge; when a connection ends, a prefix of what
was under way arrives. `Closes` is the last handle of a replaced or evicted edge going out
of scope, `Finish` the flush in `Drop`; a flush that is not acknowledged within its 3 s is a
connection that died (`Dies`). Wires end at whole frames; in the code a frame cut after its
header marks its peer lost as well.

### Collectives

A value is the sequence of inputs folded into it: two floating-point results agree bit
for bit exactly if these agree. `RingAllReduce` has the chunk arithmetic of `ring_chunk`
(empty and unequal chunks included), the length check of each received frame and the
three variants, which differ in when the result is finalized. `SymmetricCollectives` has
the heap's slot, put, get and the two barriers; a link between two ranks is FIFO,
different links are independent. `all_gather` and `reduce_scatter` of `collective.rs` run
the same put-barrier-get and are represented by `all_reduce`.

`Collectives` has each of `all_gather`, `broadcast`, `reduce`, `all_to_all`, `all_to_all_v`
and `ppermute` as the sequence of sends and receives a rank makes (`Program`), and ranks
that run a schedule of such calls with nothing but the frames between them. A send
appends its frame and returns when no more than `capacity` frames to that peer are under
way: 0 is MPI_Send of a large buffer, which waits for the receiver (`mpi_transport.rs`), 1
a small socket, 9 the unbounded inbox of `NetTransport`. A receive takes the first frame of
its tag and checks its length where the code does. A buffer is one value per rank;
`send_counts` contain zeros.

`FederatedAverage` runs several rounds. How long a frame is under way is free, so rank 0
may miss a vector that has been sent; the vector stays queued. `results` is what each round has
left in a client's data: the average, or, for a client of another length (`Odd`), what was there
before (`DataAfter`).

### Rpc and PagedKv

`Rpc` has one step per access to what the threads share: the look at `done` and the push
onto `open` in the accept loop are two steps, the three parts of `finish` are three, a reply
is written in two pieces, and a heartbeat may be written between any two steps while it is
due. A request is its number on its connection; what the handler does with it is left out,
that it may take any time is not. Clients call, time out and leave as they like. Sockets are
unbounded, so a reply can always be written to a client that has not gone, and the connect that
wakes the accept loop, whose failure `finish` ignores, succeeds.

`PagedKv` names a row by the tokens it was computed from, so that `RowsRight` can tell a
right row from a wrong one, and a trie node by its path. `last_use` is kept as an order. The
caller is the one of the module's tests: match, push, allocate, compute, insert, release. The
tests' `prefill` never makes the copy a match asks for; here the caller makes it (`CopyPage`)
at any time after the match and before its forward pass, which is what the doc of `PageCopy`
asks, with allocations, evictions and other sequences' calls in between. `plan` is the copy still
to be made. If the cache has given the source up by then, what is copied is `Unknown`.

## What is checked

All runs finish within five minutes; `-deadlock` is off where the system ends by itself.

| run | instance | what it shows |
|---|---|---|
| `rendezvous` | UDP and TCP, 2 workers; world open, 2, 3; requests none, rank 1, world 4 | one list, own index, over UDP no member refused (but for one documented case; over TCP nobody asks twice), rank 0 returns only when everyone on its list was answered or the linger expired, ranks stable, members answered, everyone who registered over TCP learns its fate though a silent connection is read first; both refine `Rendezvous` |
| `disc` | a job of 3; a job of 2 beside a process of another job: rank 1 or 3 of 4, or rank 1 of 2, which may be done | the list is right unless another job's address is in it; who leaves as done leaves every rank of its job with its list, unless it took another job's beacon; discovery ends unless a peer stopped announcing first |
| `net` | 2 peers; mesh and star, dialed and accepted; with deadline and gets; one peer connecting twice; two frames in a row; peers that put and get, one connecting twice | order and no duplicates, across replacement too; the mesh returns only with all peers; everything sent is received before a loss is reported; receives on a closed connection end; `Drop` ends unless a peer never takes the response being written to it |
| `threads` | 3 ranks, SEND frames larger than a socket, responses that fit it or not, four programs | frames never mix; every call returns unless two readers write responses larger than a socket to each other |
| `threads_pipe2` | 2 ranks, pipeline of 4 micro-batches | *violation*, the finding below |
| `iroh` | 2 threads, 2 frames each, 3 connections, 1 failure | no frame twice, order per edge, receives on a rank that is gone end after everything it sent |
| `ring` | 4 ranks, 2 calls, 3 elements, all variants | the frame taken is the one waited for; at most n frames queued; refines `AllReduce`; all return |
| `coll` | 3 ranks, every pair of 12 calls, capacities 0, 1 and 9 | no frame taken for another call's or left behind, results as promised, everybody returns |
| `sym` | 3 ranks; ring twice in memory, ring and naive once over sockets | barriers hold, calls return, results (before the division of a `Mean`) right where the code orders puts and reads |
| `fed` | 3 clients, 2 rounds, 1 crash, 1 client with another length | averages in order, the odd client's data unchanged, vectors once, late only after a miss, everybody ends |
| `rpc` | 2 clients, 2 and 1 calls, no limit and `max_requests` 2 | replies match as far as no call timed out, what was read is answered, `serve` returns (as long as replies can be written) |
| `kv` | 4 pages of 2 tokens, 2 sequences of up to 5 tokens, 3 prompts | counts exact, rows right unless copied from a page given up, refused only when all pages are in use |

### Why the bounds are enough

Two workers suffice for the races of a rendezvous (two for one place; one in, one
out; one that blocks the accept loop, one behind it).
Worlds 2 and 3 are the roster that fills early and the one that fills with the last;
world 4 is never right. In `NetTransport` peers only interact through the one
application thread and the constructor, so two peers are the general case, and two
connections are a replacement. The bounds differ by setup (`MaxFrames`, `MaxRecv`): two
frames and two receives where order is at stake, one where a peer connects again; one put or get
of a peer on a connection makes its reader answer while the application, a new connection and
`Drop` want the lock. In `NetThreads` a socket of two units and a frame of
three is the smallest case in which a writer must wait for its reader; responses of two and of
three units fit it and do not, and a reader that answers while the other one does too is the case
`Completes` excepts. Four ranks with
three elements give an empty chunk and an interior rank that is neither neighbour;
two calls are what "the next call's frame" needs. `coll` has three ranks, so that
every exchange has a rank that is first, last and in between, every root, and a
permutation with a cycle, one without, and one with a fixed point. In `fed`, round 2 sees round 1's late
vector, with another client on either side. In `disc`, three ranks give one that knows
everyone, one that does not, and one in between, the stranger's rank is once a rank of
the job it meets and once beyond its world, and a stranger of a world of two hears enough to be
done itself. In `iroh`, two threads are a race for the cached
edge and three connections are that race and a redial. In `rpc` one client stops the server
while the other is anywhere in its two calls, and the second call is the one that meets a
late reply. In `kv` four pages are one too few for two sequences that share nothing, so
that sharing, copying, eviction and refusal all happen; the prompts share a page and a half,
and one holds another's chunk at another place. The copy of a page that was evicted after the
match happens, too: without its exception `RowsRight` is refuted.

### Fairness

Threads that can take a step take one (weak fairness per thread): the scheduler. The
peers in `NetTransport`, their reading of responses included, and every deadline are not fair:
nothing may rely on them. Over
UDP, receiving is strongly fair per worker and message kind: a datagram sent again and
again is not lost every time. Where `recv_inbox`'s deadline or a client's crash is
possible it is never forced. In `fed`, rank 0 has weak fairness over its whole loop: its
deadline is a clock. In `disc` what a process announces again and again is heard (strong
fairness per pair) as long as it goes on announcing it; in `rpc` the server's threads and its
handler go on and clients do what they like; in `iroh` readers, the receiver and the closing of
connections go on, the sender does not have to. `kv` has no liveness.

## What is proved

### Rendezvous (`Peers_proofs`)

From `AddressAssumption` (finitely many workers, none at rank 0's address) and
`ArgumentAssumption` (what `serve` and `register` accept), for any requests and any loss,
repetition and reordering of datagrams. Each is proved of `serve_udp` (`Spec`) and of `serve`
with either protocol (`ServeSpec`, the specification of the run):

* `RanksStay`, `ServeKeepsRanks`: `RosterStable`: a rank once given stays with its address.
* `OneListForAll`, `ServeGivesOneList`: `[]OnePeerList`: all who return hold one complete list,
  with their own address at their own rank.
* `UdpImplementsRendezvous`, `ServeImplementsRendezvous`: `RendezvousSpec`: the refinement.
* `MembersNotRefused`, `ServeRefusesNoMember`: `[]NoMemberRefused`: nobody who holds a rank is
  refused, but for the one case the property names.
* `ReturnedAfterAll`: `Spec => []ReturnedMeansInformed`: `serve_udp` that returns before its
  linger expired leaves no rank without the list; and `ServedWhenReturned`:
  `ServeSpec => []ReturnedMeansServed`: over TCP too, the list was written to exactly the ranks
  on it.

`OnePeerList` speaks of those who have returned and of no other; the inductive invariant
`IInv` is what makes it true. `ServerSound`: the roster is sound (`Sound`: an open roster has
the ranks 0..n-1 without a gap, one of a known world only ranks of that world), no two ranks
share an address, an answer goes to the rank's own socket, and once the list has been sent
no rank is missing. `AnswersSound`: every list under way and every list received is the
roster's present one, with the receiver's own rank. The crux is `LateRegistration`: after
the list has been sent a registration either is refused or changes nothing. That index and
rank agree in `list()`, which is in key order, is `ListIs`, by `FullMeansAll`: a set of n of
the ranks 0..n-1 is all of them. A refusal under way must stay right while the roster grows:
`RefusalInv` says that every refusal that was sent would be sent again, by `RefusedForGood`,
and `AcksTrue` that an acknowledgement, counted or under way, comes from a worker that has
the list. Over TCP the roster and the answers obey the same `IInv`: `serve_tcp` keeps the roster
with the same operations (`SameRoster`). `TcpInv` adds the connections: a worker is in at most
one of the backlog, the connections being read and `waiting`, as its own end says
(`ConnectionsSound`); `waiting` has every admitted connection once, with its rank
(`WaitingSound`); and a line written to a connection is the one its worker deserves, while a rank
waits for its answer or has it (`LinesSound`). `ServeInv` is `IInv` with the parts of the protocol that
runs, and every step of either is a step or a stutter of `Rendezvous` (`ServeStep`).

### Discovery (`Peers_proofs`)

From `ProcAssumption` (a process's rank is below its world, and the processes of a job have
one world), for any set of processes on the port:

* `DiscoveredListIsRight`: `DiscoverSpec => []ListRight`.
* `NobodyLeftBehind`: `DiscoverSpec => []LeftTogether`: when a process that took no foreign
  beacon leaves as done, every rank of its job has a complete list, and each that took no
  foreign beacon either has the job's own addresses in it.

The code only counts. The invariant `DiscoverInv` says what the counts are of: every entry of
`peers` is at its rank and comes from a process it was heard from, a process that has left
has a complete list, and a beacon with the done flag was sent by a process that knew
everyone, which stays true because `peers` only grows. That `world` ranks below `world` are
all of them, and `world - 1` others all the others, are `EnoughMeansAll` and `AllButOne`.

### QUIC edge (`Peers_proofs`)

From `BoundAssumption` (the bounds are numbers), for any number of threads, frames, connections
and failures:

* `ArrivesOnce`: `EdgeSpec => []OnceInOrder`.

A thread tries a frame again only after a write that failed, and a write that fails put nothing
on the wire. The invariant `EdgeInv` says so of every place a frame can be: whatever has arrived
or is on a wire was begun earlier than the frame its thread is sending now (`AllBegun`), a frame
on a wire has not arrived, comes after what arrived over that edge and is on no other wire
(`WireIsNew`), and a wire has the frames of one thread in order (`WireInOrder`). A connection that ends keeps a prefix of its wire, which is still in
order. No assumption on which edge is cached is needed: two threads that dial at once may use
different edges.

### NetTransport (`Messages_proofs`)

From `ConstantsAssumption`, for any number of peers, tags, frames and
receives, mesh and star:

* `ReceivedInOrder`: `Spec => []InOrderOnce`.
* `AllConnected`: `Spec => []EveryPeerConnected`.
* `QueuedFirst`: `Spec => []DrainedBeforeLost`.

The invariant `NetInv` follows a frame from the peer to the caller. `Streams`: what was
received under a tag, what is queued, the frame the reader has in hand and the frames on the
wire continue each other without a gap (`Continues`), for as long as the reader has not given
the connection up; two connections of one rank are counted apart. `Losses`: for a rank that
connected once, a reader that has seen the end, and every step after it up to the `lost` flag,
means that the peer closed and nothing is left on the wire or in hand. `FoundEmpty` is the
lock: between finding the queue empty and looking at `lost`, `recv_inbox` holds the inbox, so
the queue is still empty; without it a reader could queue the last frame and set the flag in
between. `Progress` is the count of the accept loops: a mesh is done when no expected peer is
left, a star when as many connections as peers were accepted, and these are different peers as
long as none connects twice. `Wired` says which connections, readers and writers belong
together.

### Gather-to-root, pairwise and permuting collectives (`Messages_proofs`)

From `CollectivesAssumption` (at least two ranks, no source and no destination twice in a
permutation, any counts), for any schedule of calls and any capacity of the transport:

* `CallsTakeTheirOwnFrames`: `CallsSpec => []StreamsNeverCross`.
* `CallsLeaveNothing`: `CallsSpec => []NoLeftovers`.
* `CollectivesDeliver`: `CallsSpec => []ResultsRight`.

None of the three is inductive: which frame is first in a queue depends on what both ends have
done in all the calls before. The programs of a call are first reduced to places: `Sends` says
which frames a call has, `SendAt` and `RecvAt` at which operation they are sent and taken, and
`Shaped` that a program consists of exactly these (one lemma per collective, `GatherShape` to
`PpermuteShape`). The fact that the single tag rests on is `InOrder`: two frames of one call
between the same two ranks, the count and the chunk of `all_to_all_v`, are taken in the order in
which they are sent. The invariant `CallsInv` then says that a queue holds the frames handed
over and not yet taken, all of them, in the order of the sends (`OnlyPending`, `AllPending`,
`InSendOrder`), that nothing is taken before it is sent, that the output of a rank in a call is what the
operations so far have made of it (`OutBefore`, with one lemma per collective, `GatherSteps` to
`PpermuteSteps`), and that earlier calls returned what they promise. `FirstIsNext` is the
consequence the steps need: a frame of the tag for a later call, or for a later
operation, has the expected one before it. A length check cannot fail, since in `all_to_all_v` the
count from a rank is taken before its chunk (`LenExpected`).

### Ring all-reduce (`RingAllReduce_proofs`)

From `RingAssumption`, for any number of ranks, elements and calls
and all variants, the calls of a rank made one after the other (`~Overlap`; overlapping calls
do take each other's frames, see the findings):

* `TagIsSafe`: `[]SingleTagSafe`.
* `MailIsBounded`: `[]MailBounded`.
* `ReducedEverywhere`: `[]ResultsRight`.
* `RingIsAllReduce`: the refinement `ImplementsAllReduce`.

All frames carry one tag, so what makes them right is only how many were sent and taken
before. `RingInv` says that there are two numbers per rank, the frames it has taken and those
it has sent over all its calls, that fit where each of its calls is (`Places`), and that its
mailbox holds exactly the frames between what it has taken and what its left neighbour has
sent, each with the contents its number determines (`Mails`, `FrameAt`). `Buffers` says what is
in each chunk at each step: a chunk d places to the left has the fold of the d + 1 ranks up to
it while scattering, and the whole once gathered. The numbers are not in the code, so they are
quantified in the invariant. That a mailbox has at most N frames follows from the
numbers around the ring (`Apart`): nobody has sent more than N - 1 frames more than its right
neighbour. The refinement maps a returned call to its value and shows each step to be a step or
a stutter of `AllReduce`; that a call returns nowhere before every rank has entered it
(`EnteredFirst`) is what its `Return` asks for.

### Federated averaging (`FederatedAverage_proofs`)

From `FederatedAssumption` alone (at least two ranks, at
least one round, any set of clients with odd vectors, any number of crashes):

* `TypeCorrect`: `Spec => []TypeOK`.
* `AveragesInOrder`: `Spec => []ResultsInOrder`: a client's k-th round leaves rank 0's
  k-th average in its data, unless the client is `Odd`, whose data it leaves alone. The property speaks of results only and is not inductive. The
  strengthening `AnswersInOrder` adds what is under way: results followed by `down` are
  a prefix of the averages, of a length given by where rank 0's answer loop stands
  (`SentTo`), and the sum being sent is the last average. The proof has one step per
  action; `RootSends` and `ClientReturns` are the ones that use the queue lemmas.
* `EachVectorOnce`: `Spec => []VectorsOnce`, and `LateVectorsMissed`:
  `Spec => []LateOnlyAfterMiss`. `VectorInv` adds the other direction: a client's queue holds
  its latest vectors in order (`QueueInOrder`), and the vectors that are in the averages, or in
  the sum being collected, are those before them, each average's after the one's before it and
  at most as many as there were averages (`UseInOrder`).

### Symmetric-heap collectives (`SymmetricCollectives_proofs`)

From `SymmetricAssumption` (at least two ranks, any set of modes), for any number of calls, the
naive and the ring algorithm, over memory and over sockets:

* `BarriersHold`: `Spec => []BarrierHolds`.

`default_barrier` sends one kind of token under one tag for all its barriers, so only numbers
tell them apart. `BarrierInv` counts them: what rank r has entered is what rank 0 has collected
from it and what is on the link or queued (`Flying`), and what rank 0 has released it from is
what it has passed and what is on its way back. `Collected` and `Released` say how far rank 0
is in its two loops. Puts, gets and their answers share the links and move no token
(`QuietStep`). From the counts, `CountsHold`: nobody has passed more than it was released from,
nobody was released before all were collected, and nothing is collected that was not sent.

* `SymmetricResults`: `Spec => []ResultsRight`, where the code orders its puts and its reads:
  the ring over memory for any number of ranks and calls, the ring over sockets between two
  ranks for any number of calls (no run has this instance), and `all_reduce` called once, for
  any number of ranks over either transport.

Three arguments, one for each of these. `NaiveInv`: who has passed the one barrier finds every
input in its slot (`AllPosted`), so every request and every answer under way is about inputs,
and `acc` is the inputs of the ranks before the source it is at (`Prefix`). `RingInv` says in
closed form what rank r's chunk holds after t takes (`Val`: its own input, then the fold of the
ranks the chunk came through, then the whole), and, from the number of barriers passed, which
step a rank is in (`RingPlace`). Two barriers a step make that number odd exactly between them,
so a rank that reads its mailbox has its left neighbour in the same step of the same call, with
its put behind it (`Together`). Over memory the put is then in the mailbox. Over sockets it may
still be under way; between two ranks it shares the link with the barrier's tokens, and
`SocketMail` lists the five contents the link can have: a put and a token at most, in an order
that follows from where its sender is. The counts of `BarrierInv` exclude the ones with a put
when the mailbox is read (`MailHere`). With a third rank the tokens take another link, and the
argument, like the code, fails there.

### RPC (`Sockets_proofs`)

For any number of clients, calls and any `max_requests`:

* `ReadMeansAnswered`: `Spec => []NothingLost`. The invariant adds that no writing half is
  ever shut down (`WriteOpen`), and that a client in the backlog has no thread yet and is
  there once, while the wake-up connection is there only once the server is done
  (`QueueFresh`): otherwise an accept could overwrite a thread that has a request in hand.
* `OwnReply`: `Spec => []ReplyMatches`. `StreamInv` adds what is on the two streams of a
  connection: the requests in the order of the calls, after the one the server has in hand
  (`RequestsInOrder`), and the replies as whole frames, with heartbeats only between them,
  numbered on from the last one the client took (`StreamInOrder`). How many of them there can be
  is what the client's late calls left behind.

### Threads on a socket (`Sockets_proofs`)

From `SizeAssumption` (units and capacities are at least one) and `ProgramAssumption` (a
program's threads are named by rank, what they send, receive or get names another rank), for any
programs:

* `FramesStayWhole`: `ThreadsSpec => []FramesWhole`.

The property looks at the units in a socket only. `ThreadInv` adds who may write there: a thread
is between the units of a frame exactly while it holds the writer's lock of its link
(`LocksHeld`), so at most one is, and a last unit that does not end its frame is that thread's
(`TailOpen`). A reader that answers a GETREQ takes the same lock.

### Paged KV cache (`PagedKv_proofs`)

From `PoolAssumption` (a finite pool and finitely many sequences, pages of at
least one token, token ids are numbers, no prompt is empty), for any pool, page size, prompts
and lengths:

* `CountsExact`: `Spec => []RefsExact`.
* `RowsAreRight`: `Spec => []RowsRight`.
* `RefusedWhenPinned`: `Spec => []DryMeansPinned`.

None of them is inductive: which pages a sequence may write is decided by who else has them.
`KvInv` adds that the page of a node is full, with the rows of the node's path (`TrieRows`),
that a table's rows are right up to `held` (`TableRows`), that a page that is not full yet,
and will be written, is in one place of one table and at no node (`Unshared`), and that a copy
still to be made goes to the page after those matched whole and ends before the prompt does
(`Plans`). A row may be `Unknown`, but never the last of a page, since a copy fills only a
page's head (`Has`). A free page, or
the page of the evicted leaf, has no owner because the counts are exact (`NoOwner`,
`SoleOwner`); a matched page is full because it is a node's; an inserted page is full because
`insert` takes full pages only. `DryMeansPinned` then follows without further steps: two nodes
never have one page, since its last row is the node's path (`NodesDiffer`); under every node is
a leaf (`LeafBelow`); and a leaf that cannot be evicted has an owner besides the cache, which
can only be a table.

`DataLemmas` states what appending to, and taking from, one queue of a function of queues does
to the others, to lengths and to elements; that n of the numbers 0..n-1 are all of them; and
that a set of numbers has a least.

### Only model-checked

* All liveness (`AllFinish`, `AllReturn`, `Completes`, `RecvEnds`, `DropEnds`,
  `MembersInformed`, `EveryoneResolved`, `ServeStops`): it needs fairness and ENABLED, which
  the prover does not reach. Every invariant, action property and refinement of the passing
  runs is also a theorem.

## Findings

`threads_pipe2`: `recv_inbox` waits for the peer's writer lock while it holds the inbox
lock. With two ranks the stage sends to the peer it receives from; with both sockets full
nobody moves. It needs activations larger than the socket buffers and two in flight.

### Disagreements without a run

Three more are stated in the modules and refuted by TLC; each is reproduced by the change
of a configuration that is named here.

* `LostMeansClosed` of `NetTransport` (add it to `net.cfg`): `reader_loop` compares `conn_gen`
  and then calls `mark_lost`; a HELLO accepted in between leaves the *new* connection marked
  lost, and every receive from that peer fails. The comment on `conn_gen` says "A reader
  whose connection was replaced (a later HELLO from the same rank) ends without marking the
  peer lost."
* `ResultsRight` of `RingAllReduce` (in `ring.cfg`, `N = 2` and `Overlap = TRUE`): concurrent
  `spawn_all_reduce`s share one queue and take each other's frames, while its comment says
  "fire it per bucket as gradients are produced, keep computing, then join".
* `EveryResultRight` of `SymmetricCollectives` (in `sym.cfg`, `Modes <- RingOnNet`): over
  `NetTransport` a put is complete at the sender when it is written to the socket; the
  barrier's tokens go through rank 0 and may overtake it, so with three or more ranks
  `ring_all_reduce` can read a stale mailbox. `SymmetricTransport` says "Both calls block
  until completion".

Met while modelling, visible in the models, and excepted by the properties:

* `get` waits for a response without looking at `lost`: a get from a peer that dies never
  returns (`GetTake` has no other guard).
* `coordinator_listen` counts connections: a worker that connects twice takes another's
  place, and its first socket is not shut down by `Drop`. `EveryPeerConnected` and
  `DropEnds` except the star with a second connection for this reason.
* Two ranks that get slots larger than the socket from each other may block for good: each
  reader is writing its GETRESP and not reading. The comment of `net.rs` (lines 18-22) calls the
  one-sided collectives "deadlock-free over any rank count"; with such responses they are not.
  `Completes` excepts exactly that (`AnswersCross`, with responses larger than a socket), and
  without the exception `threads` refutes it.
* `Drop` locks each writer before it shuts the socket down. A reader that answers a get of a
  peer that stays connected and does not read holds that lock, and `Drop` waits for ever
  (`DropEnds` excepts it).
* `all_reduce` of `collective.rs` has no barrier after its gets: a second call on the same
  buffer may overwrite a slot still being read (`SymmetricCollectives`, naive, 2 calls,
  `EveryResultRight`).
* A member of an open roster that gave a WORLD is refused when it retransmits after the
  window closed with another number (`NoMemberRefused` excepts it).
* A cyclic `ppermute` (every rank sends, then receives), and the ring all-reduces for the
  same reason, rely on a transport that takes a frame before it is received; MPI_Send of
  a large buffer need not (`AllReturn` of `Collectives` excepts exactly this). The pairwise
  and gather-to-root collectives do not.
* A client whose data has another length than rank 0's returns from `federated_average` with
  `Ok(0)` and its data as it was, though the doc says that non-roots "get the averaged `data`"
  (`ResultsInOrder` says which clients get what).
* A vector that misses its deadline enters the next round of `federated_average`
  (`LateOnlyAfterMiss` says exactly when), and a client that is gone ends the round with
  an error at the send to it (`AllFinish`).
* `discover_peers` takes beacons of any job: a list may then hold another job's address, or
  have more entries than the world, and `values()` shifts what follows (`ListRight`). Another
  job's done flag, or its address in the place of a peer's, can make a rank leave while a peer
  still needs it (`LeftTogether`). A rank whose peers left before it heard them, their linger
  over or misled in this way, waits for ever (`AllReturn`).
* `call` keeps the connection after a timeout: the next call takes the late reply as its own
  (`ReplyMatches` says how far behind it can be). A timeout in the middle of a frame loses
  the framing; the model makes no further call then.
* `serve` waits for a reply that a client never reads (the sockets of `Rpc` are unbounded), a
  connection whose `try_clone` failed is in no drain, and a failed connect in `finish` leaves the
  accept loop asleep; none of these is in the model.
* Two threads of a rank that both dial have two edges to one peer, and their frames may
  overtake each other, although the comment in `send_bytes` says "concurrent sends to the
  same peer serialize and their frames stay in order on the wire"; `evict` may remove the
  edge another thread has just dialled. Frames whose send returned are lost with a
  connection that dies, and the next connection's frames follow them without a sign of it.
  `OnceInOrder` and `RecvEnds` speak of one edge for these reasons.
* A stream that ends before its first header, or that carries an oversized frame, marks
  nobody lost, and a receive on it waits for ever (`RecvEnds` asks for one frame). `TAG_LOST`
  is never cleared: after a redial an empty mailbox is an error.
* `PageCopy.src` is not retained. Its doc asks for the copy only "before writing new rows into
  `dst`'s tail"; a caller that allocates the rest of its pages first, the order of the tests'
  `prefill`, which makes no copy at all, may evict the source and copy another sequence's rows (`RowsRight` excepts the rows of
  copies made after the cache gave the source up, and TLC refutes it without the exception). A cached
  page whose descendant is in use cannot be evicted, though its doc says "a page whose only
  owner is the cache is evictable, leaves first" (`DryMeansPinned`).

## Not modelled

* Contents and arithmetic: element values, dtype conversion, saturation. They do not
  influence control; the order of folding, which decides the value, is kept.
* Real time: durations are nondeterministic, so nothing is said about how long anything
  takes.
* `announce`/`find` of the rendezvous and `announce_coordinator`/`discover_coordinator`: a
  question asked again until it is answered, with no other state.
* `recv_bytes_timeout` and the loopback of the iroh transport; MPI; `BatchConstructor`;
  the token pipelines' wire formats; sessions; expert pool and placement.
* mDNS, BLE, compiler, kernels, bindings, file formats: platform services, pure
  computation or I/O.

## Plan

Next modules, most important first:

1. The expert pool and its residency; the token pipelines (KEEP and sequence numbers).
2. `Discovery` or `RendezvousUdp` composed with `NetTransport`'s constructors, which dial the
   list they return.
3. Pure operators: `ring_chunk` against a reference split, saturating i8 means, expert
   placement, `BatchConstructor::build`.

# Bitfiltrate in TLA+

Bitfiltrate is a BitTorrent downloader without the torrent file: it knows the
info hash and a list of peers, guesses the piece size by probing, counts the
pieces from the peers' bitfields and writes what it receives to `torrent_dump`.
It is C with pthreads: a handful of monitors (mutex and condition variable),
endless "watchdog" threads, two threads per connection and one detached thread
per received packet. This directory holds its specification: TLA+ modules
translated from the source, TLC configurations that check them, and proofs
checked by TLAPS. Paths below are relative to `src/`; `B/` is `Bitfiltrate/`.

## The system

| Component | State | Operations | Hard behaviour | What makes it correct |
|---|---|---|---|---|
| Concurrent queue, `ConcurrentQueue/concurrent_queue.c` | singly linked list, count | push, pop (waits), popifpossible, count | wait against push, count-then-pop | first in first out, no lost wakeup, no dangling `lastItem` |
| Piece tracker, `B/piecetracker/piecetracker.c` | pieces, their fillment and status, piece size and count, `usedPieces` | setPieceSize, setMaximumPieceCount, ingestSwarmBlock, getWish, isWishFulfilled, consumeExportPieceIfAny, areAllPiecesUsed | export waits, redundant counters, blocks in any order | FULL exactly when complete, nothing forgotten, a wish covers what is missing, a full piece is exported |
| Peer swarm watchdog, `B/watchdog/watchdog_peerswarm` | mode GUESS, CONFIRM, DOWNLOAD or COMPLETE, guessed size, last wish and its time | one turn of an endless loop | late, lost and repeated answers; several critical sections per turn | all pieces are filled, no early COMPLETE, only well-formed calls of the tracker |
| Disk watchdog, `B/watchdog/watchdog_diskio` | the exported piece | export, write, free | works on the piece without the mutex; failed seeks and writes, reported and not handled | every block at its offset unless a call failed, the piece does not change meanwhile |
| Connection pool, `B/network/conpool*.c` | health, outgoing queue | sending loop, receiving loop | the two loops stop separately | neither loop hangs |
| TCP communication, `B/swarm/tcpswarm/tcpswarm_comm.c` | `peerConnectionStatus` (no lock), socket, `syncMutex` | connect lazily, write, handshake, read | races on the status, wait without a predicate, failures, write() to a peer that reads no more | the socket is open when used, handshake first, connected sockets are read |
| TCP protocol, `tcpswarm_proto.c`, and `tcppeer.c` | marks, choking, bitfield, block queue | one handler per packet type, bitfield operations | a thread per packet: any order, unlocked read-modify-write | the bitfield is what was advertised, each block is handed on once |
| Swarm, `B/swarm/*.c` | peer list, `peerManipulationMutex` | ingest, filter, query, queue a message | held while a query blocks | a peer is usable once it is in the list |
| UDP tracker, `B/udptracker`, and its watchdog | conversations, status, connection ID | begin conversation, process reply, announce, collect peers | duplicated, lost, late and stray datagrams, wait without a predicate | a reply belongs to one conversation, each announced peer is pushed once |
| Peer feed, `B/peerfeed` | offset in the file, distance back to the next line | read a line, push its peer | overlapping reads, last line, line ends | every line gives its peer, once and in order |
| Doubly linked list and map, `LinkedList/` | chain of elements, count | insert, delete by data or position, look up, count, destroy; put, get, remove | deletion at the ends, stale pointers to freed elements | a sequence; one value per key |
| Bencode, `BitfiltrateBencode/` | the objects read so far | recursive reading of a document | nested ends, positions | a document is read back as it was written |
| Watchdog supervisor, torrent info, main, demos | – | thread start, conversion | – | – |

Interaction. `main` starts the watchdogs. The UDP tracker watchdog, or the peer
feed, pushes peers to the swarm watchdog's concurrent queue. The swarm watchdog
ingests a peer (a connection of the pool, a handshake and an INTERESTED in its
outgoing queue), asks peers for bitfields and blocks, and hands blocks to the
piece tracker. A connection's sending thread pops the outgoing queue; its
receiving thread starts a thread per packet, which changes the `tcppeer` and
pushes blocks to its queue, which the swarm watchdog drains. The disk watchdog
takes full pieces from the tracker. Nothing is persisted but the output file,
and the program never resumes one: there is no recovery to model.

## Modules

| Module | Models |
|---|---|
| `PieceTracker` | the piece tracker; an operation is one action, as it holds the mutex throughout, except the export, which waits |
| `PieceSizeGuess` | GUESS and CONFIRM mode of the swarm watchdog, the ingestion of peers, their probes and their marks |
| `PieceDownload` (extends `PieceTracker`) | the swarm watchdog from a confirmed size to COMPLETE, the disk watchdog, and peers that answer late, repeatedly or not at all |
| `ConcurrentQueue` | the list with its pointers, and the three kinds of threads that take items |
| `FifoQueue` | the abstract queue that `ConcurrentQueue` implements |
| `TcpPeer` | the bitfield as operators on a sequence of bytes, a byte as the set of its one bits |
| `PeerMessages` (extends it) | the receiving thread, a processing thread per packet, the watchdog's queries |
| `PeerConnection` | sending thread, receiving thread, watchdog and remote peer of one connection, over the unlocked status |
| `DLinkedList`, `DLinkedMap` | the list with its elements at addresses, and the map on top of it, as operators on records |
| `ElementSequence`, `KeyedValues` | the abstract sequence and the abstract map: what each call returns and how it changes them |
| `Containers` | a caller that makes any sequence of calls of a list or a map; refines the two above |
| `Bencode` | the reader of bencoded documents as recursive operators, and an encoder as the reference |
| `UdpTracker` (extends `DLinkedList`) | conversations, the network between client and tracker, a thread per datagram, the tracker watchdog |
| `PeerFeed` | the turns of the loop that reads the file of peers |
| `PeerSources` (extends `UdpTracker`, instantiates `PeerFeed`) | the mode on the command line, and the queue both sources push to |
| `PieceSizeGuessProofs`, `ConcurrentQueueProofs`, `PeerMessagesProofs`, `PeerConnectionProofs` | the theorems about the module they are named after |
| `PieceDownloadProofs` | the theorems about `PieceTracker`, and on top of them those about `PieceDownload` |
| `DLinkedListProofs`, `ContainersProofs` | lemmas about the list's operators, and the theorems about lists and maps |
| `PeerSourcesProofs` (extends `DLinkedListProofs`) | the theorems about the UDP tracker and the peer feed, as `PeerSources` composes them |
| `MC...` | bounds for TLC |

The variables keep the names of the fields, the actions those of the functions
or of the step of the function they are. A program counter (`swarmPc`,
`senderPc`, ...) has a value for each point at which the thread holds no lock
and another thread's step can matter. A critical section is one action; only the
loop in which the tracker watchdog collects its conversations is one action per
turn, and `watchdog = "draining"` stands for the mutex it holds meanwhile, which
a processing thread waits for. The
list of pieces is a function from index to piece; the fillment array is the set
of the blocks marked 1, and a callback that compares elements is the set it
accepts. What a condition variable does is two sets, the threads
that wait and those released, with spurious wakeups. Uninitialised and freed
memory reads are nondeterministic (`ReadPastEnd`, `FulfilmentRead`). The dump file
is a function from offsets to bytes, with the file's position beside it
(`fileOffset`): a block whose seek fails is written at that position.
Operators named `Mutant...` are deliberate slips of the definition after them,
kept to show that each property fails when the code is wrong.

## Runs

| Run | What it shows | Bounds |
|---|---|---|
| `monitors` | two objects that threads share, one at a time. The piece tracker: counters, statuses, sizes and wishes. A peer: bitfield, block queue and the number of pieces taken from it, under every order of processing threads | 3 pieces of 1 to 4 blocks, 2 exporters; 5 conversations of 2 to 4 packets, two-byte bitfields |
| `download` | the two watchdogs on one tracker: file contents under failed seeks and short writes, early COMPLETE, stability of the exported piece, and that the swarm's calls stay within `TrackerSpec` | 2 pieces of 2 blocks of 1 or 2 bytes, 1 peer, 1 block whose writing fails |
| `download_live` | every advertised piece is filled | same, peer always connected |
| `guess` | the confirmed size against the peers' answers, no size skipped | 2 peers, 5 values of the counter, torrents two sizes below the first guess |
| `export` (violation) | a full piece is not always exported | as `download` |
| `queue` | the list is a FIFO queue, no lost wakeup, all items popped | 2 items, 3 addresses, one thread of each kind |
| `query` (violation) | the mutex of an empty bitfield stays locked | the conversations of `monitors` |
| `highest` (violation) | the highest piece of a bitfield is counted from one, not an index | same |
| `connection` | the two threads of a connection, with a remote peer that may close it or read no more | 2 requests, 2 messages of the peer |
| `connection_read` (violation) | a connected socket is not always read | 1 request, 1 message |
| `libraries` | the list is a sequence and its chain intact, the map holds one value per key, documents read back | 2 data values, 4 addresses, documents nested twice |
| `sources` | the queue of peers holds what the source says, once; replies have one owner; what kills the process; processed answers are acted on | files of up to 3 lines, 1 announce of up to 3 peers, room for 2 of them in the receive buffer, 1 datagram that comes twice or answers no request, 1 spurious wakeup, any loss |

Why the bounds are enough. Two pieces make one that is written while the other
is filled; two blocks make a piece that is partly filled and a wish with a
range. With one peer the swarm's turn has one visit; an answer that comes late
or again stands for those of other peers, as the tracker does not know who sent
a block. Blocks of two bytes stand for 16 KiB: only multiples and remainders
matter. Three exporters' states (waiting, woken, away) occur with two exporters.
A queue of three addresses has a first, a middle and a last item. Two-byte
bitfields show byte 0, a later byte and a byte that is appended. After two
requests the sending loop repeats itself. Guessing starts two sizes above the
torrent's, so that two guesses fail at least, and the counter has one value more
than the shift has defined sizes, so that it wraps into an undefined one.

Four addresses give a list of a first, two middle and a last element, and two
data values make the same element occur twice in it. They are interchangeable:
the properties of `libraries` name no particular one, so its symmetry is sound.
The files of `sources` have lines that fill `MaxLineLen` and lines so short that
the next one is read with them, ended by LF, by CRLF, by two LF or by the end of
the file; two files have a line without a colon or without an address, of which
`PushedPeersMatchSource` says nothing (its premise `HasPeers`). A tracker client makes two conversations, CONNECT and one ANNOUNCE, for
which two addresses are enough; one fault of the network (a repetition or a
stray) and one spurious wakeup already reach every state that a single fault
leads to. A list of three peers does not fit `MaxPeersReceived`, one of one peer
does. In `download` one block's seek or write fails (`MaxDiskFaults`): a failed
seek puts the block on the bytes of another, and the seeks after it find their
places again. `TorrentIDs` has 0, which is the
identifier CONNECT uses, and another value: the field is never initialised.

`MaxPieces`, `MaxRequests` and `MaxMessages` bound what peers advertise, what
the watchdog queues and what the remote sends, `MaxNetworkFaults` (copies and
strays together) and `MaxSpurious` the faults of `sources`, `MaxDiskFaults` those of
`download`; the number of items in the queue is bounded by its `Nodes`. No run
replaces a definition. Deadlock is checked in
`guess`, the download runs and `queue`, whose threads never stop; the
others do stop (a connection ends, a conversation is over, addresses are used
up, a file is read, a reply is lost).

Fairness. The watchdogs loop for ever and threads are scheduled, so their steps
are weakly fair; connect() returns, as the kernel gives up in the end, but
nothing makes write() return when the remote peer keeps the connection open and
reads no more (`WriteMayHang`), and then the sending thread is owed no step. In
`download_live` blocks asked for again and again are answered in the end
(strong fairness of `DrainPiece`), and the ten seconds of a wish pass while the
swarm watchdog loops (`RenewWish`). The first of these is an assumption about the
peers together: somebody has every piece of the count. As the count is one too
many (see below), no peer has its last piece, and a real download does not get to
COMPLETE; what `EveryPieceFills` says is that the bookkeeping never is the reason.
Nothing is assumed of spurious wakeups, of
remote peers in `PeerConnection` (they may be silent, close the connection or
stop reading at any time), or of which of
several waiting threads a signal releases. In `queue` only the pops are fair,
in `sources` only the tracker watchdog's thread (`RunWatchdog`): a datagram may be
lost, and nothing is owed by the network.

## What the checks found

* `consumeExportPieceIfAny` waits before it looks (piecetracker.c:353): a piece
  that fills while the disk watchdog writes stays FULL, the last one for ever.
* `getHighestBitfieldPiece` leaves the mutex locked when the bitfield is empty
  (tcppeer.c:126): the swarm watchdog blocks at its second query of a peer
  that is connected and has sent no bitfield.
* `getHighestBitfieldPiece` is said to return the index of the highest piece, from
  zero (tcppeer.h:69-73), and the swarm watchdog adds one to make a count of it
  (watchdog_peerswarm.c:253); but it counts from one (tcppeer.c:140). Of a peer with
  the pieces 0 to 8 it returns 9, and the count becomes 10. When nothing is
  found it returns 0, and the count becomes 1.
* a receiving thread that runs while the sending thread connects gives up, or
  waits after the only signal (tcpswarm_comm.c:173): the connection is written
  to and never read.

Seen while modelling, and part of the models: `isWishFulfilled` may read an
array the disk watchdog has freed (piecetracker.c:305 after watchdog_diskio.c:76;
the outcome is `FulfilmentRead`, either way); `getHighestBitfieldPiece` also skips
byte 0, and of the byte it stops at it takes the lowest piece
(tcppeer.c:131-149). `RecordedPiecesAreAdvertised` says what holds of all that: the
count the watchdog takes (`CountTaken`) is 1, or exceeds by exactly one the number
up to some piece that the peer advertised. An `lseek` that fails
is reported and the block written all the same, at the position where the last
write ended (watchdog_diskio.c:56-63): on the bytes of another block, if that is where
it is.

What holds and is less than one would wish, as the properties say: an answer to
a probe that comes after its 15 s confirms a smaller size than the torrent's
(the premise `~late`, watchdog_peerswarm.c:139), and never a larger one; a
torrent with a short last block never completes, as `ingestSwarmBlock` refuses
the block (piecetracker.c:191); a failed or short write is not repeated, so that
`UsedPiecesOnDisk` excepts those blocks (`failedWrites`) and the bytes that a write
after a failed seek landed on (`stray`); the queue of a connection is not
drained once a write() hangs; COMPLETE
may precede the last write; a dead connection takes one more packet; when
`socket()` fails for the handshake, the connection starts without one; a HAVE
may be overwritten by an earlier BITFIELD whose thread runs later.

Of the UDP tracker: a reply processed while the tracker watchdog is not waiting
is never acted on (the premise `missed` of `AnswersAreActedOn`,
watchdog_udptracker.c:75), and nothing is sent again after a loss. A datagram
is cut at 1500 bytes (udptracker_comm.c:17), so that of a list of more than 246 peers
only the first 246 are pushed (`Fit`, `MaxPeersReceived`). The process is
killed by a reply without a conversation, as a repeated one is, or a datagram
of anybody that answers no request, as the sender is not looked at
(udptracker.c:183, udptracker_comm.c:54); by an ERROR reply, whose data is NULL
(udptracker_proto.c:265); and it may be by a wakeup before the ANNOUNCE was
answered, after which the watchdog destroys a reply that was never stored
(watchdog_udptracker.c:125). `CrashesOnlyAfterFault` says that nothing else does,
on one assumption that the code does not check: the tracker is honest, that
is, what bears a request's transaction id is a whole answer of its type or an
ERROR, and a stray is whole and of a known action. A datagram shorter than its
headers (udptracker_proto.c:197), one of an unknown action (:129-153) or a failed
recvfrom makes the code use memory that was never written, and is not modelled.

Of the peer feed: a line so short that the next one's colon is in the same chunk
takes the port of the next line; an empty line or CRLF at the end of the file
makes `atoi` read NULL; a last line without a newline is lost. A readable file
(`IsReadable`) has none of these and is read completely. Of any file of peers
(`HasPeers`) the addresses that are pushed are those of its first lines, in
order, and all of them when the function returns 1; only the ports may be wrong.
`PushedPeersMatchSource` states the three.

Of the libraries: after the last element is deleted, `endElement` points to it,
and the next element inserted keeps it as its predecessor (dlinkedlist.c:50,
135); `ChainIsIntact` says which pointers may be stale, and that none of them
is followed. The bencode reader skips a key that is not a string without its
value, and at the top level a stray end or separator consumes nothing.

## Proofs

A proof module extends the module it is about. Each has one inductive invariant
(or two), made of named parts, a lemma per action, and theorems that take the
properties of the runs from it. The theorems hold for every value of the
constants that satisfies the modules' ASSUMEs.

`PieceDownloadProofs`, first about the tracker alone (`PieceTracker`), for every
number of pieces, size and set of exporters that satisfies `SizesAssumption` (a
positive block length, and piece sizes that are multiples of it):

* the inductive invariant `TrackerInv`: `TrackerTypeOK`, `CountersAgree`,
  `StatusMatchesFillment` and `OperationalMatchesSizes` together with what they
  need. Statuses need the counters (FULL is decided by `filledBlocks`), the
  counters need the finite fillments, and the bounds on the pieces need that
  none is made before the sizes are known. The ingestion of a block and the
  export of a piece are the cases with content;
* the step property `PiecesOnlyGrow` from that invariant;
* `WishNamesMissingBlocks`: that the least and the greatest empty block of an open
  piece exist and that the pieces in the list which are FULL or USED are
  as many as advertised only when none is open.

and about the download, for any peers, pieces and blocks, on top of `TrackerInv`:

* `UsesTrackerProperly`: every step of the two watchdogs is a step of
  `TrackerSpec` or leaves the tracker alone, so that what is proved of the tracker
  holds of the download. `CallsInv` is what the swarm's calls need: a wish
  and what a peer may still answer name blocks that exist of pieces that
  were advertised, however old they are, since the piece count only grows;
* `UsedPiecesOnDisk`: `DumpInv` says it for every byte of the file, also those of
  pieces not made yet. A write at its place changes bytes of one block, as
  places are injective (`DivisionByBlocks` and the lemmas after it are the
  arithmetic); a write after a failed seek changes any, and all of them are in
  `stray`. It is proved for any number of such faults;
* `CompleteMeansExported` and `ExportedPieceIsStable`: `DiskInv` says that the USED
  pieces are the freed ones and the one the disk thread holds. The step property
  then follows from `PiecesOnlyGrow`'s fact that a USED piece does not change.

`PeerConnectionProofs`, for any number of requests and messages: the five
safety properties of the connection. The status has no lock, so the invariant
ties each value to the points where the threads can be (`StatusInv`). It says where the
handshake is until something is written (`FirstPacketInv`: still to be queued,
first in the queue, in the sender's hands, or given up in ERROR), that a request
exists only after the peer's handshake was read (`GreetingInv`), and that a sending
thread still in its pop has taken nothing from a dead connection (`DeathInv`).

`PeerMessagesProofs`, for any conversation a peer may send: the four invariants
of `PeerMessages` that `monitors` checks. `StreamAssumption` says what a peer sends: packets of the ten kinds, a
HAVE with one piece, at most one BITFIELD, with a piece in it. Nothing is
assumed of the order of the threads. The lemmas are about `TcpPeer`: setting a bit
or a byte changes no other piece's bit, and what the scan returns is 0 or, less
one, a piece whose bit is set. `ThreadInv` counts the bytes that a BITFIELD's thread has stored; `BitfieldInv`
is the upper and the lower bound of the bitfield in terms of it.

`ConcurrentQueueProofs`, for any threads, items and addresses:

* `EveryItemHasATaker` (a push adds an item and moves one waiting thread to the
  released ones; a pop removes one of each; a thread waits only at count
  zero), and that a lone count-then-pop thread never waits, the way
  `peerIngestionQueue` is used;
* `ListIsWellFormed`: `ChainInv` says that the i-th successor of `rootItem`, for i below
  the count, runs through the allocated nodes, each once, and ends at
  `lastItem`. A push extends the chain, a pop shifts it by one;
* `IsFifo`: with the chain, what the list reads grows by `Append` and shrinks by
  `Tail`, so each step maps to a step of `FifoQueue` or to a stutter.

`PieceSizeGuessProofs`, for any peers, any width of the counter and any
starting size: the types, that the confirmed size was answered unless an answer
came late, that no size is skipped, and that the confirmed size is not too large.
The invariant adds that the current size was probed outside GUESS mode, and that
while no answer came late a mark stands for the current size: a size is given up
only when nobody is marked. `ValidInv` is the one for the size: until the counter
wraps the guesses only decrease, a peer answers only probes within the
torrent's first piece, and so whatever answer made a mark, and however late,
bounds the current guess. That powers of two grow is proved in the module
(`PowersGrow`), by counting subsets.

`DLinkedListProofs` and `ContainersProofs`, for any data and addresses:

* `DLinkedListProofs` has lemmas about the operators only. `IsChain` relates a list to the
  sequence of its addresses, with the two pointers that may be stale; walking a
  chain gives that sequence; an insertion appends to it; unlinking position k
  takes its k-th element out, in the four cases of the code (only, first, last,
  inner); the searches stop at the first match; `Destroy` empties it;
* `ListInv` and, from it, `ChainIsIntact` and the refinement `IsSequence`: each call
  changes the sequence of data, and returns, as `ElementSequence` says;
* `MapInv` (the list points to every entry once, and no key has two entries)
  and the refinement `IsMapping`. `put` keeps it because it searches first;
  `remove` because the element with the entry's address is the only one.

They speak of `ListSpec` and `MapSpec`, a caller of one list or one map; `libraries` runs
both, and the bencode reader, side by side in `LibrariesSpec`.

`PeerSourcesProofs`, under `SourcesSpec`: for any answers and announced lists of an
honest tracker, any room in the receive buffer, any
addresses malloc may return and any numbers of copies, strays and spurious
wakeups, and for any files and any `MaxLineLen`. `SourcesInv` is `TrackerInv` in tracker mode,
and `FeedInv` in file mode:

* the tracker. None of its properties is inductive alone: that a late reply finds
  no conversation depends on where every message of its transaction is. `ListInv`
  says that there is at most one conversation, CONNECT's until the connection id
  came and ANNOUNCE's afterwards (`PhasesInv`), so that a search finds it or
  none. `OnceInv`: unless a datagram came twice, a transaction id is in one place
  only, in the queue, on its way to the tracker or back, or with a processing
  thread. A stray has the id of no request and never finds a conversation
  (`StrayOK`, `NoStray`). `OwnersInv` and `FaultInv`: a finished conversation has its kept reply,
  and unless there was a fault, the conversation of a message under way has not
  finished and the watchdog only collects finished ones. From these follow
  `TrackerTypeOK`, `RepliesAreOwnedOnce`, `CrashesOnlyAfterFault` and that the list
  of one announce is pushed, once and as far as it was received. The list of conversations is a list
  of `DLinkedListProofs`;
* the peer feed. `FeedInv` says where a turn can start (`AtLine`: before a line,
  before a newline character that ends the reading, or behind all) and that the
  queue has as many peers as lines start before that place, each with the address,
  and in a readable file the port, of the line of its number. A turn is one of four:
  it ends the loop (`TurnEnds`: no line is left), reads a line and goes on at the
  next (`TurnReads`, `PeerInBuffer`, `PortIsOwn`), meets a last line without a
  newline (`TurnAtLastLine`) or a newline where a line could start
  (`TurnAtNewLine`). The lemmas before them are about the operators: what a line, a
  chunk and a buffer hold, where the searches stop, and that atoi ends at the NUL
  behind the line. `LineIsNumbered` counts the lines. What atoi makes of the digits
  is the same fold on both sides, and is not unfolded.

Where a proof needs induction (the chains and walks, the highest set bit, powers
of two), it is on a set of numbers, with the library's fact that < is well
founded (`NatSetInduction`, `LastExists`). It proves what these functions are on a
chain, an interval or a number that the invariant describes.

Only model-checked:

* liveness (`EveryItemIsPopped`, `EveryPieceFills`, `QueueIsDrained`,
  `AnswersAreActedOn`): it rests on ENABLED under fairness, which is out of
  the prover's reach;
* `DocumentReadsBack`: the reader follows a document to any depth, which the operators
  write as RECURSIVE; what it computes for all documents needs induction over them.

## Not modelled

* bytes, formatting and parsing of packets, logging, memory that is leaked; in
  particular, of the UDP tracker, datagrams shorter than their headers, of an
  unknown action or with a forged transaction id, and a failed recvfrom (the
  assumption of an honest tracker, in the header of `UdpTracker`);
* peers that send other than well-formed packets (`StreamAssumption`);
* failure of `pthread_create`, `malloc` and `open`; SIGPIPE, which ends the
  process when a peer closes its socket before a write;
* the global counter `alive` of conpool_executor.c, which nothing reads, and the
  third slot written to a bundle of two (conpool_executor.c:51-54);
* piece sizes below a block in the tracker, for which the shift in setPieceSize is
  undefined (`PieceSizeGuess` guesses them, and stops at the confirmation);
* `swarm_broadcast`, `swarm_unchokePeer` and the destruction of pools and queues,
  which the program does not call; the demos;
* the list of peers of `swarm.c` under several threads: only the swarm watchdog's
  thread reaches it, so the mutex has no second user, and its list is the one of
  `Containers`;
* `TorrentInfo`, which is a record of strings, and SCRAPE, which the code declares
  and never sends; the look-up of the tracker's address;
* a file of peers that cannot be opened: its size is then -1 as a `size_t`.

## Plan

Done: every component that is listed as modelled or partly modelled, with its
runs; and the proofs of all invariants and step properties that the runs check,
but for `DocumentReadsBack`.

Left: liveness and `DocumentReadsBack` stay with TLC for the reasons above. Worth
modelling next are pieces smaller than a block and the short last block of a
torrent in `PieceTracker`, once the code handles them, and `swarm_broadcast`, once
it is called.

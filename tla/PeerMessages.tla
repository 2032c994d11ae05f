---------------------------- MODULE PeerMessages ----------------------------
(***************************************************************************)
(* What becomes of the messages of one connected peer (tcpswarm_proto.c).  *)
(* The receiving thread starts a detached thread for every packet it reads *)
(* (conpool_executor.c), so packets are processed in any order and at the  *)
(* same time.  A processing thread marks the packet's type in              *)
(* packetsReceivedBitfield, without a lock, in two steps, and then handles *)
(* it; a BITFIELD is stored byte by byte, each under bitfieldMutex.        *)
(* Meanwhile the swarm watchdog asks for the highest piece and drains the  *)
(* queue of blocks.                                                        *)
(*                                                                         *)
(* The peer is honest: a packet is a record of its type ID and its content;*)
(* it sends at most one bitfield, and its packets in the order of stream.  *)
(***************************************************************************)
EXTENDS TcpPeer, Sequences

CONSTANT Streams    \* the packet sequences a peer may send, as a set

\* The packet types; a keep-alive has no type byte, as its size is 0.
KEEP_ALIVE_ID == -1
CHOKE_ID == 0
UNCHOKE_ID == 1
INTERESTED_ID == 2
NOT_INTERESTED_ID == 3
HAVE_ID == 4
BITFIELD_ID == 5
PIECE_ID == 7
CANCEL_ID == 8

\* A HAVE names one piece; a BITFIELD is sent once at most, and by a peer that
\* has a piece.
ASSUME StreamAssumption ==
    \A s \in Streams :
        /\ s \in Seq([id : -1 .. 9, content : SUBSET Nat])
        /\ \A k \in DOMAIN s :
               /\ s[k].id = HAVE_ID => \E piece \in s[k].content : s[k].content = {piece}
               /\ s[k].id = BITFIELD_ID => \E last \in s[k].content :
                                              \A piece \in s[k].content : piece <= last
        /\ \A j, k \in DOMAIN s :
               s[j].id = BITFIELD_ID /\ s[k].id = BITFIELD_ID => j = k

VARIABLES
    stream,             \* what the peer sends, fixed
    received,           \* how many packets the receiving thread has read
    pc,                 \* per packet, where its processing thread is
    seen,               \* the value of packetsReceivedBitfield it read
    nextByte,           \* the byte of its BITFIELD it stores next
    packetsReceivedBitfield,
    peerChoking, peerInterested,
    peerBitfield,
    bitfieldMutex,      \* "free", or "watchdog" when left locked
    peerIncomingBlockData,
    watchdogPc,         \* "idle", or "query" inside getHighestBitfieldPiece
    highest,            \* what the last call returned
    drained             \* history: the packets whose block was drained

threadVars == <<pc, seen, nextByte>>
peerVars == <<packetsReceivedBitfield, peerChoking, peerInterested>>
bitfieldVars == <<peerBitfield, bitfieldMutex>>
blockVars == <<peerIncomingBlockData, drained>>
watchdogVars == <<watchdogPc, highest>>
mvars == <<stream, received, threadVars, peerVars, bitfieldVars, blockVars,
           watchdogVars>>

Packets == DOMAIN stream

MessagesInit ==
    /\ stream \in Streams
    /\ received = 0
    /\ pc = [k \in Packets |-> "unread"]
    /\ seen = [k \in Packets |-> {}]
    /\ nextByte = [k \in Packets |-> 0]
    /\ packetsReceivedBitfield = {}
    /\ peerChoking = TRUE
    /\ peerInterested = FALSE
    /\ peerBitfield = [i \in {} |-> {}]
    /\ bitfieldMutex = "free"
    /\ peerIncomingBlockData = <<>>
    /\ watchdogPc = "idle" /\ highest = 0
    /\ drained = {}

\* The receiving thread reads the next packet and starts its thread.
ReceivePacket ==
    /\ received < Len(stream)
    /\ received' = received + 1
    /\ pc' = [pc EXCEPT ![received + 1] = "read"]
    /\ UNCHANGED <<stream, seen, nextByte, peerVars, bitfieldVars, blockVars,
                   watchdogVars>>

\* Operators named Mutant... are slips of the definition that follows.
MutantMask(id) == {id}

\* packetsReceivedBitfield |= mask: the read, and the write.  The mask is a
\* uint8_t, so the bit of an ID above 7 is shifted out of it.
Mask(id) == IF id < 8 THEN {id} ELSE {}

ReadSeen(k) ==
    /\ pc[k] = "read" /\ stream[k].id # KEEP_ALIVE_ID
    /\ seen' = [seen EXCEPT ![k] = packetsReceivedBitfield]
    /\ pc' = [pc EXCEPT ![k] = "mark"]
    /\ UNCHANGED <<stream, received, nextByte, peerVars, bitfieldVars,
                   blockVars, watchdogVars>>

WriteSeen(k) ==
    /\ pc[k] = "mark"
    /\ packetsReceivedBitfield' = seen[k] \cup Mask(stream[k].id)
    /\ seen' = [seen EXCEPT ![k] = {}]
    /\ pc' = [pc EXCEPT ![k] = "handle"]
    /\ UNCHANGED <<stream, received, nextByte, peerChoking, peerInterested,
                   bitfieldVars, blockVars, watchdogVars>>

Finish(k) == /\ pc' = [pc EXCEPT ![k] = "done"]
             /\ UNCHANGED <<stream, received, seen, nextByte, watchdogVars>>

IgnoreKeepAlive(k) ==
    /\ pc[k] = "read" /\ stream[k].id = KEEP_ALIVE_ID
    /\ Finish(k)
    /\ UNCHANGED <<peerVars, bitfieldVars, blockVars>>

HandleChoke(k) ==
    /\ pc[k] = "handle" /\ stream[k].id \in {CHOKE_ID, UNCHOKE_ID}
    /\ peerChoking' = (stream[k].id = CHOKE_ID)
    /\ Finish(k)
    /\ UNCHANGED <<packetsReceivedBitfield, peerInterested, bitfieldVars,
                   blockVars>>

HandleInterest(k) ==
    /\ pc[k] = "handle" /\ stream[k].id \in {INTERESTED_ID, NOT_INTERESTED_ID}
    /\ peerInterested' = (stream[k].id = INTERESTED_ID)
    /\ Finish(k)
    /\ UNCHANGED <<packetsReceivedBitfield, peerChoking, bitfieldVars, blockVars>>

\* The piece of a HAVE is the one element of its content.
HandleHave(k) ==
    /\ pc[k] = "handle" /\ stream[k].id = HAVE_ID
    /\ bitfieldMutex = "free"
    /\ \E piece \in stream[k].content :
           peerBitfield' = SetPiece(peerBitfield, piece)
    /\ Finish(k)
    /\ UNCHANGED <<peerVars, bitfieldMutex, blockVars>>

\* The bytes of a BITFIELD packet with the given pieces.
PacketBytes(pieces) ==
    LET last == CHOOSE p \in pieces : \A q \in pieces : q <= p
    IN  [i \in 0 .. ByteOf(last) |-> {b \in Bits :
             \E p \in pieces : ByteOf(p) = i /\ BitOf(p) = b}]

StoreBitfieldByte(k) ==
    LET bytes == PacketBytes(stream[k].content)
    IN  /\ pc[k] = "handle" /\ stream[k].id = BITFIELD_ID
        /\ nextByte[k] \in DOMAIN bytes
        /\ bitfieldMutex = "free"
        /\ peerBitfield' = SetBitfieldByte(peerBitfield, nextByte[k],
                                           bytes[nextByte[k]])
        /\ nextByte' = [nextByte EXCEPT ![k] = @ + 1]
        /\ UNCHANGED <<stream, received, pc, seen, peerVars, bitfieldMutex,
                       blockVars, watchdogVars>>

BitfieldStored(k) ==
    /\ pc[k] = "handle" /\ stream[k].id = BITFIELD_ID
    /\ nextByte[k] = ByteCount(PacketBytes(stream[k].content))
    /\ Finish(k)
    /\ UNCHANGED <<peerVars, bitfieldVars, blockVars>>

\* The block is copied from the packet and queued; its identity is the packet.
HandlePiece(k) ==
    /\ pc[k] = "handle" /\ stream[k].id = PIECE_ID
    /\ peerIncomingBlockData' = Append(peerIncomingBlockData, k)
    /\ Finish(k)
    /\ UNCHANGED <<peerVars, bitfieldVars, drained>>

HandleOther(k) ==
    /\ pc[k] = "handle" /\ stream[k].id \in {6, CANCEL_ID, 9}
    /\ Finish(k)
    /\ UNCHANGED <<peerVars, bitfieldVars, blockVars>>

Handle(k) ==
    \/ IgnoreKeepAlive(k) \/ ReadSeen(k) \/ WriteSeen(k)
    \/ HandleChoke(k) \/ HandleInterest(k) \/ HandleHave(k)
    \/ StoreBitfieldByte(k) \/ BitfieldStored(k)
    \/ HandlePiece(k) \/ HandleOther(k)

\* The watchdog calls getHighestBitfieldPiece and waits for the mutex.
QueryHighest ==
    /\ watchdogPc = "idle"
    /\ watchdogPc' = "query"
    /\ UNCHANGED <<stream, received, threadVars, peerVars, bitfieldVars,
                   blockVars, highest>>

\* With an empty bitfield the call returns without unlocking the mutex.
HighestReturned ==
    /\ watchdogPc = "query"
    /\ bitfieldMutex = "free"
    /\ bitfieldMutex' = IF ByteCount(peerBitfield) = 0 THEN "watchdog"
                                                       ELSE "free"
    /\ highest' = GetHighestBitfieldPiece(peerBitfield)
    /\ watchdogPc' = "idle"
    /\ UNCHANGED <<stream, received, threadVars, peerVars, peerBitfield,
                   blockVars>>

\* The number of pieces the watchdog tells the tracker after its query.
CountTaken == highest + 1

MutantDrainBlock ==
    /\ watchdogPc = "idle"
    /\ peerIncomingBlockData # <<>>
    /\ drained' = drained \cup {Head(peerIncomingBlockData)}
    /\ UNCHANGED <<stream, received, threadVars, peerVars, bitfieldVars,
                   peerIncomingBlockData, watchdogVars>>

DrainBlock ==
    /\ watchdogPc = "idle"
    /\ peerIncomingBlockData # <<>>
    /\ drained' = drained \cup {Head(peerIncomingBlockData)}
    /\ peerIncomingBlockData' = Tail(peerIncomingBlockData)
    /\ UNCHANGED <<stream, received, threadVars, peerVars, bitfieldVars,
                   watchdogVars>>

MessagesNext ==
    \/ ReceivePacket
    \/ \E k \in Packets : Handle(k)
    \/ QueryHighest \/ HighestReturned \/ DrainBlock

MessagesSpec == MessagesInit /\ [][MessagesNext]_mvars

\* Threads run; the watchdog's turns come again and again.
FairMessagesSpec ==
    /\ MessagesSpec
    /\ WF_mvars(ReceivePacket)
    /\ WF_mvars(\E k \in Packets : Handle(k))
    /\ WF_mvars(HighestReturned)
    /\ WF_mvars(DrainBlock)

-----------------------------------------------------------------------------
(* Properties *)

Done(id) == {k \in Packets : stream[k].id = id /\ pc[k] = "done"}
Advertised(ids) == UNION {stream[k].content :
                              k \in {n \in 1 .. received : stream[n].id \in ids}}

\* The peer's fields have their types.
MessagesTypeOK ==
    /\ stream \in Streams /\ received \in 0 .. Len(stream)
    /\ pc \in [Packets -> {"unread", "read", "mark", "handle", "done"}]
    /\ seen \in [Packets -> SUBSET (0 .. 7)]
    /\ packetsReceivedBitfield \subseteq 0 .. 7
    /\ peerChoking \in BOOLEAN /\ peerInterested \in BOOLEAN
    /\ peerBitfield \in BitfieldsOf(ByteCount(peerBitfield))
    /\ bitfieldMutex \in {"free", "watchdog"}
    /\ peerIncomingBlockData \in Seq(Packets)
    /\ watchdogPc \in {"idle", "query"}

\* However BITFIELD and HAVE interleave, no piece is recorded that the peer did
\* not advertise, and none of a BITFIELD is missing once its thread is done: a
\* HAVE sets its bit beside those of the byte.  (The converse fails: a HAVE
\* whose thread runs before the BITFIELD's is overwritten.)  The scan may miss
\* pieces, and counts from 1 what it finds; the watchdog adds one more.  So the
\* number of pieces it takes from a peer is 1 when nothing was found, and else
\* exceeds by exactly one the number up to some piece that the peer advertised.
RecordedPiecesAreAdvertised ==
    /\ Pieces(peerBitfield) \subseteq Advertised({HAVE_ID, BITFIELD_ID})
    /\ \A k \in Done(BITFIELD_ID) : stream[k].content \subseteq Pieces(peerBitfield)
    /\ \/ CountTaken = 1
       \/ \E piece \in Advertised({HAVE_ID, BITFIELD_ID}) :
              CountTaken = (piece + 1) + 1

\* tcppeer.h:69, "the highest piece index which this peer advertises to have";
\* watchdog_peerswarm.c:253 takes it for one, "Add one, because the query
\* returns an index, not a count": unless nothing is found, what the query
\* returns is the index of a piece that the peer advertised.
HighestIsAnIndex == highest # 0 => highest \in Advertised({HAVE_ID, BITFIELD_ID})

\* A HAVE is lost only to a BITFIELD that overtook it: every handled HAVE is
\* recorded unless the BITFIELD's thread has stored the byte of its piece, so
\* two HAVEs of one byte, each read, changed and written back, keep both bits.
HavesAreKept ==
    \A k \in Done(HAVE_ID) : \A piece \in stream[k].content :
        \/ HasPiece(peerBitfield, piece)
        \/ \E b \in Packets : /\ stream[b].id = BITFIELD_ID
                             /\ nextByte[b] > ByteOf(piece)

\* Each block that was handled is queued or drained, once.
BlocksAreHandedOnOnce ==
    LET queued == {peerIncomingBlockData[i] : i \in DOMAIN peerIncomingBlockData}
    IN  /\ Cardinality(queued) = Len(peerIncomingBlockData)
        /\ queued \cap drained = {}
        /\ queued \cup drained = Done(PIECE_ID)

\* tcppeer.h:75, "this operation is absolutely THREAD SAFE!": each call
\* of the watchdog returns.
QueryReturns == watchdogPc = "query" ~> watchdogPc = "idle"
=============================================================================

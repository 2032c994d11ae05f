--------------------------- MODULE PeerMessagesProofs ---------------------------
(***************************************************************************)
(* Proofs about the packets of one peer, for every conversation an honest  *)
(* peer may have: what its processing threads, in whatever order they run, *)
(* leave in the bitfield and in the queue of blocks.                       *)
(***************************************************************************)
EXTENDS PeerMessages, FiniteSetTheorems, SequenceTheorems, TLAPS

AllAdvertised == Advertised({HAVE_ID, BITFIELD_ID})

\* Where a thread can be, and how far it has stored its BITFIELD.
ThreadInv ==
    /\ highest \in Nat /\ ByteCount(peerBitfield) \in Nat
    /\ drained \subseteq Packets
    /\ nextByte \in [Packets -> Nat]
    /\ \A k \in Packets :
           /\ pc[k] # "unread" => k <= received
           /\ pc[k] \in {"mark", "handle"} => stream[k].id # KEEP_ALIVE_ID
           /\ nextByte[k] > 0 => k <= received /\ stream[k].id = BITFIELD_ID
           /\ pc[k] = "done" /\ stream[k].id = BITFIELD_ID =>
                  nextByte[k] = ByteCount(PacketBytes(stream[k].content))

\* The bitfield says what was advertised, and all that a BITFIELD's thread has
\* stored; what the watchdog counts up to was advertised.
BitfieldInv ==
    /\ \A p \in Nat : HasPiece(peerBitfield, p) => p \in AllAdvertised
    /\ \A k \in Packets : stream[k].id = BITFIELD_ID =>
           \A p \in stream[k].content :
               ByteOf(p) < nextByte[k] => HasPiece(peerBitfield, p)
    /\ highest # 0 => highest - 1 \in AllAdvertised

\* No block is twice in the queue, nor there and drained.
Queued(q) == {q[i] : i \in DOMAIN q}
Distinct(q) == \A i, j \in DOMAIN q : q[i] = q[j] => i = j

QueueInv ==
    /\ Distinct(peerIncomingBlockData)
    /\ Queued(peerIncomingBlockData) \cap drained = {}
    /\ Queued(peerIncomingBlockData) \cup drained = Done(PIECE_ID)

MessagesInv ==
    /\ MessagesTypeOK /\ ThreadInv /\ BitfieldInv /\ HavesAreKept /\ QueueInv

-----------------------------------------------------------------------------
(* The bitfield *)

\* The scans for the last byte and for the highest bit are well defined.
LEMMA LastExists ==
    ASSUME NEW n \in Nat, NEW S \in SUBSET (0 .. n), S # {}
    PROVE  \E x \in S : \A y \in S : y <= x
<1> DEFINE less == {ss \in Nat \X Nat : ss[1] < ss[2]}
           T == {n - y : y \in S}
<1>1. T \in SUBSET Nat /\ T # {} /\ \A y \in S : n - y \in T
  <2>1. \A y \in S : n - y \in Nat
    OBVIOUS
  <2>2. \A y \in S : n - y \in T
    OBVIOUS
  <2> QED
    BY <2>1, <2>2
<1>2. IsWellFoundedOn(less, Nat)
  BY NatLessThanWellFounded, Zenon DEF OpToRel
<1>3. PICK t \in T : \A u \in T : ~(<<u, t>> \in less)
  <2> HIDE DEF less, T
  <2> QED
    BY <1>1, <1>2, WFMin
<1>4. \A u \in T : t <= u
  <2> TAKE u \in T
  <2>1. u \in Nat /\ t \in Nat
    BY <1>1
  <2>2. <<u, t>> \in Nat \X Nat /\ <<u, t>>[1] = u /\ <<u, t>>[2] = t
    BY <2>1
  <2>3. <<u, t>> \in less <=> <<u, t>>[1] < <<u, t>>[2]
    BY <2>2, Zenon DEF less
  <2> QED
    BY <1>3, <2>1, <2>2, <2>3
<1>5. PICK x \in S : t = n - x
  OBVIOUS
<1> HIDE DEF T
<1> QED
  BY <1>1, <1>4, <1>5

\* A piece has its byte and its bit, and no two pieces share them.
LEMMA ByteAndBit ==
    ASSUME NEW p \in Nat
    PROVE  /\ ByteOf(p) \in Nat /\ BitOf(p) \in Bits
           /\ p = 8 * ByteOf(p) + (7 - BitOf(p))
BY DEF ByteOf, BitOf, Bits, PIECES_PER_BYTE

\* A bitfield of n bytes is indexed from 0 and counts n bytes.
LEMMA BitfieldCount ==
    ASSUME NEW n \in Nat, NEW bf \in BitfieldsOf(n)
    PROVE  ByteCount(bf) = n /\ DOMAIN bf = 0 .. n - 1
BY FS_Interval DEF ByteCount, BitfieldsOf

\* The pieces listed from the bytes are those whose bit is set.
LEMMA PiecesAreSetBits ==
    ASSUME NEW n \in Nat, NEW bf \in BitfieldsOf(n), NEW p
    PROVE  p \in Pieces(bf) <=> p \in Nat /\ HasPiece(bf, p)
<1>1. ByteCount(bf) = n /\ DOMAIN bf = 0 .. n - 1
  BY BitfieldCount
<1>2. ASSUME p \in Nat, HasPiece(bf, p) PROVE p <= n * 8 - 1
  <2>1. ByteOf(p) \in 0 .. n - 1
    BY <1>1, <1>2 DEF HasPiece
  <2>2. BitOf(p) \in 0 .. 7 /\ p = 8 * ByteOf(p) + (7 - BitOf(p))
    BY <1>2, ByteAndBit DEF Bits, PIECES_PER_BYTE
  <2> QED
    BY <2>1, <2>2
<1> QED
  BY <1>1, <1>2 DEF Pieces, PIECES_PER_BYTE

\* Storing a byte sets and clears the pieces of that byte, and no other.
LEMMA SetByteEffect ==
    ASSUME NEW n \in Nat, NEW bf \in BitfieldsOf(n),
           NEW i \in Nat, NEW byte \in SUBSET Bits
    PROVE  LET new == SetBitfieldByte(bf, i, byte)
           IN  /\ new \in BitfieldsOf(ByteCount(new))
               /\ ByteCount(new) \in Nat
               /\ \A p \in Nat : HasPiece(new, p) <=>
                      IF ByteOf(p) = i THEN BitOf(p) \in byte ELSE HasPiece(bf, p)
<1> DEFINE new == SetBitfieldByte(bf, i, byte)
           m == IF i < n THEN n ELSE i + 1
<1>1. bf \in [0 .. n - 1 -> SUBSET Bits] /\ m \in Nat /\ i \in 0 .. m - 1
  BY DEF BitfieldsOf
<1>2. (DOMAIN bf) \cup (0 .. i) = 0 .. m - 1
  <2>1. DOMAIN bf = 0 .. n - 1
    BY <1>1
  <2>2. CASE i < n
    <3>1. (0 .. n - 1) \cup (0 .. i) = 0 .. n - 1
      BY <2>2
    <3> QED
      BY <2>1, <2>2, <3>1
  <2>3. CASE ~(i < n)
    <3>1. (0 .. n - 1) \cup (0 .. i) = 0 .. (i + 1) - 1
      BY <2>3
    <3> QED
      BY <2>1, <2>3, <3>1
  <2> QED
    BY <2>2, <2>3
<1>3. new = [k \in 0 .. m - 1 |-> IF k = i THEN byte ELSE ByteAt(bf, k)]
  BY <1>2 DEF SetBitfieldByte
<1>4. \A k : ByteAt(bf, k) \in SUBSET Bits
  BY <1>1 DEF ByteAt
<1> HIDE DEF new, m
<1>5. new \in BitfieldsOf(m)
  BY <1>3, <1>4 DEF BitfieldsOf
<1>6. ByteCount(new) = m /\ DOMAIN new = 0 .. m - 1
  BY <1>1, <1>5, BitfieldCount
<1>7. ASSUME NEW p \in Nat
      PROVE  HasPiece(new, p) <=>
                 IF ByteOf(p) = i THEN BitOf(p) \in byte ELSE HasPiece(bf, p)
  <2>1. CASE ByteOf(p) = i
    BY <1>1, <1>3, <2>1 DEF HasPiece
  <2>2. CASE ByteOf(p) # i /\ ByteOf(p) \in DOMAIN bf
    BY <1>2, <1>3, <2>2 DEF HasPiece, ByteAt
  <2>3. CASE ByteOf(p) # i /\ ByteOf(p) \notin DOMAIN bf
    BY <1>3, <2>3 DEF HasPiece, ByteAt
  <2> QED
    BY <2>1, <2>2, <2>3
<1> QED
  BY <1>1, <1>5, <1>6, <1>7 DEF new

\* A HAVE sets one piece and clears none.
LEMMA SetPieceEffect ==
    ASSUME NEW n \in Nat, NEW bf \in BitfieldsOf(n), NEW piece \in Nat
    PROVE  LET new == SetPiece(bf, piece)
           IN  /\ new \in BitfieldsOf(ByteCount(new))
               /\ ByteCount(new) \in Nat
               /\ \A p \in Nat : HasPiece(new, p) <=> p = piece \/ HasPiece(bf, p)
<1> DEFINE byte == ByteAt(bf, ByteOf(piece)) \cup {BitOf(piece)}
           new == SetPiece(bf, piece)
<1>1. ByteOf(piece) \in Nat /\ byte \in SUBSET Bits
  BY ByteAndBit DEF ByteAt, BitfieldsOf
<1>2. /\ new \in BitfieldsOf(ByteCount(new)) /\ ByteCount(new) \in Nat
      /\ \A p \in Nat : HasPiece(new, p) <=>
             IF ByteOf(p) = ByteOf(piece) THEN BitOf(p) \in byte ELSE HasPiece(bf, p)
  BY <1>1, SetByteEffect DEF SetPiece
<1>3. ASSUME NEW p \in Nat PROVE HasPiece(new, p) <=> p = piece \/ HasPiece(bf, p)
  <2>1. ByteOf(p) = ByteOf(piece) /\ BitOf(p) = BitOf(piece) => p = piece
    BY ByteAndBit DEF Bits
  <2>2. ByteOf(p) = ByteOf(piece) =>
            (BitOf(p) \in ByteAt(bf, ByteOf(piece)) <=> HasPiece(bf, p))
    BY DEF ByteAt, HasPiece
  <2> QED
    BY <1>2, <2>1, <2>2
<1> QED
  BY <1>2, <1>3

\* The highest piece is counted from 1, and its bit is set.
LEMMA HighestIsSet ==
    ASSUME NEW n \in Nat, NEW bf \in BitfieldsOf(n)
    PROVE  /\ GetHighestBitfieldPiece(bf) \in Nat
           /\ GetHighestBitfieldPiece(bf) # 0 =>
                  /\ GetHighestBitfieldPiece(bf) - 1 \in Nat
                  /\ HasPiece(bf, GetHighestBitfieldPiece(bf) - 1)
<1> DEFINE nonzero == {i \in DOMAIN bf : i > 0 /\ bf[i] # {}}
           byte == CHOOSE i \in nonzero : \A k \in nonzero : k <= i
           j == CHOOSE b \in bf[byte] : \A k \in bf[byte] : k <= b
<1>1. bf \in [0 .. n - 1 -> SUBSET Bits]
  BY DEF BitfieldsOf
<1>2. CASE nonzero = {}
  BY <1>2 DEF GetHighestBitfieldPiece
<1>3. CASE nonzero # {}
  <2>1. nonzero \in SUBSET (0 .. n)
    BY <1>1
  <2>2. byte \in nonzero
    <3>1. \E i \in nonzero : \A k \in nonzero : k <= i
      BY <1>3, <2>1, LastExists
    <3> QED
      BY <3>1
  <2>3. byte \in 0 .. n - 1 /\ byte > 0 /\ bf[byte] # {} /\ bf[byte] \in SUBSET (0 .. 7)
    <3>1. byte \in DOMAIN bf /\ byte > 0 /\ bf[byte] # {}
      BY <2>2
    <3> HIDE DEF byte
    <3>2. Bits = 0 .. 7
      BY DEF Bits, PIECES_PER_BYTE
    <3> QED
      BY <1>1, <3>1, <3>2
  <2> HIDE DEF byte
  <2>4. j \in bf[byte]
    <3>1. \E b \in bf[byte] : \A k \in bf[byte] : k <= b
      BY <2>3, LastExists
    <3> QED
      BY <3>1
  <2>5. j \in 0 .. 7
    BY <2>3, <2>4
  <2> DEFINE g == byte * 8 + (8 - j)
  <2>6. GetHighestBitfieldPiece(bf) = g
    BY <1>3 DEF GetHighestBitfieldPiece, byte, PIECES_PER_BYTE
  <2> HIDE DEF j
  <2>7. g \in Nat /\ g - 1 \in Nat
    BY <2>3, <2>5
  <2>8. ByteOf(g - 1) = byte /\ BitOf(g - 1) = j
    BY <2>3, <2>5 DEF ByteOf, BitOf, PIECES_PER_BYTE
  <2> HIDE DEF g
  <2>9. HasPiece(bf, g - 1)
    BY <1>1, <2>3, <2>4, <2>8 DEF HasPiece
  <2> QED
    BY <2>6, <2>7, <2>9
<1> QED
  BY <1>2, <1>3

\* The bytes of a BITFIELD hold its pieces.
LEMMA PacketBytesEffect ==
    ASSUME NEW content \in SUBSET Nat,
           \E last \in content : \A p \in content : p <= last
    PROVE  LET bytes == PacketBytes(content)
           IN  /\ ByteCount(bytes) \in Nat
               /\ DOMAIN bytes = 0 .. ByteCount(bytes) - 1
               /\ \A i \in DOMAIN bytes : bytes[i] \in SUBSET Bits
               /\ \A p \in content : ByteOf(p) < ByteCount(bytes)
               /\ \A p \in Nat : ByteOf(p) \in DOMAIN bytes =>
                      (BitOf(p) \in bytes[ByteOf(p)] <=> p \in content)
<1> DEFINE last == CHOOSE p \in content : \A q \in content : q <= p
           bytes == PacketBytes(content)
           m == ByteOf(last) + 1
<1>1. last \in content /\ \A q \in content : q <= last
  OBVIOUS
<1>2. bytes = [i \in 0 .. ByteOf(last) |-> {b \in Bits :
                   \E p \in content : ByteOf(p) = i /\ BitOf(p) = b}]
  BY DEF PacketBytes
<1> HIDE DEF last, bytes
<1>3. ByteOf(last) \in Nat /\ m \in Nat /\ 0 .. ByteOf(last) = 0 .. m - 1
  <2>1. ByteOf(last) \in Nat
    BY <1>1, ByteAndBit
  <2>2. \A n \in Nat : n + 1 \in Nat /\ n = (n + 1) - 1
    OBVIOUS
  <2> QED
    BY <2>1, <2>2
<1> HIDE DEF m
<1>4. bytes \in BitfieldsOf(m)
  BY <1>2, <1>3 DEF BitfieldsOf
<1>5. ByteCount(bytes) = m /\ DOMAIN bytes = 0 .. m - 1
  BY <1>3, <1>4, BitfieldCount
<1>6. \A p \in content : ByteOf(p) < m
  BY <1>1, <1>3 DEF ByteOf, PIECES_PER_BYTE, m
<1>7. ASSUME NEW p \in Nat, ByteOf(p) \in DOMAIN bytes
      PROVE  BitOf(p) \in bytes[ByteOf(p)] <=> p \in content
  <2>1. \A q \in content : ByteOf(q) = ByteOf(p) /\ BitOf(q) = BitOf(p) => q = p
    BY ByteAndBit DEF Bits
  <2>2. BitOf(p) \in Bits
    BY ByteAndBit
  <2>3. BitOf(p) \in bytes[ByteOf(p)] <=>
            \E q \in content : ByteOf(q) = ByteOf(p) /\ BitOf(q) = BitOf(p)
    BY <1>2, <1>7, <2>2
  <2> QED
    BY <2>1, <2>3
<1>8. \A i \in DOMAIN bytes : bytes[i] \in SUBSET Bits
  BY <1>4, <1>5 DEF BitfieldsOf
<1> QED
  BY <1>3, <1>5, <1>6, <1>7, <1>8 DEF bytes

-----------------------------------------------------------------------------
(* The threads *)

\* What an honest peer sends.
LEMMA StreamFacts ==
    ASSUME MessagesTypeOK
    PROVE  /\ Packets = 1 .. Len(stream) /\ Len(stream) \in Nat
           /\ \A k \in Packets :
                  /\ stream[k].id \in -1 .. 9 /\ stream[k].content \in SUBSET Nat
                  /\ stream[k].id = HAVE_ID =>
                         \E piece \in Nat : stream[k].content = {piece}
                  /\ stream[k].id = BITFIELD_ID => \E last \in stream[k].content :
                         \A piece \in stream[k].content : piece <= last
           /\ \A j, k \in Packets :
                  stream[j].id = BITFIELD_ID /\ stream[k].id = BITFIELD_ID => j = k
<1>1. stream \in Streams
  BY DEF MessagesTypeOK
<1>2. stream \in Seq([id : -1 .. 9, content : SUBSET Nat])
  BY <1>1, StreamAssumption
<1>3. /\ Packets = 1 .. Len(stream) /\ Len(stream) \in Nat
      /\ \A k \in Packets : stream[k] \in [id : -1 .. 9, content : SUBSET Nat]
  <2> DEFINE Message == [id : -1 .. 9, content : SUBSET Nat]
  <2>1. stream \in Seq(Message)
    BY <1>2
  <2> HIDE DEF Message
  <2>2. /\ Packets = 1 .. Len(stream) /\ Len(stream) \in Nat
        /\ \A k \in Packets : stream[k] \in Message
    BY <2>1 DEF Packets
  <2> QED
    BY <2>2 DEF Message
<1>4. /\ \A k \in Packets :
             /\ stream[k].id = HAVE_ID =>
                    \E piece \in stream[k].content : stream[k].content = {piece}
             /\ stream[k].id = BITFIELD_ID => \E last \in stream[k].content :
                    \A piece \in stream[k].content : piece <= last
      /\ \A j, k \in Packets :
             stream[j].id = BITFIELD_ID /\ stream[k].id = BITFIELD_ID => j = k
  BY <1>1, StreamAssumption DEF Packets
<1> QED
  BY <1>3, <1>4

\* A queue when a block is appended, and when one is taken.
LEMMA QueueSteps ==
    ASSUME NEW S, NEW q \in Seq(S)
    PROVE  /\ \A x \in S : Append(q, x) \in Seq(S)
           /\ q # <<>> => Head(q) \in S /\ Tail(q) \in Seq(S)
BY AppendProperties, HeadTailProperties

\* What each step does to the bitfield: nothing, a HAVE's piece, or a byte of a
\* BITFIELD.
LEMMA BitfieldEffects ==
    ASSUME MessagesTypeOK, ThreadInv, [MessagesNext]_mvars
    PROVE  \/ UNCHANGED <<peerBitfield, nextByte>>
           \/ \E k \in Packets, piece \in Nat :
                  /\ HandleHave(k) /\ stream[k].content = {piece}
                  /\ peerBitfield' = SetPiece(peerBitfield, piece)
           \/ \E k \in Packets : StoreBitfieldByte(k)
<1>1. ASSUME NEW k \in Packets, HandleHave(k)
      PROVE  \E piece \in Nat : /\ stream[k].content = {piece}
                               /\ peerBitfield' = SetPiece(peerBitfield, piece)
  BY <1>1, StreamFacts DEF HandleHave
<1>2. CASE ReceivePacket \/ QueryHighest \/ HighestReturned \/ DrainBlock
           \/ UNCHANGED mvars
  BY <1>2 DEF ReceivePacket, QueryHighest, HighestReturned, DrainBlock, mvars,
              threadVars, bitfieldVars
<1>3. ASSUME NEW k \in Packets, Handle(k), ~HandleHave(k), ~StoreBitfieldByte(k)
      PROVE  UNCHANGED <<peerBitfield, nextByte>>
  BY <1>3 DEF Handle, IgnoreKeepAlive, ReadSeen, WriteSeen, HandleChoke,
              HandleInterest, BitfieldStored, HandlePiece, HandleOther, Finish,
              bitfieldVars
<1> QED
  BY <1>1, <1>2, <1>3 DEF MessagesNext

\* The bitfield stays a bitfield, byte by byte.
LEMMA BitfieldTypeStep ==
    ASSUME MessagesTypeOK, ThreadInv, [MessagesNext]_mvars
    PROVE  /\ peerBitfield' \in BitfieldsOf(ByteCount(peerBitfield'))
           /\ ByteCount(peerBitfield') \in Nat
<1>0. /\ peerBitfield \in BitfieldsOf(ByteCount(peerBitfield))
      /\ ByteCount(peerBitfield) \in Nat
  BY DEF MessagesTypeOK, ThreadInv
<1>1. CASE UNCHANGED <<peerBitfield, nextByte>>
  BY <1>0, <1>1
<1>2. ASSUME NEW piece \in Nat, peerBitfield' = SetPiece(peerBitfield, piece)
      PROVE  /\ peerBitfield' \in BitfieldsOf(ByteCount(peerBitfield'))
             /\ ByteCount(peerBitfield') \in Nat
  BY <1>0, <1>2, SetPieceEffect
<1>3. ASSUME NEW k \in Packets, StoreBitfieldByte(k)
      PROVE  /\ peerBitfield' \in BitfieldsOf(ByteCount(peerBitfield'))
             /\ ByteCount(peerBitfield') \in Nat
  <2> DEFINE bytes == PacketBytes(stream[k].content)
  <2>1. /\ stream[k].content \in SUBSET Nat
        /\ \E last \in stream[k].content : \A p \in stream[k].content : p <= last
    BY <1>3, StreamFacts DEF StoreBitfieldByte
  <2>2. \A i \in DOMAIN bytes : bytes[i] \in SUBSET Bits
    BY <2>1, PacketBytesEffect
  <2> HIDE DEF bytes
  <2>3. /\ nextByte[k] \in DOMAIN bytes /\ nextByte[k] \in Nat
        /\ peerBitfield' = SetBitfieldByte(peerBitfield, nextByte[k], bytes[nextByte[k]])
    BY <1>3 DEF StoreBitfieldByte, ThreadInv, bytes
  <2> QED
    BY <1>0, <2>2, <2>3, SetByteEffect
<1> QED
  BY <1>1, <1>2, <1>3, BitfieldEffects

\* Every packet's thread goes from one point to the next, and the rest of the
\* peer keeps its types.
LEMMA ThreadStep ==
    ASSUME MessagesTypeOK, ThreadInv, [MessagesNext]_mvars
    PROVE  MessagesTypeOK' /\ ThreadInv'
<1> DEFINE Points == {"unread", "read", "mark", "handle", "done"}
<1>0. /\ peerBitfield' \in BitfieldsOf(ByteCount(peerBitfield'))
      /\ ByteCount(peerBitfield') \in Nat
  BY BitfieldTypeStep
<1>1. /\ Packets = 1 .. Len(stream) /\ Len(stream) \in Nat
      /\ \A k \in Packets : stream[k].id \in -1 .. 9
  BY StreamFacts
<1>2. stream' = stream /\ Packets' = Packets
  BY DEF MessagesNext, ReceivePacket, Handle, IgnoreKeepAlive, ReadSeen, WriteSeen,
         HandleChoke, HandleInterest, HandleHave, StoreBitfieldByte,
         BitfieldStored, HandlePiece, HandleOther, Finish, QueryHighest,
         HighestReturned, DrainBlock, mvars, Packets
<1> USE DEF MessagesTypeOK, ThreadInv
<1>3. ASSUME NEW k \in Packets, pc[k] = "handle", Finish(k), UNCHANGED blockVars,
             stream[k].id = BITFIELD_ID =>
                 nextByte[k] = ByteCount(PacketBytes(stream[k].content)),
             UNCHANGED <<packetsReceivedBitfield, bitfieldMutex>>,
             peerChoking' \in BOOLEAN, peerInterested' \in BOOLEAN
      PROVE  MessagesTypeOK' /\ ThreadInv'
  BY <1>0, <1>1, <1>2, <1>3 DEF Finish, watchdogVars, blockVars
<1>4. CASE ReceivePacket
  <2>1. received + 1 \in Packets /\ received + 1 \in 0 .. Len(stream)
    BY <1>1, <1>4 DEF ReceivePacket
  <2>2. pc' \in [Packets -> Points] /\ \A j \in Packets : j # received + 1 => pc'[j] = pc[j]
    BY <1>4, <2>1 DEF ReceivePacket
  <2>3. pc'[received + 1] = "read"
    BY <1>4, <2>1 DEF ReceivePacket
  <2>4. \A j \in Packets : j <= received => j <= received'
    BY <1>1, <1>4 DEF ReceivePacket
  <2>5. UNCHANGED <<seen, nextByte, peerVars, bitfieldVars, blockVars, watchdogVars>>
        /\ received' = received + 1
    BY <1>4 DEF ReceivePacket
  <2>6. MessagesTypeOK'
    BY <1>0, <1>2, <2>1, <2>2, <2>5 DEF peerVars, bitfieldVars, blockVars, watchdogVars
  <2>7. ThreadInv'
    BY <1>0, <1>1, <1>2, <2>1, <2>2, <2>3, <2>4, <2>5
       DEF peerVars, bitfieldVars, blockVars, watchdogVars
  <2> QED
    BY <2>6, <2>7
<1>5. ASSUME NEW k \in Packets, IgnoreKeepAlive(k)
      PROVE  MessagesTypeOK' /\ ThreadInv'
  BY <1>0, <1>1, <1>2, <1>5
     DEF IgnoreKeepAlive, Finish, peerVars, bitfieldVars, blockVars, watchdogVars,
         KEEP_ALIVE_ID, BITFIELD_ID
<1>6. ASSUME NEW k \in Packets, ReadSeen(k)
      PROVE  MessagesTypeOK' /\ ThreadInv'
  BY <1>0, <1>1, <1>2, <1>6
     DEF ReadSeen, peerVars, bitfieldVars, blockVars, watchdogVars
<1>7. ASSUME NEW k \in Packets, WriteSeen(k)
      PROVE  MessagesTypeOK' /\ ThreadInv'
  <2>1. Mask(stream[k].id) \subseteq 0 .. 7
    <3>1. stream[k].id # KEEP_ALIVE_ID
      BY <1>7 DEF WriteSeen
    <3>2. stream[k].id \in 0 .. 9
      BY <1>1, <3>1 DEF KEEP_ALIVE_ID
    <3> QED
      BY <3>2 DEF Mask
  <2>2. seen[k] \subseteq 0 .. 7 /\ pc[k] = "mark"
    BY <1>7 DEF WriteSeen
  <2>3. packetsReceivedBitfield' \subseteq 0 .. 7
    BY <1>7, <2>1, <2>2 DEF WriteSeen
  <2>4. /\ seen' \in [Packets -> SUBSET (0 .. 7)] /\ pc' \in [Packets -> Points]
        /\ \A j \in Packets : pc'[j] = IF j = k THEN "handle" ELSE pc[j]
    BY <1>7 DEF WriteSeen
  <2>5. UNCHANGED <<received, nextByte, peerChoking, peerInterested, bitfieldVars,
                    blockVars, watchdogVars>>
    BY <1>7 DEF WriteSeen
  <2>6. MessagesTypeOK'
    <3> HIDE DEF ThreadInv
    <3> QED
      BY <1>0, <1>2, <2>3, <2>4, <2>5 DEF bitfieldVars, blockVars, watchdogVars
  <2>7. ThreadInv'
    BY <1>0, <1>2, <2>2, <2>4, <2>5 DEF bitfieldVars, blockVars, watchdogVars
  <2> QED
    BY <2>6, <2>7
<1>8. ASSUME NEW k \in Packets, HandleChoke(k) \/ HandleInterest(k) \/ HandleHave(k)
                                \/ HandleOther(k) \/ BitfieldStored(k)
      PROVE  MessagesTypeOK' /\ ThreadInv'
  <2> USE DEF peerVars, bitfieldVars
  <2>0. peerChoking \in BOOLEAN /\ peerInterested \in BOOLEAN
    OBVIOUS
  <2> HIDE DEF MessagesTypeOK, ThreadInv
  <2>1. CASE HandleChoke(k)
    BY <1>3, <2>0, <2>1 DEF HandleChoke, CHOKE_ID, UNCHOKE_ID, BITFIELD_ID
  <2>2. CASE HandleInterest(k)
    BY <1>3, <2>0, <2>2 DEF HandleInterest, INTERESTED_ID, NOT_INTERESTED_ID, BITFIELD_ID
  <2>3. CASE HandleHave(k)
    BY <1>3, <2>0, <2>3 DEF HandleHave, HAVE_ID, BITFIELD_ID
  <2>4. CASE HandleOther(k)
    BY <1>3, <2>0, <2>4 DEF HandleOther, CANCEL_ID, BITFIELD_ID
  <2>5. CASE BitfieldStored(k)
    BY <1>3, <2>0, <2>5 DEF BitfieldStored
  <2> QED
    BY <1>8, <2>1, <2>2, <2>3, <2>4, <2>5
<1>9. ASSUME NEW k \in Packets, StoreBitfieldByte(k)
      PROVE  MessagesTypeOK' /\ ThreadInv'
  <2>1. /\ pc[k] = "handle" /\ stream[k].id = BITFIELD_ID
        /\ nextByte' = [nextByte EXCEPT ![k] = nextByte[k] + 1]
        /\ UNCHANGED <<received, pc, seen, peerVars, bitfieldMutex, blockVars,
                       watchdogVars>>
    BY <1>9 DEF StoreBitfieldByte
  <2>2. /\ nextByte[k] + 1 \in Nat /\ nextByte' \in [Packets -> Nat]
        /\ \A j \in Packets : nextByte'[j] = IF j = k THEN nextByte[k] + 1
                                                   ELSE nextByte[j]
    BY <2>1
  <2>3. k <= received
    BY <2>1
  <2>4. MessagesTypeOK'
    <3> HIDE DEF ThreadInv
    <3> QED
      BY <1>0, <1>2, <2>1 DEF peerVars, blockVars, watchdogVars
  <2>5. ThreadInv'
    <3> HIDE DEF MessagesTypeOK
    <3> QED
      BY <1>0, <1>2, <2>1, <2>2, <2>3 DEF peerVars, blockVars, watchdogVars
  <2> QED
    BY <2>4, <2>5
<1>10. ASSUME NEW k \in Packets, HandlePiece(k)
       PROVE  MessagesTypeOK' /\ ThreadInv'
  <2>1. peerIncomingBlockData' \in Seq(Packets)
    BY <1>10, QueueSteps DEF HandlePiece
  <2> QED
    BY <1>0, <1>1, <1>2, <1>10, <2>1
       DEF HandlePiece, Finish, peerVars, bitfieldVars, watchdogVars, PIECE_ID,
           BITFIELD_ID
<1>11. CASE QueryHighest
  BY <1>0, <1>1, <1>2, <1>11
     DEF QueryHighest, threadVars, peerVars, bitfieldVars, blockVars
<1>12. CASE HighestReturned
  <2>1. highest' \in Nat
    BY <1>12, HighestIsSet DEF HighestReturned
  <2> QED
    BY <1>0, <1>1, <1>2, <1>12, <2>1
       DEF HighestReturned, threadVars, peerVars, blockVars
<1>13. CASE DrainBlock
  <2>1. /\ peerIncomingBlockData' \in Seq(Packets) /\ drained' \subseteq Packets
    BY <1>13, QueueSteps DEF DrainBlock
  <2> QED
    BY <1>0, <1>1, <1>2, <1>13, <2>1
       DEF DrainBlock, threadVars, peerVars, bitfieldVars, watchdogVars
<1>14. CASE UNCHANGED mvars
  BY <1>0, <1>1, <1>2, <1>14
     DEF mvars, threadVars, peerVars, bitfieldVars, blockVars, watchdogVars
<1> QED
  BY <1>4, <1>5, <1>6, <1>7, <1>8, <1>9, <1>10, <1>11, <1>12, <1>13, <1>14
     DEF MessagesNext, Handle

\* What was sent and received stays so, and a BITFIELD's thread goes forward.
LEMMA Progress ==
    ASSUME MessagesTypeOK, ThreadInv, [MessagesNext]_mvars
    PROVE  /\ stream' = stream /\ Packets' = Packets
           /\ AllAdvertised \subseteq AllAdvertised'
           /\ \A k \in Packets : nextByte[k] <= nextByte'[k]
<1>1. stream' = stream
  BY DEF MessagesNext, ReceivePacket, Handle, IgnoreKeepAlive, ReadSeen, WriteSeen,
         HandleChoke, HandleInterest, HandleHave, StoreBitfieldByte,
         BitfieldStored, HandlePiece, HandleOther, Finish, QueryHighest,
         HighestReturned, DrainBlock, mvars
<1>2. received \in Nat /\ received <= received'
  <2>1. received \in Nat
    BY StreamFacts DEF MessagesTypeOK
  <2>2. received' = received \/ received' = received + 1
    BY DEF MessagesNext, ReceivePacket, Handle, IgnoreKeepAlive, ReadSeen, WriteSeen,
         HandleChoke, HandleInterest, HandleHave, StoreBitfieldByte,
         BitfieldStored, HandlePiece, HandleOther, Finish, QueryHighest,
         HighestReturned, DrainBlock, mvars
  <2> QED
    BY <2>1, <2>2
<1>3. AllAdvertised \subseteq AllAdvertised'
  BY <1>1, <1>2, ThreadStep DEF AllAdvertised, Advertised, MessagesTypeOK
<1>4. \A k \in Packets : nextByte[k] <= nextByte'[k]
  BY BitfieldEffects DEF ThreadInv, HandleHave, Finish, StoreBitfieldByte
<1> QED
  BY <1>1, <1>3, <1>4 DEF Packets

\* A thread that is done stays so; a HAVE and a PIECE are done by being handled.
LEMMA DoneStep ==
    ASSUME MessagesTypeOK, ThreadInv, [MessagesNext]_mvars, NEW j \in Packets
    PROVE  /\ pc[j] = "done" => pc'[j] = "done"
           /\ pc'[j] = "done" /\ pc[j] # "done" =>
                  \/ HandleHave(j) \/ HandlePiece(j)
                  \/ stream[j].id \notin {HAVE_ID, PIECE_ID}
<1> USE DEF MessagesTypeOK
<1>1. CASE ReceivePacket
  <2>1. received + 1 \in Packets /\ ~(received + 1 <= received)
    BY <1>1, StreamFacts DEF ReceivePacket
  <2>2. pc[received + 1] = "unread"
    BY <2>1 DEF ThreadInv
  <2> QED
    BY <1>1, <2>1, <2>2 DEF ReceivePacket
<1>2. CASE QueryHighest \/ HighestReturned \/ DrainBlock \/ UNCHANGED mvars
  BY <1>2 DEF QueryHighest, HighestReturned, DrainBlock, threadVars, mvars
<1>3. ASSUME NEW k \in Packets, StoreBitfieldByte(k) \/ ReadSeen(k) \/ WriteSeen(k)
      PROVE  (pc[j] = "done" => pc'[j] = "done") /\ (pc'[j] = "done" => pc[j] = "done")
  BY <1>3 DEF StoreBitfieldByte, ReadSeen, WriteSeen
<1>4. ASSUME NEW k \in Packets,
             IgnoreKeepAlive(k) \/ HandleChoke(k) \/ HandleInterest(k)
                 \/ BitfieldStored(k) \/ HandleOther(k)
      PROVE  /\ pc[j] = "done" => pc'[j] = "done"
             /\ pc'[j] = "done" /\ pc[j] # "done" =>
                    stream[j].id \notin {HAVE_ID, PIECE_ID}
  <2>1. pc' = [pc EXCEPT ![k] = "done"]
    BY <1>4 DEF IgnoreKeepAlive, HandleChoke, HandleInterest, BitfieldStored,
                HandleOther, Finish
  <2>2. stream[k].id \notin {HAVE_ID, PIECE_ID}
    BY <1>4 DEF IgnoreKeepAlive, HandleChoke, HandleInterest, BitfieldStored,
                HandleOther, HAVE_ID, PIECE_ID, KEEP_ALIVE_ID, CHOKE_ID,
                UNCHOKE_ID, INTERESTED_ID, NOT_INTERESTED_ID, BITFIELD_ID, CANCEL_ID
  <2> QED
    BY <2>1, <2>2
<1>5. ASSUME NEW k \in Packets, HandleHave(k) \/ HandlePiece(k)
      PROVE  /\ pc[j] = "done" => pc'[j] = "done"
             /\ pc'[j] = "done" /\ pc[j] # "done" => j = k
  BY <1>5 DEF HandleHave, HandlePiece, Finish
<1> QED
  BY <1>1, <1>2, <1>3, <1>4, <1>5 DEF MessagesNext, Handle

-----------------------------------------------------------------------------
(* The pieces *)

\* What a thread of a BITFIELD stores.
LEMMA StoreEffect ==
    ASSUME MessagesTypeOK, ThreadInv, NEW k \in Packets, StoreBitfieldByte(k)
    PROVE  /\ stream[k].id = BITFIELD_ID /\ k <= received /\ nextByte[k] \in Nat
           /\ nextByte' = [nextByte EXCEPT ![k] = nextByte[k] + 1]
           /\ \A p \in Nat : HasPiece(peerBitfield', p) <=>
                  IF ByteOf(p) = nextByte[k] THEN p \in stream[k].content
                                             ELSE HasPiece(peerBitfield, p)
<1> DEFINE bytes == PacketBytes(stream[k].content)
           i == nextByte[k]
<1>1. /\ stream[k].id = BITFIELD_ID /\ pc[k] = "handle" /\ i \in DOMAIN bytes
      /\ nextByte' = [nextByte EXCEPT ![k] = i + 1] /\ i \in Nat
      /\ peerBitfield' = SetBitfieldByte(peerBitfield, i, bytes[i])
  BY DEF StoreBitfieldByte, ThreadInv
<1>2. /\ stream[k].content \in SUBSET Nat
      /\ \E last \in stream[k].content : \A p \in stream[k].content : p <= last
  BY <1>1, StreamFacts
<1>3. /\ \A n \in DOMAIN bytes : bytes[n] \in SUBSET Bits
      /\ \A p \in Nat : ByteOf(p) \in DOMAIN bytes =>
             (BitOf(p) \in bytes[ByteOf(p)] <=> p \in stream[k].content)
  BY <1>2, PacketBytesEffect
<1> HIDE DEF bytes, i
<1>4. \A p \in Nat : HasPiece(peerBitfield', p) <=>
          IF ByteOf(p) = i THEN BitOf(p) \in bytes[i] ELSE HasPiece(peerBitfield, p)
  BY <1>1, <1>3, SetByteEffect DEF MessagesTypeOK, ThreadInv
<1>5. k <= received
  BY <1>1 DEF ThreadInv
<1> QED
  BY <1>1, <1>3, <1>4, <1>5 DEF i

\* What the thread of a HAVE does.
LEMMA HaveEffect ==
    ASSUME MessagesTypeOK, ThreadInv, NEW k \in Packets, HandleHave(k)
    PROVE  /\ stream[k].id = HAVE_ID /\ k <= received /\ nextByte' = nextByte
           /\ \E piece \in Nat :
                  /\ stream[k].content = {piece}
                  /\ \A p \in Nat : HasPiece(peerBitfield', p)
                                        <=> p = piece \/ HasPiece(peerBitfield, p)
<1>1. stream[k].id = HAVE_ID /\ pc[k] = "handle" /\ nextByte' = nextByte
  BY DEF HandleHave, Finish
<1>2. PICK piece \in Nat : stream[k].content = {piece}
  BY <1>1, StreamFacts
<1>3. peerBitfield' = SetPiece(peerBitfield, piece)
  BY <1>2 DEF HandleHave
<1>4. \A p \in Nat : HasPiece(peerBitfield', p)
                         <=> p = piece \/ HasPiece(peerBitfield, p)
  BY <1>3, SetPieceEffect DEF MessagesTypeOK, ThreadInv
<1> QED
  BY <1>1, <1>2, <1>4 DEF ThreadInv

\* No step records a piece that was not advertised, or loses one stored.
LEMMA BitfieldStep ==
    ASSUME MessagesTypeOK, ThreadInv, BitfieldInv, [MessagesNext]_mvars
    PROVE  BitfieldInv'
<1> DEFINE Recorded == \A p \in Nat : HasPiece(peerBitfield', p) => p \in AllAdvertised
           Stored == \A k \in Packets : stream[k].id = BITFIELD_ID =>
                         \A p \in stream[k].content :
                             ByteOf(p) < nextByte'[k] => HasPiece(peerBitfield', p)
<1>1. /\ stream' = stream /\ Packets' = Packets
      /\ AllAdvertised \subseteq AllAdvertised'
  BY Progress
<1>2. \A k \in Packets : k <= received /\ stream[k].id \in {HAVE_ID, BITFIELD_ID} =>
          stream[k].content \subseteq AllAdvertised
  BY StreamFacts DEF AllAdvertised, Advertised
<1>3. ASSUME NEW k \in Packets, HandleHave(k) PROVE Recorded /\ Stored
  <2>1. /\ stream[k].id = HAVE_ID /\ k <= received /\ nextByte' = nextByte
    BY <1>3, HaveEffect
  <2>2. PICK piece \in Nat :
             /\ stream[k].content = {piece}
             /\ \A p \in Nat : HasPiece(peerBitfield', p)
                                   <=> p = piece \/ HasPiece(peerBitfield, p)
    BY <1>3, HaveEffect
  <2>3. Recorded
    BY <1>2, <2>1, <2>2 DEF BitfieldInv
  <2>4. Stored
    BY <2>1, <2>2, StreamFacts DEF BitfieldInv
  <2> QED
    BY <2>3, <2>4
<1>4. ASSUME NEW k \in Packets, StoreBitfieldByte(k) PROVE Recorded /\ Stored
  <2>1. /\ stream[k].id = BITFIELD_ID /\ k <= received /\ nextByte[k] \in Nat
        /\ nextByte' = [nextByte EXCEPT ![k] = nextByte[k] + 1]
        /\ \A p \in Nat : HasPiece(peerBitfield', p) <=>
               IF ByteOf(p) = nextByte[k] THEN p \in stream[k].content
                                          ELSE HasPiece(peerBitfield, p)
    BY <1>4, StoreEffect
  <2>2. Recorded
    BY <1>2, <2>1 DEF BitfieldInv
  <2>3. ASSUME NEW p \in stream[k].content, ByteOf(p) < nextByte[k] + 1
        PROVE  HasPiece(peerBitfield', p)
    <3>1. p \in Nat /\ ByteOf(p) \in Nat
      BY StreamFacts, ByteAndBit
    <3>2. CASE ByteOf(p) = nextByte[k]
      BY <2>1, <3>1, <3>2
    <3>3. CASE ByteOf(p) < nextByte[k]
      <4>1. HasPiece(peerBitfield, p)
        BY <2>1, <3>3 DEF BitfieldInv
      <4> QED
        BY <2>1, <3>1, <3>3, <4>1
    <3> QED
      BY <2>1, <2>3, <3>1, <3>2, <3>3
  <2>4. Stored
    <3>1. nextByte'[k] = nextByte[k] + 1
      BY <2>1 DEF ThreadInv
    <3>2. \A j \in Packets : stream[j].id = BITFIELD_ID => j = k
      BY <2>1, StreamFacts
    <3> QED
      BY <2>3, <3>1, <3>2
  <2> QED
    BY <2>2, <2>4
<1>5. Recorded /\ Stored
  <2>1. CASE UNCHANGED <<peerBitfield, nextByte>>
    BY <2>1 DEF BitfieldInv
  <2> QED
    BY <1>3, <1>4, <2>1, BitfieldEffects
<1>6. highest' # 0 => highest' - 1 \in AllAdvertised
  <2>1. CASE HighestReturned
    <3>1. highest' = GetHighestBitfieldPiece(peerBitfield)
      BY <2>1 DEF HighestReturned
    <3>2. GetHighestBitfieldPiece(peerBitfield) # 0 =>
              GetHighestBitfieldPiece(peerBitfield) - 1 \in AllAdvertised
      BY HighestIsSet DEF BitfieldInv, MessagesTypeOK, ThreadInv
    <3> QED
      BY <3>1, <3>2
  <2>2. CASE ~HighestReturned
    <3>1. highest' = highest
      BY <2>2 DEF MessagesNext, ReceivePacket, Handle, IgnoreKeepAlive, ReadSeen,
           WriteSeen, HandleChoke, HandleInterest, HandleHave, StoreBitfieldByte,
           BitfieldStored, HandlePiece, HandleOther, Finish, QueryHighest,
           DrainBlock, mvars, watchdogVars
    <3> QED
      BY <3>1 DEF BitfieldInv
  <2> QED
    BY <2>1, <2>2
<1> QED
  BY <1>1, <1>5, <1>6 DEF BitfieldInv

\* A HAVE's bit is lost to a BITFIELD's byte only.
LEMMA HavesStep ==
    ASSUME MessagesTypeOK, ThreadInv, HavesAreKept, [MessagesNext]_mvars
    PROVE  HavesAreKept'
<1>1. /\ stream' = stream /\ Packets' = Packets
      /\ \A k \in Packets : nextByte[k] <= nextByte'[k]
  BY Progress
<1>2. ASSUME NEW h \in Packets, stream[h].id = HAVE_ID, pc'[h] = "done",
             NEW piece \in stream[h].content
      PROVE  \/ HasPiece(peerBitfield', piece)
             \/ \E b \in Packets : /\ stream[b].id = BITFIELD_ID
                                  /\ nextByte'[b] > ByteOf(piece)
  <2>1. piece \in Nat /\ ByteOf(piece) \in Nat /\ stream[h].content = {piece}
    BY <1>2, StreamFacts, ByteAndBit
  <2>2. CASE pc[h] # "done"
    <3>1. HandleHave(h)
      BY <1>2, <2>2, DoneStep DEF HandlePiece, HAVE_ID, PIECE_ID
    <3> QED
      BY <2>1, <3>1, HaveEffect
  <2>3. CASE pc[h] = "done" /\ ~HasPiece(peerBitfield, piece)
    <3>1. PICK b \in Packets : stream[b].id = BITFIELD_ID /\ nextByte[b] > ByteOf(piece)
      BY <1>2, <2>3 DEF HavesAreKept, Done
    <3>2. nextByte'[b] > ByteOf(piece)
      <4>1. nextByte[b] \in Nat /\ nextByte'[b] \in Nat
        BY <1>1, ThreadStep DEF ThreadInv
      <4> QED
        BY <1>1, <2>1, <3>1, <4>1
    <3> QED
      BY <3>1, <3>2
  <2>4. CASE HasPiece(peerBitfield, piece)
    <3>1. CASE UNCHANGED <<peerBitfield, nextByte>>
      BY <2>4, <3>1
    <3>2. ASSUME NEW k \in Packets, HandleHave(k)
          PROVE  HasPiece(peerBitfield', piece)
      BY <2>1, <2>4, <3>2, HaveEffect
    <3>3. ASSUME NEW k \in Packets, StoreBitfieldByte(k)
          PROVE  \/ HasPiece(peerBitfield', piece)
                 \/ stream[k].id = BITFIELD_ID /\ nextByte'[k] > ByteOf(piece)
      <4>1. /\ stream[k].id = BITFIELD_ID /\ nextByte[k] \in Nat
            /\ nextByte'[k] = nextByte[k] + 1
            /\ HasPiece(peerBitfield', piece) <=>
                   IF ByteOf(piece) = nextByte[k] THEN piece \in stream[k].content
                                                  ELSE HasPiece(peerBitfield, piece)
        BY <2>1, <3>3, StoreEffect DEF ThreadInv
      <4> QED
        BY <2>1, <2>4, <4>1
    <3> QED
      BY <3>1, <3>2, <3>3, BitfieldEffects
  <2> QED
    BY <2>2, <2>3, <2>4
<1> QED
  BY <1>1, <1>2 DEF HavesAreKept, Done

-----------------------------------------------------------------------------
(* The blocks *)

\* A new block joins those of the queue.
LEMMA AppendDistinct ==
    ASSUME NEW S, NEW q \in Seq(S), NEW x \in S
    PROVE  /\ Queued(Append(q, x)) = Queued(q) \cup {x}
           /\ Distinct(q) /\ x \notin Queued(q) => Distinct(Append(q, x))
<1> DEFINE r == Append(q, x)
           n == Len(q)
<1>1. /\ n \in Nat /\ DOMAIN q = 1 .. n /\ DOMAIN r = 1 .. n + 1
      /\ r[n + 1] = x /\ \A i \in 1 .. n : r[i] = q[i]
  BY AppendProperties, LenProperties
<1> HIDE DEF r, n
<1>2. DOMAIN r = (DOMAIN q) \cup {n + 1} /\ n + 1 \notin DOMAIN q
  BY <1>1
<1>3. Queued(r) = Queued(q) \cup {x}
  BY <1>1, <1>2 DEF Queued
<1>4. Distinct(q) /\ x \notin Queued(q) => Distinct(r)
  BY <1>1, <1>2 DEF Queued, Distinct
<1> QED
  BY <1>3, <1>4 DEF r

\* The first block leaves those of the queue.
LEMMA TailDistinct ==
    ASSUME NEW S, NEW q \in Seq(S), q # <<>>, Distinct(q)
    PROVE  /\ Queued(q) = Queued(Tail(q)) \cup {Head(q)}
           /\ Head(q) \notin Queued(Tail(q)) /\ Distinct(Tail(q))
<1> DEFINE r == Tail(q)
           n == Len(q)
<1>1. /\ n \in Nat /\ n > 0 /\ DOMAIN q = 1 .. n /\ DOMAIN r = 1 .. n - 1
      /\ Head(q) = q[1] /\ \A i \in 1 .. n - 1 : r[i] = q[i + 1]
  BY HeadTailProperties, LenProperties, EmptySeq
<1> HIDE DEF r, n
<1>2. \A i \in DOMAIN r : i + 1 \in DOMAIN q /\ i + 1 # 1 /\ r[i] = q[i + 1]
  BY <1>1
<1>3. \A i \in DOMAIN q : i # 1 => i - 1 \in DOMAIN r /\ r[i - 1] = q[i]
  BY <1>1
<1>4. 1 \in DOMAIN q
  BY <1>1
<1>5. Queued(q) = Queued(r) \cup {q[1]} /\ q[1] \notin Queued(r)
  BY <1>2, <1>3, <1>4 DEF Queued, Distinct
<1>6. Distinct(r)
  <2>1. \A i, j \in DOMAIN r : i + 1 = j + 1 => i = j
    BY <1>1
  <2> QED
    BY <1>2, <2>1 DEF Distinct
<1> QED
  BY <1>1, <1>5, <1>6 DEF r

\* A handled PIECE is queued once, and a drained one is not queued again.
LEMMA QueueStep ==
    ASSUME MessagesTypeOK, ThreadInv, QueueInv, [MessagesNext]_mvars
    PROVE  QueueInv'
<1> DEFINE q == peerIncomingBlockData
<1>1. stream' = stream /\ Packets' = Packets
  BY Progress
<1>2. q \in Seq(Packets)
  BY DEF MessagesTypeOK
<1>3. ASSUME NEW k \in Packets, HandlePiece(k) PROVE QueueInv'
  <2>1. /\ pc[k] = "handle" /\ stream[k].id = PIECE_ID /\ q' = Append(q, k)
        /\ drained' = drained /\ pc' = [pc EXCEPT ![k] = "done"]
    BY <1>3 DEF HandlePiece, Finish
  <2>2. Done(PIECE_ID)' = Done(PIECE_ID) \cup {k} /\ k \notin Done(PIECE_ID)
    BY <1>1, <2>1 DEF Done, MessagesTypeOK
  <2>3. Queued(q') = Queued(q) \cup {k} /\ Distinct(q')
    BY <1>2, <2>1, <2>2, AppendDistinct DEF QueueInv
  <2> QED
    BY <2>1, <2>2, <2>3 DEF QueueInv
<1>4. CASE DrainBlock
  <2>1. /\ q # <<>> /\ q' = Tail(q) /\ drained' = drained \cup {Head(q)}
        /\ pc' = pc
    BY <1>4 DEF DrainBlock, threadVars
  <2>2. Done(PIECE_ID)' = Done(PIECE_ID)
    BY <1>1, <2>1 DEF Done
  <2>3. /\ Queued(q) = Queued(q') \cup {Head(q)} /\ Head(q) \notin Queued(q')
        /\ Distinct(q')
    BY <1>2, <2>1, TailDistinct DEF QueueInv
  <2> QED
    BY <2>1, <2>2, <2>3 DEF QueueInv
<1>5. ASSUME ~DrainBlock, \A k \in Packets : ~HandlePiece(k) PROVE QueueInv'
  <2>1. q' = q /\ drained' = drained
    BY <1>5 DEF MessagesNext, ReceivePacket, Handle, IgnoreKeepAlive, ReadSeen,
         WriteSeen, HandleChoke, HandleInterest, HandleHave, StoreBitfieldByte,
         BitfieldStored, HandleOther, QueryHighest, HighestReturned, mvars,
         blockVars
  <2>2. \A j \in Packets : stream[j].id = PIECE_ID =>
            (pc'[j] = "done" <=> pc[j] = "done")
    <3>1. \A j \in Packets : HandleHave(j) => stream[j].id # PIECE_ID
      BY DEF HandleHave, HAVE_ID, PIECE_ID
    <3> QED
      BY <1>5, <3>1, DoneStep
  <2>3. Done(PIECE_ID)' = Done(PIECE_ID)
    BY <1>1, <2>2 DEF Done
  <2> QED
    BY <2>1, <2>3 DEF QueueInv
<1> QED
  BY <1>3, <1>4, <1>5

-----------------------------------------------------------------------------
(* The theorems *)

\* Nothing was read, recorded or queued at first.
LEMMA MessagesInvInit == MessagesInit => MessagesInv
<1> SUFFICES ASSUME MessagesInit PROVE MessagesInv
  OBVIOUS
<1>1. /\ stream \in Streams /\ received = 0 /\ highest = 0 /\ drained = {}
      /\ pc = [k \in Packets |-> "unread"] /\ nextByte = [k \in Packets |-> 0]
      /\ peerBitfield = [i \in {} |-> {}] /\ peerIncomingBlockData = <<>>
  BY DEF MessagesInit
<1>2. ByteCount(peerBitfield) = 0 /\ peerBitfield \in BitfieldsOf(0)
  <2>1. 0 .. 0 - 1 = {}
    OBVIOUS
  <2>2. peerBitfield \in BitfieldsOf(0)
    BY <1>1, <2>1 DEF BitfieldsOf
  <2> QED
    BY <2>2, BitfieldCount
<1>3. Packets = 1 .. Len(stream) /\ Len(stream) \in Nat
  BY <1>1, StreamAssumption, LenProperties DEF Packets
<1>4. MessagesTypeOK
  <2>1. peerIncomingBlockData \in Seq(Packets)
    BY <1>1, EmptySeq
  <2>2. received \in 0 .. Len(stream)
    BY <1>1, <1>3
  <2>3. peerBitfield \in BitfieldsOf(ByteCount(peerBitfield))
    BY <1>2
  <2>4. /\ pc \in [Packets -> {"unread", "read", "mark", "handle", "done"}]
        /\ seen \in [Packets -> SUBSET (0 .. 7)]
    BY DEF MessagesInit
  <2>5. /\ packetsReceivedBitfield \subseteq 0 .. 7
        /\ peerChoking \in BOOLEAN /\ peerInterested \in BOOLEAN
        /\ bitfieldMutex \in {"free", "watchdog"}
        /\ watchdogPc \in {"idle", "query"}
    BY DEF MessagesInit
  <2> QED
    BY <1>1, <2>1, <2>2, <2>3, <2>4, <2>5 DEF MessagesTypeOK
<1>5. ThreadInv
  BY <1>1, <1>2 DEF ThreadInv
<1>6. BitfieldInv
  <2>1. \A p : ~HasPiece(peerBitfield, p)
    BY <1>1 DEF HasPiece
  <2>2. \A k \in Packets : \A p \in stream[k].content : ~(ByteOf(p) < nextByte[k])
    <3> TAKE k \in Packets
    <3> TAKE p \in stream[k].content
    <3>1. p \in Nat
      BY <1>4, StreamFacts
    <3>2. ByteOf(p) \in Nat
      BY <3>1, ByteAndBit
    <3>3. nextByte[k] = 0
      BY <1>1
    <3> QED
      BY <3>2, <3>3
  <2> QED
    BY <1>1, <2>1, <2>2 DEF BitfieldInv
<1>7. Done(HAVE_ID) = {} /\ Done(PIECE_ID) = {}
  BY <1>1 DEF Done
<1>8. QueueInv
  BY <1>1, <1>7 DEF QueueInv, Queued, Distinct
<1> QED
  BY <1>4, <1>5, <1>6, <1>7, <1>8 DEF MessagesInv, HavesAreKept

\* Every step keeps the invariant.
LEMMA MessagesInvStep == MessagesInv /\ [MessagesNext]_mvars => MessagesInv'
BY ThreadStep, BitfieldStep, HavesStep, QueueStep DEF MessagesInv

\* The inductive invariant: whatever the order of the threads, the bitfield, the
\* queue and the progress of the threads agree.
THEOREM MessagesInvariant == MessagesSpec => []MessagesInv
BY MessagesInvInit, MessagesInvStep, PTL DEF MessagesSpec

\* The peer's fields have their types.
THEOREM MessagesTypes == MessagesSpec => []MessagesTypeOK
<1>1. MessagesInv => MessagesTypeOK
  BY DEF MessagesInv
<1> QED
  BY <1>1, MessagesInvariant, PTL

\* The bitfield holds what was advertised and all of a BITFIELD that is done, and
\* the count taken from it is 1, or one too many for some advertised piece.
THEOREM RecordedIsAdvertised == MessagesSpec => []RecordedPiecesAreAdvertised
<1>1. ASSUME MessagesInv PROVE RecordedPiecesAreAdvertised
  <2>1. \A p : p \in Pieces(peerBitfield) <=> p \in Nat /\ HasPiece(peerBitfield, p)
    BY <1>1, PiecesAreSetBits DEF MessagesInv, MessagesTypeOK, ThreadInv
  <2>2. ASSUME NEW k \in Done(BITFIELD_ID), NEW p \in stream[k].content
        PROVE  p \in Pieces(peerBitfield)
    <3>1. k \in Packets /\ stream[k].id = BITFIELD_ID /\ pc[k] = "done"
      BY <2>2 DEF Done
    <3>2. /\ stream[k].content \in SUBSET Nat
          /\ \E last \in stream[k].content : \A x \in stream[k].content : x <= last
      BY <1>1, <3>1, StreamFacts DEF MessagesInv
    <3>3. ByteOf(p) < ByteCount(PacketBytes(stream[k].content))
      BY <2>2, <3>2, PacketBytesEffect
    <3>4. nextByte[k] = ByteCount(PacketBytes(stream[k].content))
      BY <1>1, <3>1 DEF MessagesInv, ThreadInv
    <3>5. HasPiece(peerBitfield, p)
      BY <1>1, <2>2, <3>1, <3>3, <3>4 DEF MessagesInv, BitfieldInv
    <3> QED
      BY <2>1, <2>2, <3>2, <3>5
  <2>3. CASE highest = 0
    <3>1. CountTaken = 1
      BY <2>3 DEF CountTaken
    <3> QED
      BY <1>1, <2>1, <2>2, <3>1
         DEF RecordedPiecesAreAdvertised, MessagesInv, BitfieldInv, AllAdvertised
  <2>4. CASE highest # 0
    <3>1. highest \in Nat /\ highest - 1 \in AllAdvertised
      BY <1>1, <2>4 DEF MessagesInv, BitfieldInv, ThreadInv
    <3>2. CountTaken = ((highest - 1) + 1) + 1
      BY <3>1 DEF CountTaken
    <3> QED
      BY <1>1, <2>1, <2>2, <3>1, <3>2
         DEF RecordedPiecesAreAdvertised, MessagesInv, BitfieldInv, AllAdvertised
  <2> QED
    BY <2>3, <2>4
<1> QED
  BY <1>1, MessagesInvariant, PTL

\* A handled HAVE is recorded, unless a BITFIELD's thread stored over its byte.
THEOREM HavesSurvive == MessagesSpec => []HavesAreKept
<1>1. MessagesInv => HavesAreKept
  BY DEF MessagesInv
<1> QED
  BY <1>1, MessagesInvariant, PTL

\* Every handled block is queued or drained, and only once.
THEOREM BlocksOnce == MessagesSpec => []BlocksAreHandedOnOnce
<1>1. ASSUME MessagesInv PROVE BlocksAreHandedOnOnce
  <2> DEFINE q == peerIncomingBlockData
             n == Len(q)
  <2>1. n \in Nat /\ DOMAIN q = 1 .. n
    BY <1>1, LenProperties DEF MessagesInv, MessagesTypeOK
  <2>2. Distinct(q)
    BY <1>1 DEF MessagesInv, QueueInv
  <2> HIDE DEF n
  <2>3. Cardinality(Queued(q)) = n
    <3> DEFINE f == [i \in 1 .. n |-> q[i]]
    <3>1. f \in Bijection(1 .. n, Queued(q))
      BY <2>1, <2>2, Zenon
         DEF Bijection, Injection, Surjection, IsInjective, Queued, Distinct
    <3>2. ExistsBijection(1 .. n, Queued(q))
      BY <3>1 DEF ExistsBijection
    <3>3. IsFiniteSet(1 .. n) /\ Cardinality(1 .. n) = n
      BY <2>1, FS_Interval
    <3> QED
      BY <3>2, <3>3, FS_Bijection
  <2> QED
    BY <1>1, <2>3 DEF BlocksAreHandedOnOnce, MessagesInv, QueueInv, Queued, n
<1> QED
  BY <1>1, MessagesInvariant, PTL
=============================================================================

------------------------- MODULE PeerConnectionProofs -------------------------
(***************************************************************************)
(* Proofs of the safety of one connection, for any number of requests and  *)
(* messages.  The status has no lock: what makes its use safe is which     *)
(* thread can be at which point while the status has which value, and that *)
(* is what the inductive invariant says.                                   *)
(***************************************************************************)
EXTENDS PeerConnection, SequenceTheorems, TLAPS

SenderPcs == {"check", "pop", "newborn?", "lock", "connect", "store", "signal",
              "failed", "error?", "write", "ended"}
ReceiverPcs == {"enter", "lock", "waiting", "woken", "initialized?", "handshake",
                "error?", "connected?", "read", "null", "ended"}

\* Where the threads can be, and when they have something to send.
PcTypeOK ==
    /\ senderPc \in SenderPcs
    /\ receiverPc \in ReceiverPcs
    /\ watchdogPc \in {"connect", "inform", "idle", "request"}
    /\ remote \in {"up", "closed"}
    /\ replied \in BOOLEAN /\ socketFailed \in BOOLEAN /\ greeted \in BOOLEAN
    /\ senderPc \notin {"check", "pop", "ended"} => packet # "none"
    /\ watchdogPc = "request" => requests < MaxRequests

\* The status against the threads: it is NEWBORN while no socket was stored,
\* PENDING just while the sending thread connects, and from INITIALIZED on the
\* socket is there; the receiving thread reads only after that.
StatusInv ==
    /\ PendingIsTransient
    /\ peerConnectionStatus \in {"NEWBORN", "PENDING"} =>
           receiverPc \notin {"handshake", "read"}
    /\ peerConnectionStatus = "NEWBORN" => peerSocket = "none"
    /\ peerConnectionStatus \in {"INITIALIZED", "CONNECTED"} => peerSocket = "open"
    /\ receiverPc \in {"handshake", "read"} => peerSocket = "open"
    /\ senderPc = "lock" => peerConnectionStatus = "NEWBORN"
    /\ senderPc \in {"connect", "failed"} => peerSocket = "none"
    /\ senderPc \in {"connect", "store"} => peerConnectionStatus = "PENDING"
    /\ senderPc \in {"store", "signal", "write"} => peerSocket = "open"
    /\ senderPc = "error?" => peerSocket = "open" \/ peerConnectionStatus = "ERROR"
    /\ senderPc = "failed" =>
           peerConnectionStatus = "ERROR" \/ socketFailed

\* Until something is written, the handshake is the next packet, or in the
\* hands of the sending thread, or the connection is in ERROR for good: the
\* remote peer has no handshake to answer, so nothing makes it CONNECTED.
FirstPacketInv ==
    /\ "handshake" \in Elements(inbound) => "handshake" \in Elements(written)
    /\ watchdogPc = "connect" =>
           outgoing = <<>> /\ senderPc \in {"check", "pop", "ended"}
    /\ written = <<>> /\ ~socketFailed =>
           \/ watchdogPc = "connect"
           \/ outgoing # <<>> /\ outgoing[1] = "handshake"
                 /\ senderPc \in {"check", "pop", "ended"}
           \/ packet = "handshake"
                 /\ senderPc \in SenderPcs \ {"check", "pop", "failed", "ended"}
           \/ peerConnectionStatus = "ERROR" /\ senderPc # "write"
    /\ HandshakeComesFirst

\* A request is under way only after the peer's handshake was read.
GreetingInv ==
    (\/ peerConnectionStatus = "CONNECTED"
     \/ watchdogPc = "request" \/ packet = "request"
     \/ "request" \in Elements(outgoing) \cup Elements(written)) => greeted

\* A dead connection stays dead, and its sending thread does not pop twice.
DeathInv ==
    /\ OnePacketAfterDeath
    /\ connectionHealth = "alive" \/ senderPc = "pop" => lateWrites = 0

ConnectionInv == /\ ConnectionTypeOK /\ PcTypeOK
                 /\ StatusInv /\ FirstPacketInv /\ GreetingInv /\ DeathInv

-----------------------------------------------------------------------------

\* A queue when a packet is appended, and when one is taken.
LEMMA QueueSteps ==
    ASSUME NEW S, NEW q \in Seq(S)
    PROVE  /\ \A x \in S : Append(q, x) \in Seq(S)
           /\ q # <<>> => Head(q) \in S /\ Tail(q) \in Seq(S)
BY AppendProperties, HeadTailProperties

\* The packets of a queue after both steps.
LEMMA ElementsOfQueue ==
    ASSUME NEW S, NEW q \in Seq(S)
    PROVE  /\ \A x \in S : Elements(Append(q, x)) = Elements(q) \cup {x}
           /\ q # <<>> => /\ Head(q) \in Elements(q)
                          /\ Elements(Tail(q)) \subseteq Elements(q)
<1>1. ASSUME NEW x \in S PROVE Elements(Append(q, x)) = Elements(q) \cup {x}
  <2>1. /\ DOMAIN Append(q, x) = 1 .. Len(q) + 1
        /\ Append(q, x)[Len(q) + 1] = x
        /\ \A i \in 1 .. Len(q) : Append(q, x)[i] = q[i]
        /\ DOMAIN q = 1 .. Len(q) /\ Len(q) \in Nat
    BY AppendProperties
  <2> QED
    BY <2>1 DEF Elements
<1>2. ASSUME q # <<>>
      PROVE  Head(q) \in Elements(q) /\ Elements(Tail(q)) \subseteq Elements(q)
  <2>1. /\ Len(q) \in Nat \ {0} /\ DOMAIN q = 1 .. Len(q)
        /\ Head(q) = q[1]
        /\ DOMAIN Tail(q) = 1 .. Len(q) - 1
        /\ \A i \in 1 .. Len(q) - 1 : Tail(q)[i] = q[i + 1]
    BY <1>2, HeadTailProperties
  <2> QED
    BY <2>1 DEF Elements
<1> QED
  BY <1>1, <1>2

\* The head of a queue, which appending moves only when the queue is empty.
LEMMA FirstOfQueue ==
    ASSUME NEW S, NEW q \in Seq(S)
    PROVE  /\ \A x \in S : /\ Append(q, x) # <<>>
                          /\ Append(q, x)[1] = IF q = <<>> THEN x ELSE q[1]
           /\ q # <<>> => Head(q) = q[1]
<1>1. Len(q) \in Nat /\ (q = <<>> <=> Len(q) = 0)
  BY EmptySeq, LenProperties
<1> QED
  BY <1>1, AppendProperties, HeadTailProperties

\* A connection of a peer as peer_networkdetails.c makes it.
LEMMA ConnectionInvInit == ConnectionInit => ConnectionInv
<1> SUFFICES ASSUME ConnectionInit PROVE ConnectionInv
  OBVIOUS
<1> USE DEF ConnectionInit
<1>1. Elements(<<>>) = {}
  BY DEF Elements
<1>2. ConnectionTypeOK
  BY ConnectionAssumption DEF ConnectionTypeOK
<1>3. PcTypeOK /\ StatusInv
  BY DEF PcTypeOK, SenderPcs, ReceiverPcs, StatusInv, PendingIsTransient
<1>4. FirstPacketInv /\ GreetingInv /\ DeathInv
  BY <1>1 DEF FirstPacketInv, HandshakeComesFirst, GreetingInv, DeathInv,
              OnePacketAfterDeath
<1> QED
  BY <1>2, <1>3, <1>4 DEF ConnectionInv

-----------------------------------------------------------------------------
(* The status and the threads *)

\* A thread that has read the status acts on it while another may write it.
LEMMA StatusStep ==
    ASSUME ConnectionTypeOK, PcTypeOK, StatusInv, [ConnectionNext]_cvars
    PROVE  StatusInv'
<1> USE DEF ConnectionTypeOK, PcTypeOK, SenderPcs, ReceiverPcs, StatusInv,
            PendingIsTransient
<1>1. CASE WatchdogStep
  BY <1>1 DEF WatchdogStep, QueueHandshake, QueueInterested, SelectPeer,
              QueueRequest, senderVars, historyVars
<1>2. CASE SenderStep
  BY <1>2 DEF SenderStep, SenderOnly, CheckHealth, PopPacket, TestNewborn,
              CreateSocket, ConnectFails, Connected, StoreStatus, SignalConnect,
              TestError, Write, WriteFails, historyVars
<1>3. CASE ReceiverStep \/ SpuriousWakeup
  <2> USE DEF ReceiverOnly, senderVars
  <2>1. CASE ReadHandshake
    BY <2>1 DEF ReadHandshake
  <2>2. CASE HandshakeCut \/ ReadMessage \/ ReadPastEnd \/ ConnectionDies
    BY <2>2 DEF HandshakeCut, ReadMessage, ReadPastEnd, ConnectionDies
  <2>3. CASE WaitForConnect \/ SpuriousWakeup \/ ResumeReceiver
    BY <2>3 DEF WaitForConnect, SpuriousWakeup, ResumeReceiver
  <2>4. CASE EnterIncoming \/ TestInitialized \/ TestReceiverError \/ TestConnected
    BY <2>4 DEF EnterIncoming, TestInitialized, TestReceiverError, TestConnected
  <2> QED
    BY <1>3, <2>1, <2>2, <2>3, <2>4 DEF ReceiverStep
<1>4. CASE RemoteStep \/ UNCHANGED cvars
  BY <1>4 DEF RemoteStep, RemoteReplies, RemoteSends, RemoteStopsReading,
              RemoteCloses, RemoteOnly, senderVars, historyVars, cvars
<1> QED
  BY <1>1, <1>2, <1>3, <1>4 DEF ConnectionNext

\* Neither thread uses the descriptor before connect has stored it.
LEMMA StatusKeepsSocket == StatusInv => SocketIsOpenWhenUsed
BY DEF StatusInv, SocketIsOpenWhenUsed

-----------------------------------------------------------------------------
(* The types *)

\* Queues, counters and program points stay in their ranges.
LEMMA ConnectionTypeStep ==
    ASSUME ConnectionTypeOK, PcTypeOK, [ConnectionNext]_cvars
    PROVE  ConnectionTypeOK' /\ PcTypeOK'
<1> USE ConnectionAssumption DEF ConnectionTypeOK, PcTypeOK, SenderPcs, ReceiverPcs
<1> DEFINE Sent == {"handshake", "interested", "request"}
           Received == {"handshake", "other", "message"}
<1>0. /\ \A x \in Sent : /\ Append(outgoing, x) \in Seq(Sent)
                        /\ Append(written, x) \in Seq(Sent)
      /\ outgoing # <<>> => Head(outgoing) \in Sent /\ Tail(outgoing) \in Seq(Sent)
      /\ \A x \in Received : Append(inbound, x) \in Seq(Received)
      /\ inbound # <<>> => Tail(inbound) \in Seq(Received)
      /\ <<"handshake">> \in Seq(Received) /\ <<"other">> \in Seq(Received)
  BY QueueSteps
<1>1. CASE WatchdogStep
  <2> USE DEF senderVars, historyVars, remoteVars
  <2>1. CASE QueueHandshake \/ QueueInterested
    BY <1>0, <2>1 DEF QueueHandshake, QueueInterested
  <2>2. CASE SelectPeer
    BY <2>2 DEF SelectPeer
  <2>3. CASE QueueRequest
    BY <1>0, <2>3 DEF QueueRequest
  <2> QED
    BY <1>1, <2>1, <2>2, <2>3 DEF WatchdogStep
<1>2. CASE SenderStep
  <2> USE DEF SenderOnly, historyVars, remoteVars, watchdogVars
  <2>1. CASE CheckHealth \/ TestNewborn \/ TestError
    BY <2>1 DEF CheckHealth, TestNewborn, TestError
  <2>2. CASE PopPacket
    BY <1>0, <2>2 DEF PopPacket
  <2>3. CASE CreateSocket \/ ConnectFails \/ Connected \/ StoreStatus \/ SignalConnect
    <3>1. CASE CreateSocket
      <4>1. /\ syncMutex' = "sender" /\ packet # "none"
            /\ senderPc' \in {"connect", "failed"}
            /\ peerConnectionStatus' \in {peerConnectionStatus, "PENDING"}
            /\ socketFailed' \in BOOLEAN /\ SenderOnly
            /\ UNCHANGED <<peerSocket, outgoing, packet, written, lateWrites>>
        BY <3>1 DEF CreateSocket
      <4> QED
        BY <4>1
    <3>2. CASE ConnectFails \/ Connected
      BY <3>2 DEF ConnectFails, Connected
    <3>3. CASE StoreStatus \/ SignalConnect
      BY <3>3 DEF StoreStatus, SignalConnect
    <3> QED
      BY <2>3, <3>1, <3>2, <3>3
  <2>4. CASE Write \/ WriteFails
    BY <1>0, <2>4 DEF Write, WriteFails
  <2> QED
    BY <1>2, <2>1, <2>2, <2>3, <2>4 DEF SenderStep
<1>3. CASE ReceiverStep \/ SpuriousWakeup
  <2> USE DEF ReceiverOnly, senderVars, watchdogVars
  <2>1. CASE ReadHandshake
    <3>1. inbound' \in Seq(Received)
      BY <1>0, <2>1 DEF ReadHandshake
    <3>2. CASE Head(inbound) = "handshake"
      <4>1. /\ peerConnectionStatus' = "CONNECTED" /\ greeted' = TRUE
            /\ receiverPc' = "connected?" /\ ReceiverOnly
            /\ UNCHANGED connectionHealth
        BY <2>1, <3>2 DEF ReadHandshake
      <4> QED
        BY <3>1, <4>1
    <3>3. CASE Head(inbound) # "handshake"
      <4>1. /\ peerConnectionStatus' = "ERROR" /\ UNCHANGED greeted
            /\ receiverPc' = "null" /\ ReceiverOnly
            /\ UNCHANGED connectionHealth
        BY <2>1, <3>3 DEF ReadHandshake
      <4> QED
        BY <3>1, <4>1
    <3> QED
      BY <3>2, <3>3
  <2>2. CASE HandshakeCut \/ ReadPastEnd \/ ConnectionDies
    <3>1. inbound' \in Seq(Received)
      BY <2>2 DEF HandshakeCut, ReadPastEnd, ConnectionDies
    <3> QED
      BY <2>2, <3>1 DEF HandshakeCut, ReadPastEnd, ConnectionDies
  <2>5. CASE ReadMessage
    BY <1>0, <2>5 DEF ReadMessage
  <2>3. CASE WaitForConnect \/ SpuriousWakeup \/ ResumeReceiver
    BY <2>3 DEF WaitForConnect, SpuriousWakeup, ResumeReceiver
  <2>4. CASE EnterIncoming \/ TestInitialized \/ TestReceiverError \/ TestConnected
    BY <2>4 DEF EnterIncoming, TestInitialized, TestReceiverError, TestConnected
  <2> QED
    BY <1>3, <2>1, <2>2, <2>3, <2>4, <2>5 DEF ReceiverStep
<1>4. CASE RemoteStep
  <2> USE DEF RemoteOnly, senderVars, historyVars, watchdogVars
  <2>1. CASE RemoteReplies
    <3>1. inbound' \in Seq(Received)
      BY <1>0, <2>1 DEF RemoteReplies
    <3> QED
      BY <2>1, <3>1 DEF RemoteReplies
  <2>2. CASE RemoteSends
    BY <1>0, <2>2 DEF RemoteSends
  <2>3. CASE RemoteStopsReading \/ RemoteCloses
    BY <2>3 DEF RemoteStopsReading, RemoteCloses
  <2> QED
    BY <1>4, <2>1, <2>2, <2>3 DEF RemoteStep
<1>5. CASE UNCHANGED cvars
  BY <1>5 DEF cvars, senderVars, historyVars, remoteVars, watchdogVars
<1> QED
  BY <1>1, <1>2, <1>3, <1>4, <1>5 DEF ConnectionNext

-----------------------------------------------------------------------------
(* The dead connection *)

\* Only the receiving thread ends a connection, and between that and the check
\* of the health one packet can be popped.
LEMMA DeathStep ==
    ASSUME ConnectionTypeOK, PcTypeOK, DeathInv, [ConnectionNext]_cvars
    PROVE  DeathInv'
<1> USE DEF ConnectionTypeOK, DeathInv, OnePacketAfterDeath
<1>1. CASE SenderStep
  BY <1>1 DEF SenderStep, SenderOnly, CheckHealth, PopPacket, TestNewborn,
              CreateSocket, ConnectFails, Connected, StoreStatus, SignalConnect,
              TestError, Write, WriteFails, historyVars
<1>2. CASE ConnectionDies
  BY <1>2 DEF ConnectionDies, ReceiverOnly, senderVars
<1>3. ASSUME UNCHANGED <<lateWrites, senderPc, connectionHealth>>
      PROVE  DeathInv'
  BY <1>3
<1>4. CASE WatchdogStep \/ RemoteStep \/ UNCHANGED cvars
  BY <1>3, <1>4
     DEF WatchdogStep, QueueHandshake, QueueInterested, SelectPeer, QueueRequest,
         RemoteStep, RemoteReplies, RemoteSends, RemoteStopsReading,
         RemoteCloses, RemoteOnly, senderVars, historyVars, cvars
<1>5. CASE (ReceiverStep \/ SpuriousWakeup) /\ ~ConnectionDies
  BY <1>3, <1>5
     DEF ReceiverStep, ReceiverOnly, EnterIncoming, WaitForConnect,
         SpuriousWakeup, ResumeReceiver, TestInitialized, ReadHandshake,
         HandshakeCut, TestReceiverError, TestConnected, ReadMessage,
         ReadPastEnd, senderVars
<1> QED
  BY <1>1, <1>2, <1>4, <1>5 DEF ConnectionNext, ReceiverStep

-----------------------------------------------------------------------------
(* The greeting *)

\* The watchdog queues a request on a status that was CONNECTED, so after the
\* greeting, and nothing takes the greeting back.
LEMMA GreetingStep ==
    ASSUME ConnectionTypeOK, PcTypeOK, GreetingInv, [ConnectionNext]_cvars
    PROVE  GreetingInv'
<1> USE DEF GreetingInv
<1>1. ASSUME greeted' PROVE GreetingInv'
  BY <1>1
<1>2. greeted => greeted' 
  BY DEF ConnectionNext, WatchdogStep, QueueHandshake, QueueInterested,
         SelectPeer, QueueRequest, RemoteStep, RemoteReplies, RemoteSends,
         RemoteStopsReading, RemoteCloses, RemoteOnly, SenderStep,
         SenderOnly, CheckHealth, PopPacket, TestNewborn, CreateSocket, ConnectFails, Connected,
         StoreStatus, SignalConnect, TestError, Write, WriteFails,
         ReceiverStep, EnterIncoming, WaitForConnect,
         SpuriousWakeup, ResumeReceiver, TestInitialized, ReadHandshake,
         HandshakeCut, TestReceiverError, TestConnected, ReadMessage,
         ReadPastEnd, ConnectionDies, historyVars, cvars
<1> SUFFICES ASSUME ~greeted, ~greeted' PROVE GreetingInv'
  BY <1>1, <1>2
<1> DEFINE Sent == {"handshake", "interested", "request"}
<1>3. /\ \A x \in Sent :
             /\ Elements(Append(outgoing, x)) = Elements(outgoing) \cup {x}
             /\ Elements(Append(written, x)) = Elements(written) \cup {x}
      /\ outgoing # <<>> =>
             /\ Head(outgoing) \in Elements(outgoing)
             /\ Elements(Tail(outgoing)) \subseteq Elements(outgoing)
  BY ElementsOfQueue DEF ConnectionTypeOK
<1>4. CASE WatchdogStep
  BY <1>3, <1>4 DEF WatchdogStep, QueueHandshake, QueueInterested, SelectPeer,
              QueueRequest, senderVars, historyVars
<1>5. CASE PopPacket
  BY <1>3, <1>5 DEF PopPacket, SenderOnly, watchdogVars
<1>6. CASE Write
  BY <1>3, <1>6 DEF Write, SenderOnly, watchdogVars, ConnectionTypeOK, PcTypeOK
<1>7. CASE SenderStep /\ ~PopPacket /\ ~Write
  BY <1>7 DEF SenderStep, SenderOnly, CheckHealth, TestNewborn,
              CreateSocket, ConnectFails, Connected, StoreStatus, SignalConnect,
              TestError, WriteFails, historyVars, watchdogVars
<1>8. CASE ReceiverStep \/ SpuriousWakeup
  BY <1>8 DEF ReceiverStep, ReceiverOnly, EnterIncoming, WaitForConnect,
              SpuriousWakeup, ResumeReceiver, TestInitialized, ReadHandshake,
              HandshakeCut, TestReceiverError, TestConnected, ReadMessage,
              ReadPastEnd, ConnectionDies, senderVars, watchdogVars
<1>9. CASE RemoteStep \/ UNCHANGED cvars
  BY <1>9 DEF RemoteStep, RemoteReplies, RemoteSends, RemoteStopsReading,
              RemoteCloses, RemoteOnly, senderVars, historyVars, watchdogVars, cvars
<1> QED
  BY <1>4, <1>5, <1>6, <1>7, <1>8, <1>9 DEF ConnectionNext, SenderStep

-----------------------------------------------------------------------------
(* The first packet *)

\* The handshake is queued first, taken first and written first, or lost to
\* socket(), or the connection is in ERROR before anything is written.
LEMMA FirstPacketStep ==
    ASSUME ConnectionTypeOK, PcTypeOK, StatusInv, FirstPacketInv,
           [ConnectionNext]_cvars
    PROVE  FirstPacketInv'
<1> USE DEF FirstPacketInv, HandshakeComesFirst, SenderPcs
<1> DEFINE Sent == {"handshake", "interested", "request"}
           Received == {"handshake", "other", "message"}
<1>1. /\ \A x \in Sent :
             /\ Append(outgoing, x) # <<>>
             /\ Append(outgoing, x)[1] = IF outgoing = <<>> THEN x ELSE outgoing[1]
             /\ Append(written, x) # <<>>
             /\ Append(written, x)[1] = IF written = <<>> THEN x ELSE written[1]
             /\ Elements(Append(written, x)) = Elements(written) \cup {x}
      /\ outgoing # <<>> => Head(outgoing) = outgoing[1]
      /\ \A x \in Received :
             Elements(Append(inbound, x)) = Elements(inbound) \cup {x}
      /\ inbound # <<>> => /\ Head(inbound) \in Elements(inbound)
                           /\ Elements(Tail(inbound)) \subseteq Elements(inbound)
      /\ Elements(<<"other">>) = {"other"} /\ Elements(<<>>) = {}
  <2>1. /\ outgoing \in Seq(Sent) /\ written \in Seq(Sent)
        /\ inbound \in Seq(Received)
    BY DEF ConnectionTypeOK
  <2>2. Elements(<<"other">>) = {"other"} /\ Elements(<<>>) = {}
    BY DEF Elements
  <2>3. \A x \in Sent :
             /\ Append(outgoing, x) # <<>>
             /\ Append(outgoing, x)[1] = IF outgoing = <<>> THEN x ELSE outgoing[1]
             /\ Append(written, x) # <<>>
             /\ Append(written, x)[1] = IF written = <<>> THEN x ELSE written[1]
    <3>1. \A q \in Seq(Sent), x \in Sent :
              /\ Append(q, x) # <<>>
              /\ Append(q, x)[1] = IF q = <<>> THEN x ELSE q[1]
      BY FirstOfQueue, Zenon
    <3>2. outgoing \in Seq(Sent) /\ written \in Seq(Sent)
      BY <2>1
    <3> QED
      BY <3>1, <3>2, Zenon
  <2>4. outgoing # <<>> => Head(outgoing) = outgoing[1]
    BY <2>1, FirstOfQueue
  <2>5. \A x \in Sent : Elements(Append(written, x)) = Elements(written) \cup {x}
    BY <2>1, ElementsOfQueue
  <2>6. \A x \in Received :
            Elements(Append(inbound, x)) = Elements(inbound) \cup {x}
    <3>1. inbound \in Seq(Received)
      BY <2>1
    <3> HIDE DEF Received
    <3> QED
      BY <3>1, ElementsOfQueue
  <2>7. inbound # <<>> => /\ Head(inbound) \in Elements(inbound)
                          /\ Elements(Tail(inbound)) \subseteq Elements(inbound)
    <3>1. inbound \in Seq(Received)
      BY <2>1
    <3> HIDE DEF Received
    <3> QED
      BY <3>1, ElementsOfQueue
  <2> QED
    BY <2>2, <2>3, <2>4, <2>5, <2>6, <2>7
<1>2. CASE WatchdogStep
  BY <1>1, <1>2 DEF WatchdogStep, QueueHandshake, QueueInterested, SelectPeer,
              QueueRequest, senderVars, historyVars, remoteVars, PcTypeOK
<1>3. CASE PopPacket
  BY <1>1, <1>3 DEF PopPacket, SenderOnly, watchdogVars, remoteVars
<1>4. CASE Write
  BY <1>1, <1>4 DEF Write, SenderOnly, watchdogVars, remoteVars,
                    ConnectionTypeOK, PcTypeOK, StatusInv
<1>5. CASE SenderStep /\ ~PopPacket /\ ~Write
  BY <1>5 DEF SenderStep, SenderOnly, CheckHealth, TestNewborn,
              CreateSocket, ConnectFails, Connected, StoreStatus, SignalConnect,
              TestError, WriteFails, historyVars, watchdogVars, remoteVars,
              StatusInv, PendingIsTransient
<1>6. CASE ReceiverStep \/ SpuriousWakeup
  BY <1>1, <1>6
     DEF ReceiverStep, ReceiverOnly, EnterIncoming, WaitForConnect,
              SpuriousWakeup, ResumeReceiver, TestInitialized, ReadHandshake,
              HandshakeCut, TestReceiverError, TestConnected, ReadMessage,
              ReadPastEnd, ConnectionDies, senderVars, watchdogVars
<1>7. CASE RemoteStep \/ UNCHANGED cvars
  BY <1>1, <1>7
     DEF RemoteStep, RemoteReplies, RemoteSends, RemoteStopsReading,
              RemoteCloses, RemoteOnly, senderVars, historyVars, watchdogVars, remoteVars, cvars
<1> QED
  BY <1>2, <1>3, <1>4, <1>5, <1>6, <1>7 DEF ConnectionNext, SenderStep

-----------------------------------------------------------------------------
(* The theorems *)

\* Every step of the threads, of the watchdog and of the remote peer keeps the
\* inductive invariant.
LEMMA ConnectionInvStep == ConnectionInv /\ [ConnectionNext]_cvars => ConnectionInv'
<1> SUFFICES ASSUME ConnectionInv, [ConnectionNext]_cvars PROVE ConnectionInv'
  OBVIOUS
<1>1. /\ ConnectionTypeOK /\ PcTypeOK /\ StatusInv
      /\ FirstPacketInv /\ GreetingInv /\ DeathInv
  BY DEF ConnectionInv
<1>2. ConnectionTypeOK' /\ PcTypeOK'
  BY <1>1, ConnectionTypeStep
<1>3. StatusInv'
  BY <1>1, StatusStep
<1>4. FirstPacketInv'
  BY <1>1, FirstPacketStep
<1>5. GreetingInv' /\ DeathInv'
  BY <1>1, GreetingStep, DeathStep
<1> QED
  BY <1>2, <1>3, <1>4, <1>5 DEF ConnectionInv

\* The inductive invariant holds in every reachable state.
THEOREM ConnectionInvariant == ConnectionSpec => []ConnectionInv
BY ConnectionInvInit, ConnectionInvStep, PTL DEF ConnectionSpec

\* Every field of the connection keeps its type (conpool.c, tcpswarm_comm.c).
THEOREM ConnectionTypes == ConnectionSpec => []ConnectionTypeOK
<1>1. ConnectionInv => ConnectionTypeOK
  BY DEF ConnectionInv
<1> QED
  BY <1>1, ConnectionInvariant, PTL

\* The sending thread writes, and the receiving thread reads, only when connect
\* has stored the descriptor, however the unlocked status is interleaved.
THEOREM NoUseBeforeConnect == ConnectionSpec => []SocketIsOpenWhenUsed
<1>1. ConnectionInv => SocketIsOpenWhenUsed
  BY StatusKeepsSocket DEF ConnectionInv
<1> QED
  BY <1>1, ConnectionInvariant, PTL

\* The first packet written to a socket is the handshake, unless socket() failed
\* while the handshake was in hand.
THEOREM HandshakeFirst == ConnectionSpec => []HandshakeComesFirst
<1>1. ConnectionInv => HandshakeComesFirst
  BY DEF ConnectionInv, FirstPacketInv
<1> QED
  BY <1>1, ConnectionInvariant, PTL

\* No request is written before the handshake of the peer was read, whatever
\* became of the status between the watchdog's look at it and its packet.
THEOREM GreetedBeforeRequests == ConnectionSpec => []RequestsFollowGreeting
<1>1. ConnectionInv => RequestsFollowGreeting
  BY DEF ConnectionInv, GreetingInv, RequestsFollowGreeting
<1> QED
  BY <1>1, ConnectionInvariant, PTL

\* The sending thread of a dead connection takes at most the packet that it was
\* waiting for.
THEOREM NoSecondPopAfterDeath == ConnectionSpec => []OnePacketAfterDeath
<1>1. ConnectionInv => OnePacketAfterDeath
  BY DEF ConnectionInv, DeathInv
<1> QED
  BY <1>1, ConnectionInvariant, PTL

\* syncMutex is held exactly while the sending thread connects, and PENDING is
\* only seen then.
THEOREM MutexWhileConnecting == ConnectionSpec => []PendingIsTransient
<1>1. ConnectionInv => PendingIsTransient
  BY DEF ConnectionInv, StatusInv
<1> QED
  BY <1>1, ConnectionInvariant, PTL
=============================================================================

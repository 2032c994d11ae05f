--------------------------- MODULE PeerConnection ---------------------------
(***************************************************************************)
(* One TCP connection (conpool.c, conpool_executor.c, tcpswarm_comm.c):    *)
(* the sending thread, which connects lazily when it has the first packet, *)
(* the receiving thread, which waits for that, the swarm watchdog, which   *)
(* queues the packets, and the remote peer.  peerConnectionStatus is read  *)
(* and written without a lock: each read in the code is a step of its own. *)
(* syncMutex is held by the sending thread while it connects.              *)
(*                                                                         *)
(* Data is abstracted to what the code branches on: a packet is written    *)
(* whole or fails, and an inbound item is the handshake, something that is *)
(* not one, or a message.                                                  *)
(***************************************************************************)
EXTENDS Naturals, Sequences

CONSTANTS
    MaxRequests,        \* bound on the requests the watchdog queues
    MaxMessages         \* bound on the messages the remote peer sends

ASSUME ConnectionAssumption == MaxRequests \in Nat /\ MaxMessages \in Nat

VARIABLES
    peerConnectionStatus,
    peerSocket,         \* "none", or "open" once connect succeeded
    connectionHealth,   \* "alive" or "dead"
    outgoing,           \* outgoingPacketQueue
    syncMutex,          \* "free" or "sender"
    senderPc, receiverPc, watchdogPc,
    packet,             \* the packet the sending thread has popped
    requests,           \* requests queued so far
    remote,             \* "up" or "closed"
    remoteReads,        \* FALSE once the remote peer has stopped reading
    inbound,            \* what the remote peer sent and we have not read
    replied,            \* the remote peer has answered the handshake
    messages,           \* messages the remote peer has sent
    socketFailed,       \* history: socket() has failed
    greeted,            \* history: the handshake of the peer has been read
    written,            \* history: what was written to the socket
    lateWrites          \* history: packets popped after the connection died

senderVars == <<senderPc, packet>>
remoteVars == <<remote, remoteReads, inbound, replied, messages>>
watchdogVars == <<watchdogPc, requests>>
historyVars == <<socketFailed, greeted, written, lateWrites>>
cvars == <<peerConnectionStatus, peerSocket, connectionHealth, outgoing,
           syncMutex, senderVars, receiverPc, watchdogVars, remoteVars,
           historyVars>>

ConnectionInit ==
    /\ peerConnectionStatus = "NEWBORN"
    /\ peerSocket = "none"
    /\ connectionHealth = "alive"
    /\ outgoing = <<>>
    /\ syncMutex = "free"
    /\ senderPc = "check" /\ receiverPc = "enter" /\ watchdogPc = "connect"
    /\ packet = "none"
    /\ requests = 0
    /\ remote = "up" /\ remoteReads = TRUE
    /\ inbound = <<>> /\ replied = FALSE /\ messages = 0
    /\ socketFailed = FALSE /\ greeted = FALSE
    /\ written = <<>> /\ lateWrites = 0

-----------------------------------------------------------------------------
(* The swarm watchdog, the only thread that queues packets *)

\* Operators named Mutant... are slips of the definition that follows: each
\* one breaks a property, which shows that the property depends on the code.
MutantQueueHandshake ==
    /\ watchdogPc = "connect"
    /\ outgoing' = Append(outgoing, "interested")
    /\ watchdogPc' = "inform"
    /\ UNCHANGED <<peerConnectionStatus, peerSocket, connectionHealth,
                   syncMutex, senderVars, receiverPc, requests, remoteVars,
                   historyVars>>

\* swarm_ingestPeer queues a handshake and then an INTERESTED.
QueueHandshake ==
    /\ watchdogPc = "connect"
    /\ outgoing' = Append(outgoing, "handshake")
    /\ watchdogPc' = "inform"
    /\ UNCHANGED <<peerConnectionStatus, peerSocket, connectionHealth,
                   syncMutex, senderVars, receiverPc, requests, remoteVars,
                   historyVars>>

QueueInterested ==
    /\ watchdogPc = "inform"
    /\ outgoing' = Append(outgoing, "interested")
    /\ watchdogPc' = "idle"
    /\ UNCHANGED <<peerConnectionStatus, peerSocket, connectionHealth,
                   syncMutex, senderVars, receiverPc, requests, remoteVars,
                   historyVars>>

MutantSelectPeer ==
    /\ watchdogPc = "idle" /\ requests < MaxRequests
    /\ peerConnectionStatus # "NEWBORN"
    /\ watchdogPc' = "request"
    /\ UNCHANGED <<peerConnectionStatus, peerSocket, connectionHealth,
                   outgoing, syncMutex, senderVars, receiverPc, requests,
                   remoteVars, historyVars>>

\* A turn of the watchdog selects the peer by its status and then queues a
\* request, whatever has become of the status since.
SelectPeer ==
    /\ watchdogPc = "idle" /\ requests < MaxRequests
    /\ peerConnectionStatus = "CONNECTED"
    /\ watchdogPc' = "request"
    /\ UNCHANGED <<peerConnectionStatus, peerSocket, connectionHealth,
                   outgoing, syncMutex, senderVars, receiverPc, requests,
                   remoteVars, historyVars>>

QueueRequest ==
    /\ watchdogPc = "request"
    /\ outgoing' = Append(outgoing, "request")
    /\ requests' = requests + 1
    /\ watchdogPc' = "idle"
    /\ UNCHANGED <<peerConnectionStatus, peerSocket, connectionHealth,
                   syncMutex, senderVars, receiverPc, remoteVars, historyVars>>

-----------------------------------------------------------------------------
(* The sending thread *)

SenderOnly == UNCHANGED <<connectionHealth, receiverPc, watchdogVars,
                          remoteVars, greeted>>

MutantCheckHealth ==
    /\ senderPc = "check"
    /\ senderPc' = "pop"
    /\ SenderOnly
    /\ UNCHANGED <<peerConnectionStatus, peerSocket, outgoing, syncMutex,
                   packet, socketFailed, written, lateWrites>>

CheckHealth ==
    /\ senderPc = "check"
    /\ senderPc' = IF connectionHealth = "dead" THEN "ended" ELSE "pop"
    /\ SenderOnly
    /\ UNCHANGED <<peerConnectionStatus, peerSocket, outgoing, syncMutex,
                   packet, socketFailed, written, lateWrites>>

PopPacket ==
    /\ senderPc = "pop" /\ outgoing # <<>>
    /\ packet' = Head(outgoing) /\ outgoing' = Tail(outgoing)
    /\ senderPc' = "newborn?"
    /\ lateWrites' = IF connectionHealth = "dead" THEN lateWrites + 1
                                                  ELSE lateWrites
    /\ SenderOnly
    /\ UNCHANGED <<peerConnectionStatus, peerSocket, syncMutex, socketFailed,
                   written>>

TestNewborn ==
    /\ senderPc = "newborn?"
    /\ senderPc' = IF peerConnectionStatus = "NEWBORN" THEN "lock" ELSE "error?"
    /\ SenderOnly
    /\ UNCHANGED <<peerConnectionStatus, peerSocket, outgoing, syncMutex,
                   packet, socketFailed, written, lateWrites>>

\* socket() and the lock that precedes it: a failure leaves the status as it is.
CreateSocket ==
    /\ senderPc = "lock" /\ syncMutex = "free"
    /\ syncMutex' = "sender"
    /\ \/ /\ peerConnectionStatus' = "PENDING"
          /\ senderPc' = "connect"
          /\ UNCHANGED socketFailed
       \/ /\ socketFailed' = TRUE
          /\ senderPc' = "failed"
          /\ UNCHANGED peerConnectionStatus
    /\ SenderOnly
    /\ UNCHANGED <<peerSocket, outgoing, packet, written, lateWrites>>

MutantConnectFails ==
    /\ senderPc = "connect"
    /\ senderPc' = "failed"
    /\ SenderOnly
    /\ UNCHANGED <<peerConnectionStatus, peerSocket, outgoing, syncMutex,
                   packet, socketFailed, written, lateWrites>>

ConnectFails ==
    /\ senderPc = "connect"
    /\ peerConnectionStatus' = "ERROR"
    /\ senderPc' = "failed"
    /\ SenderOnly
    /\ UNCHANGED <<peerSocket, outgoing, syncMutex, packet, socketFailed,
                   written, lateWrites>>

MutantConnected ==
    /\ senderPc = "connect"
    /\ peerConnectionStatus' = "INITIALIZED"
    /\ senderPc' = "store"
    /\ SenderOnly
    /\ UNCHANGED <<peerSocket, outgoing, syncMutex, packet, socketFailed,
                   written, lateWrites>>

\* The socket is stored first, then the status that lets it be used.
Connected ==
    /\ senderPc = "connect"
    /\ peerSocket' = "open"
    /\ senderPc' = "store"
    /\ SenderOnly
    /\ UNCHANGED <<peerConnectionStatus, outgoing, syncMutex, packet,
                   socketFailed, written, lateWrites>>

MutantStoreStatus ==
    /\ senderPc = "store"
    /\ peerConnectionStatus' = "DONE"
    /\ senderPc' = "signal"
    /\ SenderOnly
    /\ UNCHANGED <<peerSocket, outgoing, syncMutex, packet, socketFailed,
                   written, lateWrites>>

StoreStatus ==
    /\ senderPc = "store"
    /\ peerConnectionStatus' = "INITIALIZED"
    /\ senderPc' = "signal"
    /\ SenderOnly
    /\ UNCHANGED <<peerSocket, outgoing, syncMutex, packet, socketFailed,
                   written, lateWrites>>

\* Signal and unlock; with the connection failed the packet is given up.
SignalConnect ==
    /\ senderPc \in {"signal", "failed"}
    /\ syncMutex' = "free"
    /\ receiverPc' = IF receiverPc = "waiting" THEN "woken" ELSE receiverPc
    /\ senderPc' = IF senderPc = "signal" THEN "error?" ELSE "check"
    /\ UNCHANGED <<peerConnectionStatus, peerSocket, connectionHealth,
                   outgoing, packet, watchdogVars, remoteVars, historyVars>>

TestError ==
    /\ senderPc = "error?"
    /\ senderPc' = IF peerConnectionStatus = "ERROR" THEN "check" ELSE "write"
    /\ SenderOnly
    /\ UNCHANGED <<peerConnectionStatus, peerSocket, outgoing, syncMutex,
                   packet, socketFailed, written, lateWrites>>

\* write() returns, at once or later, if the socket's buffer has room or the
\* remote peer makes some.
Write ==
    /\ senderPc = "write"
    /\ written' = Append(written, packet)
    /\ senderPc' = "check"
    /\ SenderOnly
    /\ UNCHANGED <<peerConnectionStatus, peerSocket, outgoing, syncMutex,
                   packet, socketFailed, lateWrites>>

WriteFails ==
    /\ senderPc = "write" /\ remote = "closed"
    /\ peerConnectionStatus' = "ERROR"
    /\ senderPc' = "check"
    /\ SenderOnly
    /\ UNCHANGED <<peerSocket, outgoing, syncMutex, packet, socketFailed,
                   written, lateWrites>>

\* write() need not return: the remote peer keeps the connection open and reads
\* no more, and there is no time limit.
WriteMayHang == senderPc = "write" /\ remote = "up" /\ ~remoteReads

-----------------------------------------------------------------------------
(* The receiving thread *)

ReceiverOnly == UNCHANGED <<peerSocket, outgoing, syncMutex, senderVars,
                            watchdogVars, remote, remoteReads, replied,
                            messages, socketFailed, written, lateWrites>>

EnterIncoming ==
    /\ receiverPc = "enter"
    /\ receiverPc' = IF peerConnectionStatus = "NEWBORN" THEN "lock"
                                                         ELSE "initialized?"
    /\ ReceiverOnly
    /\ UNCHANGED <<peerConnectionStatus, connectionHealth, inbound, greeted>>

MutantWaitForConnect ==
    /\ receiverPc = "lock" /\ syncMutex = "free"
    /\ syncMutex' = "sender"
    /\ receiverPc' = "waiting"
    /\ UNCHANGED <<peerSocket, outgoing, senderVars, watchdogVars, remoteVars,
                   socketFailed, written, lateWrites, peerConnectionStatus,
                   connectionHealth, greeted>>

\* Lock and wait; the status is not read again.
WaitForConnect ==
    /\ receiverPc = "lock" /\ syncMutex = "free"
    /\ receiverPc' = "waiting"
    /\ ReceiverOnly
    /\ UNCHANGED <<peerConnectionStatus, connectionHealth, inbound, greeted>>

SpuriousWakeup ==
    /\ receiverPc = "waiting"
    /\ receiverPc' = "woken"
    /\ ReceiverOnly
    /\ UNCHANGED <<peerConnectionStatus, connectionHealth, inbound, greeted>>

ResumeReceiver ==
    /\ receiverPc = "woken" /\ syncMutex = "free"
    /\ receiverPc' = "initialized?"
    /\ ReceiverOnly
    /\ UNCHANGED <<peerConnectionStatus, connectionHealth, inbound, greeted>>

TestInitialized ==
    /\ receiverPc = "initialized?"
    /\ receiverPc' = IF peerConnectionStatus = "INITIALIZED" THEN "handshake"
                                                             ELSE "error?"
    /\ ReceiverOnly
    /\ UNCHANGED <<peerConnectionStatus, connectionHealth, inbound, greeted>>

\* The 68 bytes are read and compared.
ReadHandshake ==
    /\ receiverPc = "handshake"
    /\ inbound # <<>>
    /\ inbound' = Tail(inbound)
    /\ IF Head(inbound) = "handshake"
       THEN /\ peerConnectionStatus' = "CONNECTED"
            /\ greeted' = TRUE
            /\ receiverPc' = "connected?"
       ELSE /\ peerConnectionStatus' = "ERROR"
            /\ receiverPc' = "null"
            /\ UNCHANGED greeted
    /\ ReceiverOnly
    /\ UNCHANGED connectionHealth

HandshakeCut ==
    /\ receiverPc = "handshake"
    /\ inbound = <<>> /\ remote = "closed"
    /\ peerConnectionStatus' = "ERROR"
    /\ receiverPc' = "null"
    /\ ReceiverOnly
    /\ UNCHANGED <<connectionHealth, inbound, greeted>>

TestReceiverError ==
    /\ receiverPc = "error?"
    /\ receiverPc' = IF peerConnectionStatus = "ERROR" THEN "null"
                                                       ELSE "connected?"
    /\ ReceiverOnly
    /\ UNCHANGED <<peerConnectionStatus, connectionHealth, inbound, greeted>>

TestConnected ==
    /\ receiverPc = "connected?"
    /\ receiverPc' = IF peerConnectionStatus = "CONNECTED" THEN "read" ELSE "null"
    /\ ReceiverOnly
    /\ UNCHANGED <<peerConnectionStatus, connectionHealth, inbound, greeted>>

\* A packet is read and a processing thread started for it.
ReadMessage ==
    /\ receiverPc = "read"
    /\ inbound # <<>>
    /\ inbound' = Tail(inbound)
    /\ receiverPc' = "enter"
    /\ ReceiverOnly
    /\ UNCHANGED <<peerConnectionStatus, connectionHealth, greeted>>

\* A failed read of the length leaves the length buffer uninitialized: a zero
\* passes for a keep-alive, anything else fails at the payload.
ReadPastEnd ==
    /\ receiverPc = "read"
    /\ inbound = <<>> /\ remote = "closed"
    /\ receiverPc' \in {"enter", "null"}
    /\ ReceiverOnly
    /\ UNCHANGED <<peerConnectionStatus, connectionHealth, inbound, greeted>>

ConnectionDies ==
    /\ receiverPc = "null"
    /\ connectionHealth' = "dead"
    /\ receiverPc' = "ended"
    /\ ReceiverOnly
    /\ UNCHANGED <<peerConnectionStatus, inbound, greeted>>

-----------------------------------------------------------------------------
(* The remote peer *)

RemoteOnly == UNCHANGED <<peerConnectionStatus, peerSocket, connectionHealth,
                          outgoing, syncMutex, senderVars, receiverPc,
                          watchdogVars, historyVars>>

Elements(s) == {s[i] : i \in DOMAIN s}

\* A peer of the protocol answers a handshake with its own; anything else that
\* listens there sends something else.
RemoteReplies ==
    /\ remote = "up" /\ ~replied /\ peerSocket = "open"
    /\ \/ "handshake" \in Elements(written) /\ inbound' = <<"handshake">>
       \/ inbound' = <<"other">>
    /\ replied' = TRUE
    /\ RemoteOnly
    /\ UNCHANGED <<remote, remoteReads, messages>>

RemoteSends ==
    /\ remote = "up" /\ replied /\ messages < MaxMessages
    /\ inbound' = Append(inbound, "message")
    /\ messages' = messages + 1
    /\ RemoteOnly
    /\ UNCHANGED <<remote, remoteReads, replied>>

\* The remote peer reads no more.  One that pauses only delays our Write.
RemoteStopsReading ==
    /\ remote = "up" /\ peerSocket = "open" /\ remoteReads
    /\ remoteReads' = FALSE
    /\ RemoteOnly
    /\ UNCHANGED <<remote, inbound, replied, messages>>

RemoteCloses ==
    /\ remote = "up" /\ peerSocket = "open"
    /\ remote' = "closed"
    /\ RemoteOnly
    /\ UNCHANGED <<remoteReads, inbound, replied, messages>>

-----------------------------------------------------------------------------

WatchdogStep == QueueHandshake \/ QueueInterested \/ SelectPeer \/ QueueRequest

SenderStep ==
    \/ CheckHealth \/ PopPacket \/ TestNewborn \/ CreateSocket
    \/ ConnectFails \/ Connected \/ StoreStatus \/ SignalConnect
    \/ TestError \/ Write \/ WriteFails

ReceiverStep ==
    \/ EnterIncoming \/ WaitForConnect \/ ResumeReceiver
    \/ TestInitialized \/ ReadHandshake \/ HandshakeCut \/ TestReceiverError
    \/ TestConnected \/ ReadMessage \/ ReadPastEnd \/ ConnectionDies

RemoteStep ==
    RemoteReplies \/ RemoteSends \/ RemoteStopsReading \/ RemoteCloses

ConnectionNext ==
    WatchdogStep \/ SenderStep \/ ReceiverStep \/ SpuriousWakeup \/ RemoteStep

ConnectionSpec == ConnectionInit /\ [][ConnectionNext]_cvars

\* The threads of the program run when they can, and connect() returns, as the
\* kernel gives up in the end.  The remote peer owes nothing, not even to read
\* what is written to it, and nothing wakes a waiting thread but a signal.
FairConnectionSpec ==
    /\ ConnectionSpec
    /\ WF_cvars(WatchdogStep)
    /\ WF_cvars(SenderStep /\ ~WriteMayHang)
    /\ WF_cvars(ReceiverStep)

-----------------------------------------------------------------------------
(* Properties *)

ConnectionTypeOK ==
    /\ peerConnectionStatus \in
           {"NEWBORN", "PENDING", "INITIALIZED", "CONNECTED", "ERROR"}
    /\ peerSocket \in {"none", "open"}
    /\ connectionHealth \in {"alive", "dead"}
    /\ outgoing \in Seq({"handshake", "interested", "request"})
    /\ syncMutex \in {"free", "sender"}
    /\ packet \in {"none", "handshake", "interested", "request"}
    /\ remoteReads \in BOOLEAN
    /\ inbound \in Seq({"handshake", "other", "message"})
    /\ written \in Seq({"handshake", "interested", "request"})
    /\ requests \in 0 .. MaxRequests /\ messages \in 0 .. MaxMessages
    /\ lateWrites \in Nat

\* The first packet on a socket is the handshake, unless socket() failed for
\* the handshake, which is then dropped: the INTERESTED that swarm_ingestPeer
\* queued behind it connects, and nobody sends the handshake again.
HandshakeComesFirst ==
    written # <<>> /\ ~socketFailed => written[1] = "handshake"

\* Whatever the interleaving of the unlocked status, neither thread uses the
\* descriptor before connect has stored it.
SocketIsOpenWhenUsed ==
    senderPc = "write" \/ receiverPc \in {"handshake", "read"} =>
        peerSocket = "open"

\* No request reaches a peer that has not answered the handshake, although
\* the watchdog queues on a status it read earlier, and the sending and the
\* receiving thread overwrite each other's status.
RequestsFollowGreeting == "request" \in Elements(written) => greeted

\* When the connection is dead the sending thread takes one more packet at
\* most, the one it was already waiting for.
OnePacketAfterDeath == lateWrites <= 1

\* The mutex is held exactly while the sending thread connects: a status of
\* PENDING is never left behind.
PendingIsTransient ==
    /\ syncMutex = "sender" <=> senderPc \in {"connect", "store", "signal", "failed"}
    /\ peerConnectionStatus = "PENDING" => senderPc \in {"connect", "store"}

\* The sending thread blocks for good with packets to send in one place only,
\* the write() to a remote peer that reads no more.  Otherwise each queued
\* packet is taken, or the thread ends because the connection is dead.
QueueIsDrained ==
    \/ <>[]WriteMayHang
    \/ \A n \in 1 .. 2 + MaxRequests :
           Len(outgoing) = n ~> Len(outgoing) # n \/ senderPc = "ended"

\* tcpswarm_comm.c:172, "waiting for connection to be up", and 177, "hopefully,
\* the peer connection status should've changed by now": once the sending
\* thread has connected, the receiving thread reads from the socket, unless
\* the remote peer closes it.
ConnectedSocketIsRead ==
    senderPc = "signal" ~>
        receiverPc \in {"handshake", "read"} \/ remote = "closed"
=============================================================================

------------------------------ MODULE UdpTracker ------------------------------
(***************************************************************************)
(* The UDP tracker (udptracker.c, udptracker_proto.c, udptracker_comm.c)   *)
(* and its watchdog (watchdog_udptracker.c): conversations with a tracker  *)
(* over datagrams that are lost, repeated and reordered.  A step between   *)
(* the locking and the unlocking of lockingMutex is one action.            *)
(*                                                                         *)
(* The tracker is honest, which the code does not check: whatever bears    *)
(* the transaction id of a request is a whole answer to it, of its type or *)
(* an ERROR.  Anybody else may send a stray, which is whole and of a known *)
(* action too, but bears an id of no request.  What the code makes of a    *)
(* datagram shorter than its headers, of an unknown action or of a failed  *)
(* recvfrom is left out: it reads memory that was never written.           *)
(***************************************************************************)
EXTENDS DLinkedList

CONSTANTS
    ConnectID, AnnounceID,  \* two values of rand(), the transaction ids
    ConnectionIDs,          \* what the tracker may answer to a CONNECT
    Announcements,          \* the peer lists it may answer to an ANNOUNCE
    MaxPeersReceived,       \* how many peers the receive buffer has room for
    StrayID,                \* a transaction id of no request
    TorrentIDs,             \* values of uniqueIdentifier, never initialised
    Addresses,              \* what malloc may return
    MaxNetworkFaults,       \* bound: datagrams delivered twice, and strays
    MaxSpurious             \* bound: spurious wakeups of the watchdog

ASSUME UdpTrackerAssumption ==
    /\ ConnectID # AnnounceID /\ StrayID \notin {ConnectID, AnnounceID}
    /\ MaxPeersReceived \in Nat
    /\ NULL \notin Addresses \cup ConnectionIDs
    /\ Announcements \subseteq Seq(UNION {Range(a) : a \in Announcements})

VARIABLES
    trackerStatus, connectionID, trackerOutgoingPacketQueue,
    trackerConversations,   \* a list of addresses of conversations
    conversations,          \* what is allocated at those addresses
    uniqueIdentifier, f,    \* f: the announce was made
    replies,                \* the reply of each processing thread, with its place
    watchdog,               \* "none", then the place of the watchdog's thread
    peerIngestionQueue,     \* the peers pushed for the swarm watchdog
    crashed,                \* the process was killed by a bad pointer
    requests, answers,      \* datagrams on their way to and from the tracker
    copies, strays, spurious,   \* history: faults
    missed                      \* history: a broadcast nobody heard

conversationVars == <<trackerConversations, conversations>>
networkVars == <<requests, answers, copies, strays>>
programVars == <<trackerStatus, connectionID, conversationVars,
                 trackerOutgoingPacketQueue, f, replies, peerIngestionQueue, crashed>>
trackerVars == <<programVars, uniqueIdentifier, watchdog, networkVars,
                 spurious, missed>>

TrackerInit ==
    /\ trackerStatus = "CREATED" /\ connectionID = NULL
    /\ trackerOutgoingPacketQueue = <<>>
    /\ trackerConversations = CreateList /\ conversations = <<>>
    /\ uniqueIdentifier \in TorrentIDs /\ f = FALSE
    /\ replies = <<>>
    /\ watchdog = "none"
    /\ peerIngestionQueue = <<>> /\ crashed = FALSE
    /\ requests = {} /\ answers = {}
    /\ copies = 0 /\ strays = 0 /\ spurious = 0 /\ missed = FALSE

Request(action, id, connection) ==
    [action |-> action, transactionID |-> id, connectionID |-> connection]

\* Operators named Mutant... are slips of the definition that follows: each
\* one breaks a property, which shows that the property depends on the code.
MutantBeginConversation(request, external) ==
    /\ trackerOutgoingPacketQueue' = Append(trackerOutgoingPacketQueue, request)
    /\ UNCHANGED conversationVars

\* A conversation enters the list before its request is queued.  Its
\* supplementalResponseData is not initialised: NULL stands for what is there.
BeginConversation(request, external) ==
    \E c \in Addresses \ DOMAIN conversations,
       element \in Addresses \ DOMAIN trackerConversations.elements :
        /\ conversations' = [a \in DOMAIN conversations \cup {c} |->
               IF a = c THEN [conversationType |-> request.action,
                              converstationStatus |-> "STARTED",
                              conversationID |-> request.transactionID,
                              externalIdentifier |-> external,
                              supplementalResponseData |-> NULL]
               ELSE conversations[a]]
        /\ trackerConversations' = InsertElement(c, trackerConversations, element)
        /\ trackerOutgoingPacketQueue' = Append(trackerOutgoingPacketQueue, request)

Initialize ==
    /\ trackerStatus = "CREATED"
    /\ trackerStatus' = "INITIALIZING"
    /\ BeginConversation(Request("CONNECT", ConnectID, 0), 0)
    /\ UNCHANGED <<connectionID, uniqueIdentifier, f, replies, watchdog,
                   peerIngestionQueue, crashed, networkVars, spurious, missed>>

\* The main thread starts the watchdog's thread after it sent the CONNECT.
SubmitWatchdog ==
    /\ trackerStatus # "CREATED" /\ watchdog = "none"
    /\ watchdog' = "ready"
    /\ UNCHANGED <<programVars, uniqueIdentifier, networkVars, spurious, missed>>

(* The connection pool's threads, and the tracker at the other end *)

Send ==
    /\ trackerOutgoingPacketQueue # <<>>
    /\ requests' = requests \cup {Head(trackerOutgoingPacketQueue)}
    /\ trackerOutgoingPacketQueue' = Tail(trackerOutgoingPacketQueue)
    /\ UNCHANGED <<trackerStatus, connectionID, conversationVars, f, replies,
                   peerIngestionQueue, crashed, uniqueIdentifier, watchdog,
                   answers, copies, strays, spurious, missed>>

Lose == /\ \/ \E d \in requests : requests' = requests \ {d} /\ UNCHANGED answers
           \/ \E d \in answers : answers' = answers \ {d} /\ UNCHANGED requests
        /\ UNCHANGED <<programVars, uniqueIdentifier, watchdog, copies,
                       strays, spurious, missed>>

\* A datagram leaves the network, or another copy of it stays there.
Delivered(d, before, after) ==
    \/ after = before \ {d} /\ UNCHANGED copies
    \/ /\ after = before /\ copies + strays < MaxNetworkFaults
       /\ copies' = copies + 1

Answers(r) ==
    LET bodies == IF r.action = "CONNECT" THEN ConnectionIDs ELSE Announcements
    IN  [action : {r.action}, transactionID : {r.transactionID}, body : bodies]
        \cup [action : {"ERROR"}, transactionID : {r.transactionID}, body : {NULL}]

Answer == \E r \in requests :
    /\ Delivered(r, requests, requests')
    /\ \E a \in Answers(r) : answers' = answers \cup {a}
    /\ UNCHANGED <<programVars, uniqueIdentifier, watchdog, strays, spurious,
                   missed>>

\* The receive buffer of 1500 bytes cuts a longer datagram, and the number of
\* peers is taken from what is left.
Fit(peers) == SubSeq(peers, 1, IF Len(peers) <= MaxPeersReceived
                               THEN Len(peers) ELSE MaxPeersReceived)

\* The data of an ERROR is not parsed: its packetData is NULL.
ReplyFrom(d) ==
    [packetType |-> d.action,
     packetTransactionID |-> d.transactionID,
     packetData |-> IF d.action = "ANNOUNCE" THEN Fit(d.body) ELSE d.body,
     place |-> "received"]

\* Every datagram is processed by a thread of its own.
StartProcessing(d) ==
    /\ replies' = Append(replies, ReplyFrom(d))
    /\ UNCHANGED <<trackerStatus, connectionID, conversationVars,
                   trackerOutgoingPacketQueue, f, peerIngestionQueue, crashed,
                   uniqueIdentifier, watchdog, requests, spurious, missed>>

Receive == \E d \in answers : /\ Delivered(d, answers, answers')
                              /\ StartProcessing(d)
                              /\ UNCHANGED strays

Strays == [action : {"CONNECT"}, transactionID : {StrayID}, body : ConnectionIDs]
          \cup [action : {"ANNOUNCE"}, transactionID : {StrayID}, body : {<<>>}]
          \cup [action : {"SCRAPE", "ERROR"}, transactionID : {StrayID}, body : {NULL}]

\* The sender of a datagram is not looked at.  The socket has an address from
\* the first datagram on that it sent.
ReceiveStray ==
    /\ trackerStatus # "CREATED"
    /\ Request("CONNECT", ConnectID, 0) \notin Range(trackerOutgoingPacketQueue)
    /\ copies + strays < MaxNetworkFaults /\ strays' = strays + 1
    /\ \E d \in Strays : StartProcessing(d)
    /\ UNCHANGED <<answers, copies>>

(* A processing thread *)

\* Replies meant for the watchdog are kept with their conversations.
ShouldClear(reply) == reply.packetType \notin {"ANNOUNCE", "SCRAPE"}

ConversationOf(reply) ==
    GetCustomElement(trackerConversations,
        {c \in DOMAIN conversations :
            conversations[c].conversationID = reply.packetTransactionID})

MutantBroadcast == UNCHANGED watchdog /\ missed' = missed

Broadcast == /\ watchdog' = IF watchdog = "waiting" THEN "woken" ELSE watchdog
             /\ missed' = (missed \/ watchdog \in {"none", "ready"})

MutantUpdateConversation(t, c) ==
    /\ conversations' = [conversations EXCEPT ![c].converstationStatus = "FINISHED",
                                              ![c].supplementalResponseData = t]
    /\ UNCHANGED trackerConversations

UpdateConversation(t, c) ==
    IF ShouldClear(replies[t])
    THEN /\ trackerConversations' = DeleteElement(c, trackerConversations)
         /\ conversations' = Restrict(conversations, DOMAIN conversations \ {c})
    ELSE /\ conversations' =
                [conversations EXCEPT ![c].converstationStatus = "FINISHED",
                                      ![c].supplementalResponseData = t]
         /\ UNCHANGED trackerConversations

\* With the mutex.  The reply is stored in its conversation before it is known
\* that there is one: without it the store is through NULL.
ProcessResponse(t) ==
    /\ replies[t].place = "received" /\ watchdog # "draining"
    /\ IF replies[t].packetType = "CONNECT"
       THEN connectionID' = replies[t].packetData /\ trackerStatus' = "INITIALIZED"
       ELSE UNCHANGED <<connectionID, trackerStatus>>
    /\ LET c == ConversationOf(replies[t])
       IN  IF c = NULL
           THEN /\ crashed' = TRUE
                /\ UNCHANGED <<conversationVars, replies, watchdog, missed>>
           ELSE /\ UpdateConversation(t, c)
                /\ replies' = [replies EXCEPT ![t].place =
                                  IF ShouldClear(replies[t]) THEN "clearing" ELSE "kept"]
                /\ Broadcast
                /\ UNCHANGED crashed
    /\ UNCHANGED <<trackerOutgoingPacketQueue, f, peerIngestionQueue,
                   uniqueIdentifier, networkVars, spurious>>

\* The error message of a reply without packetData is read through NULL.
DestroyReplyPacket(t) ==
    /\ replies[t].place = "clearing"
    /\ IF replies[t].packetType = "ERROR"
       THEN crashed' = TRUE /\ UNCHANGED replies
       ELSE replies' = [replies EXCEPT ![t].place = "freed"] /\ UNCHANGED crashed
    /\ UNCHANGED <<trackerStatus, connectionID, conversationVars,
                   trackerOutgoingPacketQueue, f, peerIngestionQueue,
                   uniqueIdentifier, watchdog, networkVars, spurious, missed>>

(* The watchdog's thread *)

Wait == /\ watchdog = "ready" /\ watchdog' = "waiting"
        /\ UNCHANGED <<programVars, uniqueIdentifier, networkVars, spurious, missed>>

SpuriousWakeup ==
    /\ watchdog = "waiting" /\ spurious < MaxSpurious
    /\ watchdog' = "woken" /\ spurious' = spurious + 1
    /\ UNCHANGED <<programVars, uniqueIdentifier, networkVars, missed>>

BeginAnnounce ==
    /\ BeginConversation(Request("ANNOUNCE", AnnounceID, connectionID),
                         uniqueIdentifier)
    /\ f' = TRUE /\ watchdog' = "ready"

UnchangedByWork == <<conversationVars, trackerOutgoingPacketQueue, f>>

MutantWork == IF ~f THEN BeginAnnounce
              ELSE watchdog' = "draining" /\ UNCHANGED UnchangedByWork

Work ==
    IF trackerStatus # "INITIALIZED"
    THEN watchdog' = "ready" /\ UNCHANGED UnchangedByWork
    ELSE IF ~f THEN BeginAnnounce
    ELSE watchdog' = "draining" /\ UNCHANGED UnchangedByWork

\* After the wait, and back to the start of the executor.
Execute ==
    /\ watchdog = "woken"
    /\ Work
    /\ UNCHANGED <<trackerStatus, connectionID, uniqueIdentifier, replies,
                   peerIngestionQueue, crashed, networkVars, spurious, missed>>

\* A conversation is taken out, finished or not, and its reply is destroyed: of
\* one that is not finished, the pointer that happens to be there.
TakeConversation(c) ==
    LET finished == conversations[c].converstationStatus = "FINISHED"
        t == conversations[c].supplementalResponseData
    IN  /\ peerIngestionQueue' =
               IF finished /\ conversations[c].conversationType = "ANNOUNCE"
               THEN peerIngestionQueue \o replies[t].packetData
               ELSE peerIngestionQueue
        /\ trackerConversations' = DeleteElement(c, trackerConversations)
        /\ conversations' = Restrict(conversations, DOMAIN conversations \ {c})
        /\ IF finished
           THEN replies' = [replies EXCEPT ![t].place = "freed"] /\ UNCHANGED crashed
           ELSE crashed' \in BOOLEAN /\ UNCHANGED replies

\* A turn of the loop over the conversations about the torrent.  The watchdog
\* holds lockingMutex from its wakeup to the end of the loop.
DrainConversations ==
    /\ watchdog = "draining"
    /\ LET found == GetCustomElement(trackerConversations,
               {c \in DOMAIN conversations :
                   conversations[c].externalIdentifier = uniqueIdentifier})
       IN  IF found # NULL
           THEN TakeConversation(found) /\ UNCHANGED watchdog
           ELSE /\ watchdog' = "ready"
                /\ UNCHANGED <<conversationVars, replies, peerIngestionQueue, crashed>>
    /\ UNCHANGED <<trackerStatus, connectionID, uniqueIdentifier, networkVars,
                   trackerOutgoingPacketQueue, f, spurious, missed>>

ProcessingStep(t) == ProcessResponse(t) \/ DestroyReplyPacket(t)
WatchdogStep == Wait \/ Execute \/ DrainConversations

TrackerNext ==
    /\ ~crashed
    /\ \/ Initialize \/ SubmitWatchdog
       \/ Send \/ Lose \/ Answer \/ Receive \/ ReceiveStray
       \/ \E t \in DOMAIN replies : ProcessingStep(t)
       \/ WatchdogStep \/ SpuriousWakeup

-----------------------------------------------------------------------------
(* Properties *)

\* An ANNOUNCE is only ever sent with a connection id that the tracker gave.
TrackerTypeOK ==
    /\ trackerStatus \in {"CREATED", "INITIALIZING", "INITIALIZED"}
    /\ connectionID \in ConnectionIDs \cup {NULL}
    /\ Range(ElementData(trackerConversations)) = DOMAIN conversations
    /\ Range(trackerOutgoingPacketQueue) \cup requests \subseteq
           {Request("CONNECT", ConnectID, 0)}
           \cup {Request("ANNOUNCE", AnnounceID, id) : id \in ConnectionIDs}
    /\ watchdog \in {"none", "ready", "waiting", "woken", "draining"}
    /\ f \in BOOLEAN /\ crashed \in BOOLEAN

\* While the process lives, a finished conversation owns one reply of its type
\* that nobody else frees; and unless a datagram came twice, every reply that
\* was kept for the watchdog has a conversation through which it is found.
RepliesAreOwnedOnce ==
    LET ownersOf(t) == {c \in DOMAIN conversations :
                           /\ conversations[c].converstationStatus = "FINISHED"
                           /\ conversations[c].supplementalResponseData = t}
    IN  ~crashed =>
            /\ \A t \in DOMAIN replies : \A c \in ownersOf(t) :
                   /\ replies[t].place = "kept"
                   /\ replies[t].packetType = conversations[c].conversationType
                   /\ ownersOf(t) = {c}
            /\ copies = 0 => \A t \in DOMAIN replies :
                   replies[t].place = "kept" => ownersOf(t) # {}

AnnounceIsFinished ==
    \E c \in DOMAIN conversations : /\ conversations[c].conversationType = "ANNOUNCE"
                                    /\ conversations[c].converstationStatus = "FINISHED"

\* The watchdog acts on every answer that is processed: on the connection id by
\* an announce, on an announce by handing its peers over; unless a broadcast
\* came while the watchdog was not waiting, which it then never hears of.
AnswersAreActedOn ==
    /\ trackerStatus = "INITIALIZED" ~> (f \/ crashed \/ missed)
    /\ AnnounceIsFinished ~> (~AnnounceIsFinished \/ crashed \/ missed)
=============================================================================

-------------------------- MODULE PeerSourcesProofs --------------------------
(***************************************************************************)
(* Proofs of the sources of peers, for any number of answers, announced    *)
(* lists, torrents, duplicated datagrams, strays and spurious wakeups, and *)
(* any room in the receive buffer.                                         *)
(*                                                                         *)
(* The tracker's properties are inductive only together with where the two *)
(* transactions can be: there is at most one conversation; unless a        *)
(* datagram came twice, one message at most carries a transaction id; and  *)
(* unless there was a fault, the conversation of a message that is under   *)
(* way has not finished.                                                   *)
(***************************************************************************)
EXTENDS PeerSources, DLinkedListProofs, FiniteSetTheorems

IDs == {ConnectID, AnnounceID}

RequestSet == {Request("CONNECT", ConnectID, 0)}
              \cup {Request("ANNOUNCE", AnnounceID, id) : id \in ConnectionIDs}

\* The lists that a reply to an ANNOUNCE may hold.
Lists == {Fit(peers) : peers \in Announcements}

\* What each kind of answer holds.
BodyOK(action, id, body, lists) ==
    \/ action = "CONNECT" /\ id = ConnectID /\ body \in ConnectionIDs
    \/ action = "ANNOUNCE" /\ id = AnnounceID /\ body \in lists
    \/ action = "ERROR" /\ id \in IDs /\ body = NULL

\* A reply is cleared by its own thread unless it answers an ANNOUNCE.
PlaceOK(action, place) ==
    \/ place \in {"received", "freed"}
    \/ place = "clearing" /\ action # "ANNOUNCE"
    \/ place = "kept" /\ action = "ANNOUNCE"

AnswerOK(a) == BodyOK(a.action, a.transactionID, a.body, Announcements)

\* A reply to no request never gets further: its thread follows a bad pointer.
StrayOK(r) ==
    /\ r.packetTransactionID = StrayID /\ r.place = "received"
    /\ r.packetType = "CONNECT" => r.packetData \in ConnectionIDs

SentOK(r) ==
    /\ BodyOK(r.packetType, r.packetTransactionID, r.packetData, Lists)
    /\ PlaceOK(r.packetType, r.place)

\* The replies of the processing threads.
Replies ==
    {r \in [packetType : {"CONNECT", "ANNOUNCE", "SCRAPE", "ERROR"},
            packetTransactionID : IDs \cup {StrayID},
            packetData : ConnectionIDs \cup Lists \cup {NULL, Fit(<<>>)},
            place : {"received", "clearing", "kept", "freed"}] :
        SentOK(r) \/ StrayOK(r)}

\* The first conversation is about the connection, the only other one about the
\* announce.
ConversationOK(v, announced, torrent) ==
    /\ DOMAIN v = {"conversationType", "converstationStatus", "conversationID",
                   "externalIdentifier", "supplementalResponseData"}
    /\ IF announced
       THEN /\ v.conversationType = "ANNOUNCE" /\ v.conversationID = AnnounceID
            /\ v.externalIdentifier = torrent
            /\ v.converstationStatus \in {"STARTED", "FINISHED"}
       ELSE /\ v.conversationType = "CONNECT" /\ v.conversationID = ConnectID
            /\ v.converstationStatus = "STARTED"

NoStray == \A t \in DOMAIN replies : replies[t].packetTransactionID # StrayID

TypesInv ==
    /\ trackerStatus \in {"CREATED", "INITIALIZING", "INITIALIZED"}
    /\ connectionID \in ConnectionIDs \cup {NULL}
    /\ trackerOutgoingPacketQueue \in Seq(RequestSet)
    /\ requests \subseteq RequestSet
    /\ \A a \in answers : AnswerOK(a)
    /\ replies \in Seq(Replies)
    /\ watchdog \in {"none", "ready", "waiting", "woken", "draining"}
    /\ f \in BOOLEAN /\ crashed \in BOOLEAN
    /\ copies \in Nat /\ strays \in Nat /\ spurious \in Nat
    /\ strays = 0 => NoStray
    /\ peerIngestionQueue \in Lists \cup {<<>>}

\* There is at most one conversation.
ListInv ==
    /\ IsList(trackerConversations, Addresses, Addresses)
    /\ \/ DOMAIN conversations = {} /\ ElementData(trackerConversations) = <<>>
       \/ \E c \in Addresses : /\ DOMAIN conversations = {c}
                               /\ ElementData(trackerConversations) = <<c>>
    /\ \A c \in DOMAIN conversations :
           ConversationOK(conversations[c], f, uniqueIdentifier)

\* Where a transaction id is.
QueuedAt(id) == {q \in DOMAIN trackerOutgoingPacketQueue :
                    trackerOutgoingPacketQueue[q].transactionID = id}
Requested(id) == {r \in requests : r.transactionID = id}
Answered(id) == {a \in answers : a.transactionID = id}
RepliedBy(id) == {t \in DOMAIN replies : replies[t].packetTransactionID = id}
ReceivedBy(id) == {t \in RepliedBy(id) : replies[t].place = "received"}

NeverSent(id) == /\ QueuedAt(id) = {} /\ Requested(id) = {}
                 /\ Answered(id) = {} /\ RepliedBy(id) = {}

AtMostOne(S) == \A x, y \in S : x = y

SentOnce(id) ==
    /\ AtMostOne(QueuedAt(id)) /\ AtMostOne(Requested(id))
    /\ AtMostOne(Answered(id)) /\ AtMostOne(RepliedBy(id))
    /\ QueuedAt(id) = {} \/ Requested(id) = {}
    /\ QueuedAt(id) = {} \/ Answered(id) = {}
    /\ QueuedAt(id) = {} \/ RepliedBy(id) = {}
    /\ Requested(id) = {} \/ Answered(id) = {}
    /\ Requested(id) = {} \/ RepliedBy(id) = {}
    /\ Answered(id) = {} \/ RepliedBy(id) = {}

UnderWay(id) == \/ QueuedAt(id) # {} \/ Requested(id) # {}
                \/ Answered(id) # {} \/ ReceivedBy(id) # {}

\* The order of the connection and the announce.
PhasesInv ==
    /\ trackerStatus = "CREATED" =>
           /\ NeverSent(ConnectID) /\ DOMAIN conversations = {}
           /\ watchdog = "none" /\ ~crashed /\ strays = 0
    /\ trackerStatus = "INITIALIZED" => connectionID \in ConnectionIDs
    /\ f => trackerStatus = "INITIALIZED"
    /\ ~f => NeverSent(AnnounceID)
    /\ watchdog = "draining" => f
    /\ trackerStatus = "INITIALIZED" /\ ~f /\ ~crashed => DOMAIN conversations = {}
    /\ ~f \/ DOMAIN conversations # {} => peerIngestionQueue = <<>>

OnceInv == copies = 0 => \A id \in IDs : SentOnce(id)

Finished(c) == conversations[c].converstationStatus = "FINISHED"
Owns(c, t) == Finished(c) /\ conversations[c].supplementalResponseData = t

OwnersInv ==
    ~crashed =>
        /\ \A c \in DOMAIN conversations : Finished(c) =>
               \E t \in DOMAIN replies : Owns(c, t) /\ replies[t].place = "kept"
        /\ copies = 0 =>
               \A t \in DOMAIN replies : replies[t].place = "kept" =>
                   \E c \in DOMAIN conversations : Owns(c, t)

NoError == \A t \in DOMAIN replies : replies[t].packetType # "ERROR"
NoFault == copies = 0 /\ strays = 0 /\ spurious = 0 /\ NoError

\* Without a fault, who owns a message that is under way still waits for it, and
\* the watchdog only wakes up when there is an answer.
FaultInv ==
    NoFault =>
        /\ ~crashed
        /\ \A id \in IDs : UnderWay(id) =>
               \E c \in DOMAIN conversations :
                   conversations[c].conversationID = id /\ ~Finished(c)
        /\ watchdog \in {"woken", "draining"} /\ f =>
               \A c \in DOMAIN conversations : Finished(c)

TrackerInv == TypesInv /\ ListInv /\ PhasesInv /\ OnceInv /\ OwnersInv /\ FaultInv

-----------------------------------------------------------------------------
(* The list of conversations *)

\* What the constants are.
LEMMA Constants ==
    /\ ConnectID # AnnounceID /\ NULL \notin Addresses /\ NULL \notin ConnectionIDs
    /\ StrayID \notin IDs
    /\ \A list \in Lists : <<>> \o list = list
<1>1. \A a \in Announcements : a \in Seq(UNION {Range(b) : b \in Announcements})
  BY UdpTrackerAssumption, Zenon
<1>2. ASSUME NEW S, NEW a \in Seq(S) PROVE <<>> \o Fit(a) = Fit(a)
  <2>1. Fit(a) \in Seq(S)
    <3> DEFINE m == IF Len(a) <= MaxPeersReceived THEN Len(a) ELSE MaxPeersReceived
    <3>1. m \in 0 .. Len(a)
      BY LenProperties, UdpTrackerAssumption
    <3> QED
      BY <3>1, SubSeqProperties DEF Fit
  <2> QED
    BY <2>1, ConcatEmptySeq
<1>3. \A list \in Lists : <<>> \o list = list
  BY <1>1, <1>2 DEF Lists
<1> QED
  BY <1>3, UdpTrackerAssumption DEF IDs

\* Any search finds the only conversation, if it matches.
LEMMA FindConversation ==
    ASSUME ListInv, NEW matching
    PROVE  LET c == GetCustomElement(trackerConversations, matching)
           IN  /\ c # NULL => c \in DOMAIN conversations \cap matching
               /\ c = NULL => DOMAIN conversations \cap matching = {}
<1> DEFINE s == ElementData(trackerConversations)
           i == First(trackerConversations, matching)
           c == GetCustomElement(trackerConversations, matching)
<1>1. IsFirst(i, s, matching) /\ c = IF i = 0 THEN NULL ELSE s[i]
  BY QueriesAnswer DEF ListInv
<1>2. NULL \notin Addresses
  BY Constants
<1> HIDE DEF s, i, c
<1>3. CASE DOMAIN conversations = {} /\ s = <<>>
  <2>1. Len(s) = 0
    BY <1>3
  <2>2. i = 0
    BY <1>1, <2>1 DEF IsFirst
  <2> QED
    BY <1>1, <1>3, <2>2 DEF c
<1>4. CASE \E a \in Addresses : DOMAIN conversations = {a} /\ s = <<a>>
  <2>1. PICK a \in Addresses : DOMAIN conversations = {a} /\ s = <<a>>
    BY <1>4
  <2>2. Len(s) = 1 /\ s[1] = a /\ 1 \in 1 .. 1 /\ \A j \in 1 .. 1 : j = 1
    BY <2>1
  <2>3. CASE a \in matching
    <3>1. i = 1
      BY <1>1, <2>2, <2>3 DEF IsFirst
    <3> QED
      BY <1>1, <1>2, <2>1, <2>2, <2>3, <3>1 DEF c
  <2>4. CASE a \notin matching
    <3>1. i = 0
      BY <1>1, <2>2, <2>4 DEF IsFirst
    <3> QED
      BY <1>1, <2>1, <2>4, <3>1 DEF c
  <2> QED
    BY <2>3, <2>4
<1> QED
  BY <1>3, <1>4 DEF ListInv, s

\* Taking the conversation out leaves an empty list.
LEMMA DeleteConversation ==
    ASSUME ListInv, NEW c \in DOMAIN conversations
    PROVE  /\ DOMAIN conversations = {c} /\ c \in Addresses
           /\ IsList(DeleteElement(c, trackerConversations), Addresses, Addresses)
           /\ ElementData(DeleteElement(c, trackerConversations)) = <<>>
<1> DEFINE s == ElementData(trackerConversations)
<1>1. DOMAIN conversations = {c} /\ c \in Addresses /\ s = <<c>>
  BY DEF ListInv
<1>2. /\ IsList(DeleteElement(c, trackerConversations), Addresses, Addresses)
      /\ ElementData(DeleteElement(c, trackerConversations)) = RemoveFirst(s, c)
  BY Constants, DeleteElementRemoves DEF ListInv
<1>3. RemoveFirst(<<c>>, c) = <<>>
  <2> DEFINE i == SelectInSeq(<<c>>, LAMBDA v : v = c)
  <2>1. <<c>> \in Seq({c}) /\ Len(<<c>>) = 1 /\ 1 \in 1 .. 1 /\ <<c>>[1] = c
    OBVIOUS
  <2>2. i = 1
    <3>1. {j \in 1 .. Len(<<c>>) : <<c>>[j] = c} = {1}
      BY <2>1
    <3>2. i = Min({1})
      BY <3>1, Zenon DEF SelectInSeq
    <3> QED
      BY <3>2 DEF Min
  <2>3. RemoveFirst(<<c>>, c) = RemoveAt(<<c>>, 1)
    BY <2>1, <2>2, Zenon DEF RemoveFirst
  <2>4. RemoveAt(<<c>>, 1) \in Seq({c}) /\ Len(RemoveAt(<<c>>, 1)) = Len(<<c>>) - 1
    BY <2>1, RemoveAtProperties
  <2> QED
    BY <2>1, <2>3, <2>4
<1> QED
  BY <1>1, <1>2, <1>3

\* A conversation that is begun when there is none is the only one.
LEMMA InsertConversation ==
    ASSUME IsList(trackerConversations, Addresses, Addresses),
           ElementData(trackerConversations) = <<>>,
           NEW c \in Addresses,
           NEW element \in Addresses \ DOMAIN trackerConversations.elements
    PROVE  LET new == InsertElement(c, trackerConversations, element)
           IN  IsList(new, Addresses, Addresses) /\ ElementData(new) = <<c>>
<1>1. LET new == InsertElement(c, trackerConversations, element)
      IN  /\ IsList(new, Addresses, Addresses)
          /\ ElementData(new) = Append(ElementData(trackerConversations), c)
  <2>1. NULL \notin Addresses
    BY Constants
  <2>2. PICK list, A : list = trackerConversations /\ A = Addresses
    OBVIOUS
  <2>3. /\ IsList(list, A, A) /\ NULL \notin A
        /\ c \in A /\ element \in A \ DOMAIN list.elements
    BY <2>1, <2>2
  <2>4. /\ IsList(InsertElement(c, list, element), A, A)
        /\ ElementData(InsertElement(c, list, element)) = Append(ElementData(list), c)
    BY <2>3, InsertAppends
  <2> QED
    BY <2>2, <2>4
<1>2. Append(<<>>, c) = <<c>>
  OBVIOUS
<1> QED
  BY <1>1, <1>2

-----------------------------------------------------------------------------
(* The steps of the tracker *)

\* Nothing has been sent when the tracker is created.
LEMMA InitTracker == ASSUME TrackerInit PROVE TrackerInv
<1>1. TypesInv
  <2>1. <<>> \in Seq(RequestSet) /\ <<>> \in Seq(Replies)
    BY EmptySeq
  <2>2. NoStray
    BY DEF TrackerInit, NoStray
  <2> QED
    BY <2>1, <2>2 DEF TrackerInit, TypesInv
<1>2. DOMAIN conversations = {} /\ DOMAIN replies = {}
      /\ DOMAIN trackerOutgoingPacketQueue = {}
  BY DEF TrackerInit
<1>3. \A id : NeverSent(id)
  BY <1>2 DEF TrackerInit, NeverSent, QueuedAt, Requested, Answered, RepliedBy
<1>4. ListInv
  BY <1>2, Constants, CreateIsEmpty DEF TrackerInit, ListInv
<1>5. PhasesInv /\ OwnersInv
  BY <1>2, <1>3 DEF TrackerInit, PhasesInv, OwnersInv
<1>6. OnceInv
  BY <1>3 DEF OnceInv, SentOnce, NeverSent, AtMostOne
<1>7. FaultInv
  BY <1>2, <1>3 DEF TrackerInit, FaultInv, UnderWay, NeverSent, ReceivedBy
<1> QED
  BY <1>1, <1>4, <1>5, <1>6, <1>7 DEF TrackerInv

\* What a request in the queue, and one under way, may be.
LEMMA RequestTypes ==
    \A r \in RequestSet :
        /\ r.action \in {"CONNECT", "ANNOUNCE"} /\ r.transactionID \in IDs
        /\ r.action = "CONNECT" <=> r.transactionID = ConnectID
BY Constants DEF RequestSet, Request, IDs

\* A step of the watchdog that moves no message and no conversation.
LEMMA WatchdogMoves ==
    ASSUME TrackerInv, ~crashed, trackerStatus # "CREATED",
           UNCHANGED <<trackerStatus, connectionID, trackerConversations,
                       conversations, trackerOutgoingPacketQueue, f, replies,
                       peerIngestionQueue, crashed, uniqueIdentifier, requests,
                       answers, copies, strays>>,
           watchdog' \in {"ready", "waiting", "woken", "draining"},
           watchdog' = "draining" => f,
           spurious' \in Nat,
           spurious' = 0 => /\ spurious = 0
                            /\ watchdog' \in {"woken", "draining"} => watchdog = "woken"
    PROVE  TrackerInv'
<1>1. TypesInv' /\ ListInv'
  BY DEF TrackerInv, TypesInv, ListInv, NoStray
<1>2. \A id : /\ QueuedAt(id)' = QueuedAt(id) /\ Requested(id)' = Requested(id)
              /\ Answered(id)' = Answered(id) /\ RepliedBy(id)' = RepliedBy(id)
              /\ ReceivedBy(id)' = ReceivedBy(id)
  BY DEF QueuedAt, Requested, Answered, RepliedBy, ReceivedBy
<1>3. PhasesInv' /\ OnceInv'
  BY <1>2 DEF TrackerInv, PhasesInv, NeverSent, OnceInv, SentOnce
<1>4. OwnersInv'
  BY DEF TrackerInv, OwnersInv, Owns, Finished
<1>5. FaultInv'
  BY <1>2 DEF TrackerInv, FaultInv, NoFault, NoError, UnderWay, Finished
<1> QED
  BY <1>1, <1>3, <1>4, <1>5 DEF TrackerInv

\* The watchdog's thread starts, waits, or wakes up for no reason.
LEMMA IdleSteps ==
    ASSUME TrackerInv, ~crashed, SubmitWatchdog \/ Wait \/ SpuriousWakeup
    PROVE  TrackerInv'
<1>1. UNCHANGED <<trackerStatus, connectionID, trackerConversations, conversations,
                  trackerOutgoingPacketQueue, f, replies, peerIngestionQueue, crashed,
                  uniqueIdentifier, requests, answers, copies, strays>>
  BY DEF SubmitWatchdog, Wait, SpuriousWakeup, programVars, networkVars, conversationVars
<1>2. \/ watchdog' \in {"ready", "waiting"} /\ spurious' = spurious
      \/ spurious' = spurious + 1 /\ watchdog' = "woken"
  BY DEF SubmitWatchdog, Wait, SpuriousWakeup
<1>3. trackerStatus # "CREATED"
  BY DEF SubmitWatchdog, Wait, SpuriousWakeup, TrackerInv, PhasesInv
<1>4. spurious \in Nat
  BY DEF TrackerInv, TypesInv
<1>5. /\ spurious' \in Nat /\ watchdog' \in {"ready", "waiting", "woken"}
      /\ spurious' = 0 => spurious = 0 /\ watchdog' # "woken"
  BY <1>2, <1>4
<1> QED
  BY <1>1, <1>3, <1>5, WatchdogMoves

\* Appending to a sequence adds one position.
LEMMA AppendOne ==
    ASSUME NEW S, NEW s \in Seq(S), NEW e \in S
    PROVE  /\ Append(s, e) \in Seq(S)
           /\ DOMAIN Append(s, e) = DOMAIN s \cup {Len(s) + 1}
           /\ Len(s) + 1 \notin DOMAIN s
           /\ \A i \in DOMAIN s : Append(s, e)[i] = s[i]
           /\ Append(s, e)[Len(s) + 1] = e
<1> DEFINE t == Append(s, e)
<1>1. /\ t \in Seq(S) /\ Len(t) = Len(s) + 1
      /\ \A i \in 1 .. Len(s) : t[i] = s[i]
      /\ t[Len(s) + 1] = e
  BY AppendProperties
<1>2. /\ Len(s) \in Nat /\ DOMAIN s = 1 .. Len(s)
      /\ DOMAIN t = 1 .. Len(t)
  BY <1>1, LenProperties
<1> HIDE DEF t
<1>3. DOMAIN t = DOMAIN s \cup {Len(s) + 1} /\ Len(s) + 1 \notin DOMAIN s
  BY <1>1, <1>2
<1> QED
  BY <1>1, <1>2, <1>3 DEF t

\* The first request, with the first conversation.
LEMMA InitializeStep ==
    ASSUME TrackerInv, ~crashed, Initialize
    PROVE  TrackerInv'
<1> DEFINE request == Request("CONNECT", ConnectID, 0)
<1>1. /\ UNCHANGED <<connectionID, f, replies, peerIngestionQueue, crashed,
                     uniqueIdentifier, requests, answers, copies, strays, spurious, watchdog>>
      /\ trackerStatus = "CREATED" /\ trackerStatus' = "INITIALIZING"
  BY DEF Initialize, networkVars
<1>2. /\ DOMAIN conversations = {} /\ f = FALSE /\ watchdog = "none"
      /\ \A id \in IDs : NeverSent(id)
  BY <1>1 DEF TrackerInv, PhasesInv, TypesInv, IDs
<1>3. PICK c \in Addresses, element \in Addresses \ DOMAIN trackerConversations.elements :
          /\ conversations' = [a \in {c} |->
                 [conversationType |-> "CONNECT", converstationStatus |-> "STARTED",
                  conversationID |-> ConnectID, externalIdentifier |-> 0,
                  supplementalResponseData |-> NULL]]
          /\ trackerConversations' = InsertElement(c, trackerConversations, element)
          /\ trackerOutgoingPacketQueue' = Append(trackerOutgoingPacketQueue, request)
  <2>1. \A a, c : (a \in {} \cup {c}) => a = c
    OBVIOUS
  <2> QED
    BY <1>2, <2>1 DEF Initialize, BeginConversation, Request
<1>4. ListInv'
  <2>1. ElementData(trackerConversations) = <<>>
    BY <1>2 DEF TrackerInv, ListInv
  <2>2. IsList(trackerConversations', Addresses, Addresses)
        /\ ElementData(trackerConversations') = <<c>>
    BY <1>3, <2>1, InsertConversation DEF TrackerInv, ListInv
  <2>3. DOMAIN conversations' = {c} /\ ConversationOK(conversations'[c], FALSE, uniqueIdentifier)
    BY <1>3 DEF ConversationOK
  <2> QED
    BY <1>1, <1>2, <2>2, <2>3 DEF ListInv
<1>5. request \in RequestSet /\ request.transactionID = ConnectID
  BY DEF RequestSet, Request
<1>6. /\ trackerOutgoingPacketQueue' \in Seq(RequestSet)
      /\ DOMAIN trackerOutgoingPacketQueue' =
             DOMAIN trackerOutgoingPacketQueue \cup {Len(trackerOutgoingPacketQueue) + 1}
      /\ \A q \in DOMAIN trackerOutgoingPacketQueue :
             trackerOutgoingPacketQueue'[q] = trackerOutgoingPacketQueue[q]
      /\ trackerOutgoingPacketQueue'[Len(trackerOutgoingPacketQueue) + 1] = request
  BY <1>3, <1>5, AppendOne DEF TrackerInv, TypesInv
<1> HIDE DEF request
<1>7. \A id \in IDs :
          /\ AtMostOne(QueuedAt(id)')
          /\ QueuedAt(id)' # {} => id = ConnectID
          /\ Requested(id)' = {} /\ Answered(id)' = {} /\ RepliedBy(id)' = {}
  BY <1>1, <1>2, <1>5, <1>6
     DEF NeverSent, QueuedAt, Requested, Answered, RepliedBy, AtMostOne
<1>8. TypesInv'
  BY <1>1, <1>6 DEF TrackerInv, TypesInv, NoStray
<1>9. PhasesInv'
  <2>1. AnnounceID \in IDs /\ AnnounceID # ConnectID
    BY Constants DEF IDs
  <2> QED
    BY <1>1, <1>2, <1>7, <2>1 DEF TrackerInv, PhasesInv, NeverSent
<1>10. OnceInv'
  BY <1>7 DEF OnceInv, SentOnce, AtMostOne
<1>11. DOMAIN replies = {}
  <2>1. \A t \in DOMAIN replies : replies[t] \in Replies /\ NoStray
    BY <1>1, LenProperties, ElementOfSeq DEF TrackerInv, TypesInv, PhasesInv
  <2>2. \A t \in DOMAIN replies : replies[t].packetTransactionID \in IDs
    BY <2>1 DEF Replies, NoStray
  <2> QED
    BY <1>2, <2>2 DEF NeverSent, RepliedBy
<1>12. DOMAIN conversations' = {c} /\ ~Finished(c)' /\ conversations'[c].conversationID = ConnectID
  BY <1>3 DEF Finished
<1>13. OwnersInv'
  BY <1>1, <1>11, <1>12 DEF OwnersInv
<1>14. FaultInv'
  BY <1>1, <1>2, <1>7, <1>12 DEF FaultInv, UnderWay, ReceivedBy
<1> QED
  BY <1>4, <1>8, <1>9, <1>10, <1>13, <1>14 DEF TrackerInv

\* Taking the head off a sequence moves the others one position on.
LEMMA TailOne ==
    ASSUME NEW S, NEW s \in Seq(S), s # <<>>
    PROVE  /\ Tail(s) \in Seq(S) /\ Head(s) = s[1] /\ s[1] \in S /\ 1 \in DOMAIN s
           /\ \A i \in DOMAIN Tail(s) :
                  /\ i \in Nat \ {0} /\ i + 1 \in DOMAIN s
                  /\ Tail(s)[i] = s[i + 1]
<1> DEFINE t == Tail(s)
<1>1. /\ t \in Seq(S) /\ Len(t) = Len(s) - 1 /\ Head(s) \in S
      /\ \A i \in 1 .. Len(t) : t[i] = s[i + 1]
  BY HeadTailProperties
<1>2. /\ Len(s) \in Nat \ {0} /\ DOMAIN s = 1 .. Len(s)
      /\ DOMAIN t = 1 .. Len(t)
  BY <1>1, LenProperties, EmptySeq
<1>3. Head(s) = s[1]
  OBVIOUS
<1> HIDE DEF t
<1>4. \A i \in DOMAIN t : i \in Nat \ {0} /\ i + 1 \in DOMAIN s
  BY <1>1, <1>2
<1> QED
  BY <1>1, <1>2, <1>3, <1>4 DEF t

\* A step that only moves messages, of which none appears from nowhere.
LEMMA MessagesMove ==
    ASSUME TrackerInv, ~crashed, TypesInv',
           UNCHANGED <<trackerStatus, connectionID, trackerConversations,
                       conversations, f, peerIngestionQueue, crashed,
                       uniqueIdentifier, watchdog, spurious>>,
           copies' = 0 => copies = 0,
           strays' = 0 => strays = 0,
           strays' # strays => trackerStatus # "CREATED",
           DOMAIN replies \subseteq DOMAIN replies',
           \A t \in DOMAIN replies : replies'[t] = replies[t],
           \A t \in DOMAIN replies' \ DOMAIN replies : replies'[t].place = "received",
           \A id \in IDs :
               /\ NeverSent(id) => NeverSent(id)'
               /\ UnderWay(id)' => UnderWay(id)
               /\ SentOnce(id) /\ copies' = 0 => SentOnce(id)'
    PROVE  TrackerInv'
<1>1. ListInv'
  BY DEF TrackerInv, ListInv
<1>2. PhasesInv'
  BY DEF TrackerInv, PhasesInv, IDs
<1>3. OnceInv'
  BY DEF TrackerInv, OnceInv
<1>4. \A c, t : Owns(c, t)' = Owns(c, t) /\ Finished(c)' = Finished(c)
  BY DEF Owns, Finished
<1>5. OwnersInv'
  <2>1. \A c \in DOMAIN conversations : Finished(c) =>
            \E t \in DOMAIN replies : Owns(c, t) /\ replies[t].place = "kept"
    BY DEF TrackerInv, OwnersInv
  <2>2. copies = 0 => \A t \in DOMAIN replies : replies[t].place = "kept" =>
            \E c \in DOMAIN conversations : Owns(c, t)
    BY DEF TrackerInv, OwnersInv
  <2>3. \A t \in DOMAIN replies' : replies'[t].place = "kept" =>
            t \in DOMAIN replies /\ replies[t].place = "kept"
    OBVIOUS
  <2> QED
    BY <1>4, <2>1, <2>2, <2>3 DEF OwnersInv
<1>6. FaultInv'
  <2>1. NoFault' => NoFault
    BY DEF NoFault, NoError
  <2> QED
    BY <1>4, <2>1 DEF TrackerInv, FaultInv
<1> QED
  BY <1>1, <1>2, <1>3, <1>5, <1>6 DEF TrackerInv

\* A request leaves the queue.
LEMMA SendStep ==
    ASSUME TrackerInv, ~crashed, Send
    PROVE  TrackerInv'
<1> DEFINE q == trackerOutgoingPacketQueue
           r == q[1]
<1>1. /\ UNCHANGED <<trackerStatus, connectionID, trackerConversations, conversations,
                     f, replies, peerIngestionQueue, crashed, uniqueIdentifier,
                     watchdog, answers, copies, strays, spurious>>
      /\ q # <<>> /\ requests' = requests \cup {Head(q)} /\ q' = Tail(q)
  BY DEF Send, conversationVars
<1>2. q \in Seq(RequestSet)
  BY DEF TrackerInv, TypesInv
<1>3. /\ q' \in Seq(RequestSet) /\ requests' = requests \cup {r}
      /\ r \in RequestSet /\ 1 \in DOMAIN q
      /\ \A i \in DOMAIN q' :
             i \in Nat \ {0} /\ i + 1 \in DOMAIN q /\ q'[i] = q[i + 1]
  BY <1>1, <1>2, TailOne
<1>4. TypesInv'
  BY <1>1, <1>3 DEF TrackerInv, TypesInv, NoStray
<1>5. ASSUME NEW id
      PROVE  /\ \A i \in QueuedAt(id)' : i \in Nat \ {0} /\ i + 1 \in QueuedAt(id)
             /\ r.transactionID = id => 1 \in QueuedAt(id)
             /\ Requested(id)' = Requested(id) \cup (IF r.transactionID = id THEN {r} ELSE {})
             /\ Answered(id)' = Answered(id) /\ RepliedBy(id)' = RepliedBy(id)
             /\ ReceivedBy(id)' = ReceivedBy(id)
  BY <1>1, <1>3 DEF QueuedAt, Requested, Answered, RepliedBy, ReceivedBy
<1>6. ASSUME NEW id
      PROVE  /\ NeverSent(id) => NeverSent(id)'
             /\ UnderWay(id)' => UnderWay(id)
             /\ SentOnce(id) => SentOnce(id)'
  <2>1. NeverSent(id) => NeverSent(id)'
    BY <1>5 DEF NeverSent
  <2>2. UnderWay(id)' => UnderWay(id)
    BY <1>5 DEF UnderWay
  <2>3. AtMostOne(QueuedAt(id)) =>
            /\ AtMostOne(QueuedAt(id)')
            /\ r.transactionID = id => QueuedAt(id)' = {}
    BY <1>5 DEF AtMostOne
  <2>4. SentOnce(id) => SentOnce(id)'
    <3>1. CASE r.transactionID = id
      BY <1>5, <2>3, <3>1 DEF SentOnce, AtMostOne
    <3>2. CASE r.transactionID # id
      BY <1>5, <2>3, <3>2 DEF SentOnce, AtMostOne
    <3> QED
      BY <3>1, <3>2
  <2> QED
    BY <2>1, <2>2, <2>4
<1> QED
  BY <1>1, <1>4, <1>6, MessagesMove

\* A message that is lost is under way no more.
LEMMA LoseStep ==
    ASSUME TrackerInv, ~crashed, Lose
    PROVE  TrackerInv'
<1>1. /\ UNCHANGED <<trackerStatus, connectionID, trackerConversations, conversations,
                     trackerOutgoingPacketQueue, f, replies, peerIngestionQueue,
                     crashed, uniqueIdentifier, watchdog, copies, strays, spurious>>
      /\ requests' \subseteq requests /\ answers' \subseteq answers
  BY DEF Lose, programVars, conversationVars
<1>2. TypesInv'
  BY <1>1 DEF TrackerInv, TypesInv, NoStray
<1>3. ASSUME NEW id
      PROVE  /\ QueuedAt(id)' = QueuedAt(id) /\ Requested(id)' \subseteq Requested(id)
             /\ Answered(id)' \subseteq Answered(id) /\ RepliedBy(id)' = RepliedBy(id)
             /\ ReceivedBy(id)' = ReceivedBy(id)
  BY <1>1 DEF QueuedAt, Requested, Answered, RepliedBy, ReceivedBy
<1>4. ASSUME NEW id
      PROVE  /\ NeverSent(id) => NeverSent(id)'
             /\ UnderWay(id)' => UnderWay(id)
             /\ SentOnce(id) => SentOnce(id)'
  <2>1. SentOnce(id) => SentOnce(id)'
    BY <1>3 DEF SentOnce, AtMostOne
  <2> QED
    BY <1>3, <2>1 DEF NeverSent, UnderWay
<1> QED
  BY <1>1, <1>2, <1>4, MessagesMove

\* Unless it is another copy, a datagram that is delivered is gone.
LEMMA DeliveredOnce ==
    ASSUME TrackerInv, NEW d, NEW before, NEW after, Delivered(d, before, after)
    PROVE  /\ copies' \in Nat /\ after \subseteq before
           /\ copies' = 0 => copies = 0 /\ after = before \ {d}
<1>1. copies \in Nat
  BY DEF TrackerInv, TypesInv
<1> QED
  BY <1>1 DEF Delivered

\* The tracker answers a request under the id of the request.
LEMMA AnswerStep ==
    ASSUME TrackerInv, ~crashed, Answer
    PROVE  TrackerInv'
<1>1. /\ UNCHANGED <<trackerStatus, connectionID, trackerConversations, conversations,
                     trackerOutgoingPacketQueue, f, replies, peerIngestionQueue,
                     crashed, uniqueIdentifier, watchdog, strays, spurious>>
  BY DEF Answer, programVars, conversationVars
<1>2. PICK r \in requests : /\ Delivered(r, requests, requests')
                            /\ \E a \in Answers(r) : answers' = answers \cup {a}
  BY DEF Answer
<1>3. PICK a \in Answers(r) : answers' = answers \cup {a}
  BY <1>2
<1>4. /\ copies' \in Nat /\ requests' \subseteq requests
      /\ copies' = 0 => copies = 0 /\ requests' = requests \ {r}
  BY <1>2, DeliveredOnce
<1>5. r \in RequestSet
  BY DEF TrackerInv, TypesInv
<1>6. AnswerOK(a) /\ a.transactionID = r.transactionID
  BY <1>5, RequestTypes DEF Answers, AnswerOK, BodyOK, RequestSet, Request, IDs
<1>7. TypesInv'
  BY <1>1, <1>3, <1>4, <1>6 DEF TrackerInv, TypesInv, NoStray
<1>8. ASSUME NEW id
      PROVE  /\ QueuedAt(id)' = QueuedAt(id) /\ Requested(id)' \subseteq Requested(id)
             /\ RepliedBy(id)' = RepliedBy(id) /\ ReceivedBy(id)' = ReceivedBy(id)
             /\ r.transactionID = id => r \in Requested(id)
             /\ r.transactionID = id /\ copies' = 0 => Requested(id)' = Requested(id) \ {r}
             /\ Answered(id)' =
                    Answered(id) \cup (IF r.transactionID = id THEN {a} ELSE {})
  BY <1>1, <1>3, <1>4, <1>6 DEF QueuedAt, Requested, Answered, RepliedBy, ReceivedBy
<1>9. ASSUME NEW id
      PROVE  /\ NeverSent(id) => NeverSent(id)'
             /\ UnderWay(id)' => UnderWay(id)
             /\ SentOnce(id) /\ copies' = 0 => SentOnce(id)'
  <2>1. NeverSent(id) => NeverSent(id)'
    BY <1>8 DEF NeverSent
  <2>2. UnderWay(id)' => UnderWay(id)
    BY <1>8 DEF UnderWay
  <2>3. ASSUME SentOnce(id), copies' = 0 PROVE SentOnce(id)'
    <3>1. CASE r.transactionID = id
      BY <1>8, <2>3, <3>1 DEF SentOnce, AtMostOne
    <3>2. CASE r.transactionID # id
      BY <1>8, <2>3, <3>2 DEF SentOnce, AtMostOne
    <3> QED
      BY <3>1, <3>2
  <2> QED
    BY <2>1, <2>2, <2>3
<1> QED
  BY <1>1, <1>4, <1>7, <1>9, MessagesMove

\* A thread is started for a datagram.
LEMMA ProcessingStarts ==
    ASSUME TrackerInv, NEW d, ReplyFrom(d) \in Replies, StartProcessing(d)
    PROVE  LET t == Len(replies) + 1
           IN  /\ UNCHANGED <<trackerStatus, connectionID, trackerConversations,
                              conversations, trackerOutgoingPacketQueue, f,
                              peerIngestionQueue, crashed, uniqueIdentifier,
                              watchdog, requests, spurious>>
               /\ replies' \in Seq(Replies) /\ DOMAIN replies' = DOMAIN replies \cup {t}
               /\ t \notin DOMAIN replies
               /\ \A i \in DOMAIN replies : replies'[i] = replies[i]
               /\ replies'[t].packetTransactionID = d.transactionID
               /\ replies'[t].place = "received"
<1>1. replies \in Seq(Replies) /\ replies' = Append(replies, ReplyFrom(d))
  BY DEF TrackerInv, TypesInv, StartProcessing
<1>2. ReplyFrom(d).packetTransactionID = d.transactionID /\ ReplyFrom(d).place = "received"
  BY DEF ReplyFrom
<1>3. UNCHANGED <<trackerStatus, connectionID, trackerConversations, conversations,
                  trackerOutgoingPacketQueue, f, peerIngestionQueue, crashed,
                  uniqueIdentifier, watchdog, requests, spurious>>
  BY DEF StartProcessing, conversationVars
<1>4. PICK reply : reply = ReplyFrom(d)
  OBVIOUS
<1> QED
  BY <1>1, <1>2, <1>3, <1>4, AppendOne

\* An answer is processed by a new thread.
LEMMA ReceiveStep ==
    ASSUME TrackerInv, ~crashed, Receive
    PROVE  TrackerInv'
<1>2. PICK a \in answers :
          Delivered(a, answers, answers') /\ StartProcessing(a) /\ strays' = strays
  BY DEF Receive
<1>3. /\ copies' \in Nat /\ answers' \subseteq answers
      /\ copies' = 0 => copies = 0 /\ answers' = answers \ {a}
  BY <1>2, DeliveredOnce
<1>4. AnswerOK(a)
  BY DEF TrackerInv, TypesInv
<1>5. ReplyFrom(a) \in Replies
  <2>1. CASE a.action = "ANNOUNCE"
    BY <1>4, <2>1 DEF AnswerOK, ReplyFrom, Replies, SentOK, BodyOK, PlaceOK, IDs, Lists
  <2>2. CASE a.action # "ANNOUNCE"
    BY <1>4, <2>2 DEF AnswerOK, ReplyFrom, Replies, SentOK, BodyOK, PlaceOK, IDs
  <2> QED
    BY <2>1, <2>2
<1> DEFINE t == Len(replies) + 1
<1>6. /\ UNCHANGED <<trackerStatus, connectionID, trackerConversations, conversations,
                     trackerOutgoingPacketQueue, f, peerIngestionQueue,
                     crashed, uniqueIdentifier, watchdog, requests, spurious>>
      /\ replies' \in Seq(Replies) /\ DOMAIN replies' = DOMAIN replies \cup {t}
      /\ t \notin DOMAIN replies
      /\ \A i \in DOMAIN replies : replies'[i] = replies[i]
      /\ replies'[t].packetTransactionID = a.transactionID
      /\ replies'[t].place = "received"
  BY <1>2, <1>5, ProcessingStarts
<1>1. UNCHANGED <<trackerStatus, connectionID, trackerConversations, conversations,
                  trackerOutgoingPacketQueue, f, peerIngestionQueue,
                  crashed, uniqueIdentifier, watchdog, requests, strays, spurious>>
  BY <1>2, <1>6
<1>7. replies'[t].packetTransactionID = a.transactionID /\ replies'[t].place = "received"
  BY <1>6
<1> HIDE DEF t
<1>8. TypesInv'
  <2>1. NoStray => NoStray'
    BY <1>4, <1>6, Constants DEF NoStray, AnswerOK, BodyOK, IDs
  <2> QED
    BY <1>1, <1>3, <1>6, <2>1 DEF TrackerInv, TypesInv
<1>9. ASSUME NEW id
      PROVE  /\ QueuedAt(id)' = QueuedAt(id) /\ Requested(id)' = Requested(id)
             /\ Answered(id)' \subseteq Answered(id)
             /\ a.transactionID = id => a \in Answered(id)
             /\ a.transactionID = id /\ copies' = 0 => Answered(id)' = Answered(id) \ {a}
             /\ RepliedBy(id)' =
                    RepliedBy(id) \cup (IF a.transactionID = id THEN {t} ELSE {})
             /\ ReceivedBy(id)' =
                    ReceivedBy(id) \cup (IF a.transactionID = id THEN {t} ELSE {})
  <2>1. /\ QueuedAt(id)' = QueuedAt(id) /\ Requested(id)' = Requested(id)
        /\ Answered(id)' \subseteq Answered(id)
        /\ a.transactionID = id => a \in Answered(id)
        /\ a.transactionID = id /\ copies' = 0 => Answered(id)' = Answered(id) \ {a}
    BY <1>1, <1>3 DEF QueuedAt, Requested, Answered
  <2>2. RepliedBy(id)' = RepliedBy(id) \cup (IF a.transactionID = id THEN {t} ELSE {})
    BY <1>6, <1>7 DEF RepliedBy
  <2>3. ReceivedBy(id)' = ReceivedBy(id) \cup (IF a.transactionID = id THEN {t} ELSE {})
    BY <1>6, <1>7 DEF RepliedBy, ReceivedBy
  <2> QED
    BY <2>1, <2>2, <2>3
<1>10. ASSUME NEW id
       PROVE  /\ NeverSent(id) => NeverSent(id)'
              /\ UnderWay(id)' => UnderWay(id)
              /\ SentOnce(id) /\ copies' = 0 => SentOnce(id)'
  <2>1. NeverSent(id) => NeverSent(id)'
    BY <1>9 DEF NeverSent
  <2>2. UnderWay(id)' => UnderWay(id)
    BY <1>9 DEF UnderWay
  <2>3. ASSUME SentOnce(id), copies' = 0 PROVE SentOnce(id)'
    <3>1. CASE a.transactionID = id
      BY <1>9, <2>3, <3>1 DEF SentOnce, AtMostOne
    <3>2. CASE a.transactionID # id
      BY <1>9, <2>3, <3>2 DEF SentOnce, AtMostOne
    <3> QED
      BY <3>1, <3>2
  <2> QED
    BY <2>1, <2>2, <2>3
<1> QED
  BY <1>1, <1>3, <1>6, <1>7, <1>8, <1>10, MessagesMove

\* A datagram that answers no request is processed by a new thread.
LEMMA ReceiveStrayStep ==
    ASSUME TrackerInv, ~crashed, ReceiveStray
    PROVE  TrackerInv'
<1>1. /\ trackerStatus # "CREATED" /\ strays' = strays + 1
      /\ answers' = answers /\ copies' = copies
  BY DEF ReceiveStray
<1>2. PICK d \in Strays : StartProcessing(d)
  BY DEF ReceiveStray
<1>3. d.transactionID = StrayID
  BY DEF Strays
<1>4. ReplyFrom(d) \in Replies
  BY DEF Strays, ReplyFrom, Replies, StrayOK
<1> DEFINE t == Len(replies) + 1
<1>5. /\ UNCHANGED <<trackerStatus, connectionID, trackerConversations, conversations,
                     trackerOutgoingPacketQueue, f, peerIngestionQueue,
                     crashed, uniqueIdentifier, watchdog, requests, spurious>>
      /\ replies' \in Seq(Replies) /\ DOMAIN replies' = DOMAIN replies \cup {t}
      /\ t \notin DOMAIN replies
      /\ \A i \in DOMAIN replies : replies'[i] = replies[i]
      /\ replies'[t].packetTransactionID = StrayID
      /\ replies'[t].place = "received"
  BY <1>2, <1>3, <1>4, ProcessingStarts
<1> HIDE DEF t
<1>6. strays' \in Nat /\ strays' # 0
  BY <1>1 DEF TrackerInv, TypesInv
<1>7. TypesInv'
  BY <1>1, <1>5, <1>6 DEF TrackerInv, TypesInv
<1>8. ASSUME NEW id \in IDs
      PROVE  /\ QueuedAt(id)' = QueuedAt(id) /\ Requested(id)' = Requested(id)
             /\ Answered(id)' = Answered(id) /\ RepliedBy(id)' = RepliedBy(id)
             /\ ReceivedBy(id)' = ReceivedBy(id)
  <2>1. id # StrayID
    BY Constants
  <2>2. RepliedBy(id)' = RepliedBy(id)
    BY <1>5, <2>1 DEF RepliedBy
  <2>3. ReceivedBy(id)' = ReceivedBy(id)
    BY <1>5, <2>1 DEF RepliedBy, ReceivedBy
  <2> QED
    BY <1>1, <1>5, <2>2, <2>3 DEF QueuedAt, Requested, Answered
<1>9. \A id \in IDs : /\ NeverSent(id) => NeverSent(id)'
                      /\ UnderWay(id)' => UnderWay(id)
                      /\ SentOnce(id) => SentOnce(id)'
  BY <1>8 DEF NeverSent, UnderWay, SentOnce
<1> QED
  BY <1>1, <1>5, <1>6, <1>7, <1>9, MessagesMove

\* A reply that goes from place to place stays the reply it is.
LEMMA ReplyMoves ==
    ASSUME replies \in Seq(Replies), NEW t \in DOMAIN replies,
           SentOK(replies[t]),
           NEW p \in {"clearing", "kept", "freed"}, PlaceOK(replies[t].packetType, p),
           replies' = [replies EXCEPT ![t].place = p]
    PROVE  /\ replies' \in Seq(Replies) /\ DOMAIN replies' = DOMAIN replies
           /\ \A i \in DOMAIN replies :
                  /\ replies'[i].packetType = replies[i].packetType
                  /\ replies'[i].packetTransactionID = replies[i].packetTransactionID
                  /\ replies'[i].place = IF i = t THEN p ELSE replies[i].place
           /\ NoError' <=> NoError
           /\ NoStray' <=> NoStray
           /\ \A id : /\ RepliedBy(id)' = RepliedBy(id)
                      /\ ReceivedBy(id)' = ReceivedBy(id) \ {t}
<1> DEFINE new == [replies[t] EXCEPT !.place = p]
<1>1. DOMAIN replies = 1 .. Len(replies) /\ replies[t] \in Replies
  BY LenProperties
<1>2. /\ new \in Replies /\ new.packetType = replies[t].packetType
      /\ new.packetTransactionID = replies[t].packetTransactionID /\ new.place = p
  BY <1>1 DEF Replies, SentOK
<1>3. replies' = [replies EXCEPT ![t] = new]
  OBVIOUS
<1> HIDE DEF new
<1>4. /\ replies' \in Seq(Replies) /\ Len(replies') = Len(replies)
      /\ \A i \in 1 .. Len(replies) : replies'[i] = IF i = t THEN new ELSE replies[i]
  BY <1>1, <1>2, <1>3, ExceptSeq
<1>5. DOMAIN replies' = DOMAIN replies
  BY <1>1, <1>4, LenProperties
<1>6. \A i \in DOMAIN replies :
          /\ replies'[i].packetType = replies[i].packetType
          /\ replies'[i].packetTransactionID = replies[i].packetTransactionID
          /\ replies'[i].place = IF i = t THEN p ELSE replies[i].place
  BY <1>1, <1>2, <1>4
<1>7. (NoError' <=> NoError) /\ (NoStray' <=> NoStray)
  BY <1>5, <1>6 DEF NoError, NoStray
<1>8. \A id : RepliedBy(id)' = RepliedBy(id)
  BY <1>5, <1>6 DEF RepliedBy
<1>9. \A id : ReceivedBy(id)' = ReceivedBy(id) \ {t}
  BY <1>6, <1>8 DEF RepliedBy, ReceivedBy
<1> QED
  BY <1>4, <1>5, <1>6, <1>7, <1>8, <1>9

\* A reply to a request exists only after the request was made, and any reply
\* after the first request; one that answers none tells of a stray.
LEMMA ReplyIsLate ==
    ASSUME TrackerInv, NEW t \in DOMAIN replies
    PROVE  /\ replies[t] \in Replies /\ t \in RepliedBy(replies[t].packetTransactionID)
           /\ trackerStatus # "CREATED"
           /\ replies[t].packetTransactionID = AnnounceID => f
           /\ replies[t].packetTransactionID \in IDs \/ replies[t].place # "received"
                  => SentOK(replies[t])
           /\ replies[t].packetTransactionID \notin IDs => ~NoFault
<1>1. replies[t] \in Replies
  BY LenProperties DEF TrackerInv, TypesInv
<1>2. replies[t].packetTransactionID \in IDs \cup {StrayID}
  BY <1>1 DEF Replies
<1>3. t \in RepliedBy(replies[t].packetTransactionID)
  BY DEF RepliedBy
<1>4. replies[t].packetTransactionID \in IDs \/ replies[t].place # "received"
          => SentOK(replies[t])
  BY <1>1, Constants DEF Replies, StrayOK
<1>5. CASE replies[t].packetTransactionID \in IDs
  <2>1. trackerStatus # "CREATED"
    BY <1>3, <1>5 DEF TrackerInv, PhasesInv, NeverSent, IDs
  <2> QED
    BY <1>1, <1>3, <1>4, <1>5, <2>1 DEF TrackerInv, PhasesInv, NeverSent
<1>6. CASE replies[t].packetTransactionID = StrayID
  <2>1. strays # 0
    BY <1>6 DEF TrackerInv, TypesInv, NoStray
  <2>2. trackerStatus # "CREATED"
    BY <2>1 DEF TrackerInv, PhasesInv
  <2> QED
    BY <1>1, <1>3, <1>4, <1>6, <2>1, <2>2, Constants DEF NoFault, IDs
<1> QED
  BY <1>2, <1>5, <1>6

\* The processing thread destroys its reply.
LEMMA DestroyStep ==
    ASSUME TrackerInv, ~crashed, NEW t \in DOMAIN replies, DestroyReplyPacket(t)
    PROVE  TrackerInv'
<1>1. /\ UNCHANGED <<trackerStatus, connectionID, trackerConversations, conversations,
                     trackerOutgoingPacketQueue, f, peerIngestionQueue,
                     uniqueIdentifier, watchdog, requests, answers, copies, strays, spurious>>
      /\ replies[t].place = "clearing"
  BY DEF DestroyReplyPacket, conversationVars, networkVars
<1>2. \A id : /\ QueuedAt(id)' = QueuedAt(id) /\ Requested(id)' = Requested(id)
              /\ Answered(id)' = Answered(id)
  BY <1>1 DEF QueuedAt, Requested, Answered
<1>3. \A c, i : Owns(c, i)' = Owns(c, i) /\ Finished(c)' = Finished(c)
  BY <1>1 DEF Owns, Finished
<1>4. replies \in Seq(Replies) /\ SentOK(replies[t]) /\ trackerStatus # "CREATED"
  BY <1>1, ReplyIsLate DEF TrackerInv, TypesInv
<1>5. CASE replies[t].packetType = "ERROR"
  <2>1. crashed' = TRUE /\ replies' = replies /\ ~NoError
    BY <1>5 DEF DestroyReplyPacket, NoError
  <2>2. TypesInv' /\ ListInv'
    BY <1>1, <2>1 DEF TrackerInv, TypesInv, ListInv, NoStray
  <2>3. \A id : RepliedBy(id)' = RepliedBy(id)
    BY <2>1 DEF RepliedBy
  <2>4. PhasesInv' /\ OnceInv'
    BY <1>1, <1>2, <1>4, <2>1, <2>3
       DEF TrackerInv, PhasesInv, NeverSent, OnceInv, SentOnce
  <2>5. OwnersInv' /\ FaultInv'
    BY <2>1 DEF OwnersInv, FaultInv, NoFault, NoError
  <2> QED
    BY <2>2, <2>4, <2>5 DEF TrackerInv
<1>6. CASE replies[t].packetType # "ERROR"
  <2>1. /\ replies' = [replies EXCEPT ![t].place = "freed"] /\ crashed' = FALSE
        /\ PlaceOK(replies[t].packetType, "freed")
    BY <1>6 DEF DestroyReplyPacket, PlaceOK, TrackerInv, TypesInv
  <2>2. /\ replies' \in Seq(Replies) /\ DOMAIN replies' = DOMAIN replies
        /\ \A i \in DOMAIN replies :
               replies'[i].place = IF i = t THEN "freed" ELSE replies[i].place
        /\ (NoError' <=> NoError) /\ (NoStray' <=> NoStray)
        /\ \A id : /\ RepliedBy(id)' = RepliedBy(id)
                   /\ ReceivedBy(id)' = ReceivedBy(id) \ {t}
    BY <1>4, <2>1, ReplyMoves
  <2>3. TypesInv' /\ ListInv'
    BY <1>1, <2>1, <2>2 DEF TrackerInv, TypesInv, ListInv
  <2>4. PhasesInv' /\ OnceInv'
    BY <1>1, <1>2, <1>4, <2>1, <2>2
       DEF TrackerInv, PhasesInv, NeverSent, OnceInv, SentOnce
  <2>5. \A i \in DOMAIN replies : replies'[i].place = "kept" <=> replies[i].place = "kept"
    BY <1>1, <2>2
  <2>6. OwnersInv'
    BY <1>1, <1>3, <2>1, <2>2, <2>5 DEF TrackerInv, OwnersInv
  <2>7. FaultInv'
    BY <1>1, <1>2, <1>3, <2>1, <2>2 DEF TrackerInv, FaultInv, NoFault, UnderWay
  <2> QED
    BY <2>3, <2>4, <2>6, <2>7 DEF TrackerInv
<1> QED
  BY <1>5, <1>6

\* A reply that a thread may process, with what its conversation is.
LEMMA ConversationOfReply ==
    ASSUME TrackerInv, ~crashed, NEW t \in DOMAIN replies, replies[t].place = "received"
    PROVE  LET c == ConversationOf(replies[t])
           IN  /\ c # NULL =>
                      /\ DOMAIN conversations = {c}
                      /\ conversations[c].conversationID = replies[t].packetTransactionID
                      /\ copies = 0 => \A i \in DOMAIN replies : replies[i].place # "kept"
                      /\ NoFault => \A id \in IDs : UnderWay(id) => ReceivedBy(id) = {t}
               /\ c = NULL => ~NoFault
<1> DEFINE c == ConversationOf(replies[t])
           tid == replies[t].packetTransactionID
           matching == {a \in DOMAIN conversations : conversations[a].conversationID = tid}
<1>1. /\ c # NULL => c \in DOMAIN conversations \cap matching
      /\ c = NULL => DOMAIN conversations \cap matching = {}
  BY FindConversation DEF TrackerInv, ConversationOf
<1>2. /\ t \in RepliedBy(tid) /\ t \in ReceivedBy(tid)
      /\ tid \notin IDs => ~NoFault
  BY ReplyIsLate DEF ReceivedBy
<1> HIDE DEF c
<1>3. CASE c = NULL
  <2>1. UnderWay(tid)
    BY <1>2 DEF UnderWay
  <2>2. tid \in IDs => ~NoFault
    BY <1>1, <1>3, <2>1 DEF TrackerInv, FaultInv
  <2> QED
    BY <1>2, <1>3, <2>2 DEF c
<1>4. CASE c # NULL
  <2>1. c \in DOMAIN conversations /\ conversations[c].conversationID = tid
    BY <1>1, <1>4
  <2>2. DOMAIN conversations = {c}
    BY <2>1, DeleteConversation DEF TrackerInv
  <2>5. tid \in IDs
    BY <2>1 DEF TrackerInv, ListInv, ConversationOK, IDs
  <2>3. ASSUME copies = 0, NEW i \in DOMAIN replies, replies[i].place = "kept"
        PROVE  FALSE
    <3>1. Owns(c, i)
      BY <2>2, <2>3 DEF TrackerInv, OwnersInv
    <3>2. tid = AnnounceID
      BY <2>1, <3>1 DEF Owns, Finished, TrackerInv, ListInv, ConversationOK
    <3>3. SentOK(replies[i]) /\ i \in RepliedBy(replies[i].packetTransactionID)
      BY <2>3, ReplyIsLate
    <3>4. replies[i].packetTransactionID = AnnounceID
      BY <2>3, <3>3 DEF SentOK, BodyOK, PlaceOK
    <3>5. AtMostOne(RepliedBy(AnnounceID))
      BY <2>3 DEF TrackerInv, OnceInv, SentOnce, IDs
    <3> QED
      BY <1>2, <2>3, <3>2, <3>3, <3>4, <3>5 DEF AtMostOne
  <2>4. ASSUME NoFault, NEW id \in IDs, UnderWay(id)
        PROVE  ReceivedBy(id) = {t}
    <3>1. id = tid
      BY <2>1, <2>2, <2>4 DEF TrackerInv, FaultInv
    <3>2. AtMostOne(RepliedBy(tid))
      BY <2>4, <2>5 DEF TrackerInv, OnceInv, SentOnce, NoFault
    <3> QED
      BY <1>2, <3>1, <3>2 DEF AtMostOne, ReceivedBy
  <2> QED
    BY <1>4, <2>1, <2>2, <2>3, <2>4 DEF c
<1> QED
  BY <1>3, <1>4

\* What a processing thread does with a reply for which there is no conversation.
LEMMA LateReplyStep ==
    ASSUME TrackerInv, ~crashed, NEW t \in DOMAIN replies, ProcessResponse(t),
           ConversationOf(replies[t]) = NULL
    PROVE  TrackerInv'
<1>1. /\ UNCHANGED <<trackerConversations, conversations, replies, watchdog,
                     trackerOutgoingPacketQueue, f, peerIngestionQueue,
                     uniqueIdentifier, requests, answers, copies, strays, spurious>>
      /\ crashed' = TRUE
      /\ replies[t].place = "received"
      /\ IF replies[t].packetType = "CONNECT"
         THEN connectionID' = replies[t].packetData /\ trackerStatus' = "INITIALIZED"
         ELSE UNCHANGED <<connectionID, trackerStatus>>
  BY DEF ProcessResponse, conversationVars, networkVars
<1>2. replies[t] \in Replies /\ trackerStatus # "CREATED"
  BY ReplyIsLate
<1>3. replies[t].packetType = "CONNECT" => replies[t].packetData \in ConnectionIDs
  BY <1>2, Constants DEF Replies, StrayOK, SentOK, BodyOK
<1>4. TypesInv' /\ ListInv'
  BY <1>1, <1>3 DEF TrackerInv, TypesInv, NoStray, ListInv
<1>5. \A id : /\ QueuedAt(id)' = QueuedAt(id) /\ Requested(id)' = Requested(id)
              /\ Answered(id)' = Answered(id) /\ RepliedBy(id)' = RepliedBy(id)
  BY <1>1 DEF QueuedAt, Requested, Answered, RepliedBy
<1>6. PhasesInv' /\ OnceInv'
  BY <1>1, <1>2, <1>3, <1>5 DEF TrackerInv, PhasesInv, NeverSent, OnceInv, SentOnce
<1>7. ~NoFault
  BY <1>1, ConversationOfReply
<1>8. OwnersInv' /\ FaultInv'
  BY <1>1, <1>7 DEF OwnersInv, FaultInv, NoFault, NoError
<1> QED
  BY <1>4, <1>6, <1>8 DEF TrackerInv

\* A reply to the CONNECT, or an error, ends its conversation; the answer to the
\* ANNOUNCE finishes it and is kept in it.
LEMMA ReplyStep ==
    ASSUME TrackerInv, ~crashed, NEW t \in DOMAIN replies, ProcessResponse(t),
           ConversationOf(replies[t]) # NULL
    PROVE  TrackerInv'
<1> DEFINE type == replies[t].packetType
<1>0. PICK c, p : /\ c = ConversationOf(replies[t])
                  /\ p = IF ShouldClear(replies[t]) THEN "clearing" ELSE "kept"
  OBVIOUS
<1>1. /\ UNCHANGED <<trackerOutgoingPacketQueue, f, peerIngestionQueue, crashed,
                     uniqueIdentifier, requests, answers, copies, strays, spurious>>
      /\ replies[t].place = "received" /\ watchdog # "draining"
      /\ IF type = "CONNECT"
         THEN connectionID' = replies[t].packetData /\ trackerStatus' = "INITIALIZED"
         ELSE UNCHANGED <<connectionID, trackerStatus>>
      /\ UpdateConversation(t, c)
      /\ replies' = [replies EXCEPT ![t].place = p]
      /\ watchdog' = IF watchdog = "waiting" THEN "woken" ELSE watchdog
  BY <1>0 DEF ProcessResponse, Broadcast, conversationVars, networkVars
<1>2. replies[t] \in Replies /\ trackerStatus # "CREATED"
      /\ (replies[t].packetTransactionID = AnnounceID => f)
  BY ReplyIsLate
<1>3. /\ DOMAIN conversations = {c}
      /\ conversations[c].conversationID = replies[t].packetTransactionID
      /\ copies = 0 => \A i \in DOMAIN replies : replies[i].place # "kept"
      /\ NoFault => \A id \in IDs : UnderWay(id) => ReceivedBy(id) = {t}
  BY <1>0, <1>1, ConversationOfReply
<1>14. conversations[c].conversationID \in IDs
  BY <1>3 DEF TrackerInv, ListInv, ConversationOK, IDs
<1>15. SentOK(replies[t])
  BY <1>3, <1>14, ReplyIsLate
<1>4. /\ type \in {"CONNECT", "ANNOUNCE", "ERROR"}
      /\ type = "CONNECT" => /\ replies[t].packetData \in ConnectionIDs
                             /\ conversations[c].conversationID = ConnectID
      /\ type = "ANNOUNCE" => f
      /\ ShouldClear(replies[t]) <=> type # "ANNOUNCE"
  BY <1>2, <1>3, <1>15 DEF SentOK, BodyOK, ShouldClear
<1>5. PlaceOK(type, p) /\ p \in {"clearing", "kept", "freed"}
  BY <1>0, <1>4 DEF PlaceOK
<1>6. /\ replies' \in Seq(Replies) /\ DOMAIN replies' = DOMAIN replies
      /\ \A i \in DOMAIN replies :
             replies'[i].place = IF i = t THEN p ELSE replies[i].place
      /\ (NoError' <=> NoError) /\ (NoStray' <=> NoStray)
      /\ \A id : /\ RepliedBy(id)' = RepliedBy(id)
                 /\ ReceivedBy(id)' = ReceivedBy(id) \ {t}
  <2>1. replies \in Seq(Replies)
    BY DEF TrackerInv, TypesInv
  <2>2. PlaceOK(replies[t].packetType, p) /\ p \in {"clearing", "kept", "freed"}
        /\ replies' = [replies EXCEPT ![t].place = p]
    BY <1>1, <1>5
  <2> QED
    BY <1>15, <2>1, <2>2, ReplyMoves
<1>7. TypesInv'
  BY <1>1, <1>4, <1>6 DEF TrackerInv, TypesInv
<1>8. \A id : /\ QueuedAt(id)' = QueuedAt(id) /\ Requested(id)' = Requested(id)
              /\ Answered(id)' = Answered(id)
  BY <1>1 DEF QueuedAt, Requested, Answered
<1>9. OnceInv'
  BY <1>1, <1>6, <1>8 DEF TrackerInv, OnceInv, SentOnce
<1>10. \A id \in IDs : NoFault => ~UnderWay(id)'
  <2>1. ASSUME NEW id \in IDs, NoFault PROVE ~UnderWay(id)'
    <3>1. UnderWay(id)' => UnderWay(id)
      BY <1>6, <1>8 DEF UnderWay
    <3>2. CASE ReceivedBy(id) = {t}
      <4>1. RepliedBy(id) # {} /\ SentOnce(id)
        BY <2>1, <3>2 DEF ReceivedBy, TrackerInv, OnceInv, NoFault
      <4> QED
        BY <1>6, <1>8, <3>2, <4>1 DEF UnderWay, SentOnce
    <3> QED
      BY <1>3, <2>1, <3>1, <3>2
  <2> QED
    BY <2>1
<1>11. NoFault' <=> NoFault
  BY <1>1, <1>6 DEF NoFault
<1>12. CASE type # "ANNOUNCE"
  <2>1. /\ trackerConversations' = DeleteElement(c, trackerConversations)
        /\ DOMAIN conversations' = {}
    BY <1>1, <1>3, <1>4, <1>12 DEF UpdateConversation, Restrict
  <2>2. ListInv'
    BY <1>3, <2>1, DeleteConversation DEF TrackerInv, ListInv
  <2>3. PhasesInv'
    <3>1. type = "CONNECT" => ~f
      BY <1>3, <1>4, Constants DEF TrackerInv, ListInv, ConversationOK
    <3> QED
      BY <1>1, <1>2, <1>4, <1>6, <1>8, <2>1, <3>1 DEF TrackerInv, PhasesInv, NeverSent
  <2>4. OwnersInv'
    BY <1>0, <1>1, <1>3, <1>4, <1>6, <1>12, <2>1 DEF OwnersInv
  <2>5. FaultInv'
    BY <1>1, <1>10, <1>11, <2>1 DEF FaultInv
  <2> QED
    BY <1>7, <1>9, <2>2, <2>3, <2>4, <2>5 DEF TrackerInv
<1>13. CASE type = "ANNOUNCE"
  <2>1. /\ conversations' = [conversations EXCEPT ![c].converstationStatus = "FINISHED",
                                                  ![c].supplementalResponseData = t]
        /\ trackerConversations' = trackerConversations
        /\ f /\ p = "kept"
    BY <1>0, <1>1, <1>4, <1>13 DEF UpdateConversation
  <2>2. ConversationOK(conversations[c], f, uniqueIdentifier)
    BY <1>3 DEF TrackerInv, ListInv
  <2>3. /\ DOMAIN conversations' = DOMAIN conversations
        /\ ConversationOK(conversations'[c], f, uniqueIdentifier)
        /\ conversations'[c].converstationStatus = "FINISHED"
        /\ conversations'[c].supplementalResponseData = t
    BY <1>3, <2>1, <2>2 DEF ConversationOK
  <2>4. ListInv'
    BY <1>1, <1>3, <2>1, <2>3 DEF TrackerInv, ListInv
  <2>5. PhasesInv'
    BY <1>1, <1>2, <1>6, <1>8, <1>13, <2>1, <2>3 DEF TrackerInv, PhasesInv, NeverSent
  <2>6. Finished(c)' /\ Owns(c, t)'
    BY <2>3 DEF Owns, Finished
  <2>7. OwnersInv'
    BY <1>1, <1>3, <1>6, <2>1, <2>3, <2>6 DEF OwnersInv
  <2>8. FaultInv'
    BY <1>1, <1>3, <1>10, <1>11, <2>3, <2>6 DEF FaultInv
  <2> QED
    BY <1>7, <1>9, <2>4, <2>5, <2>7, <2>8 DEF TrackerInv
<1> QED
  BY <1>12, <1>13

\* The announce is sent once, when the conversation about the connection is over.
LEMMA AnnounceStep ==
    ASSUME TrackerInv, ~crashed, Execute, trackerStatus = "INITIALIZED", ~f
    PROVE  TrackerInv'
<1> DEFINE request == Request("ANNOUNCE", AnnounceID, connectionID)
<1>1. /\ UNCHANGED <<trackerStatus, connectionID, replies, peerIngestionQueue, crashed,
                     uniqueIdentifier, requests, answers, copies, strays, spurious>>
      /\ BeginConversation(request, uniqueIdentifier) /\ f' = TRUE /\ watchdog' = "ready"
  BY DEF Execute, Work, BeginAnnounce, networkVars
<1>2. /\ DOMAIN conversations = {} /\ NeverSent(AnnounceID)
      /\ connectionID \in ConnectionIDs /\ peerIngestionQueue = <<>>
  BY DEF TrackerInv, PhasesInv
<1>3. PICK c \in Addresses, element \in Addresses \ DOMAIN trackerConversations.elements :
          /\ conversations' = [a \in {c} |->
                 [conversationType |-> "ANNOUNCE", converstationStatus |-> "STARTED",
                  conversationID |-> AnnounceID, externalIdentifier |-> uniqueIdentifier,
                  supplementalResponseData |-> NULL]]
          /\ trackerConversations' = InsertElement(c, trackerConversations, element)
          /\ trackerOutgoingPacketQueue' = Append(trackerOutgoingPacketQueue, request)
  <2>1. \A a, c : (a \in {} \cup {c}) => a = c
    OBVIOUS
  <2> QED
    BY <1>1, <1>2, <2>1 DEF BeginConversation, Request
<1>4. ListInv'
  <2>1. ElementData(trackerConversations) = <<>>
    BY <1>2 DEF TrackerInv, ListInv
  <2>2. IsList(trackerConversations', Addresses, Addresses)
        /\ ElementData(trackerConversations') = <<c>>
    BY <1>3, <2>1, InsertConversation DEF TrackerInv, ListInv
  <2>3. DOMAIN conversations' = {c} /\ ConversationOK(conversations'[c], TRUE, uniqueIdentifier)
    BY <1>3 DEF ConversationOK
  <2> QED
    BY <1>1, <2>2, <2>3 DEF ListInv
<1>5. request \in RequestSet /\ request.transactionID = AnnounceID
  BY <1>2 DEF RequestSet, Request
<1>6. /\ trackerOutgoingPacketQueue' \in Seq(RequestSet)
      /\ DOMAIN trackerOutgoingPacketQueue' =
             DOMAIN trackerOutgoingPacketQueue \cup {Len(trackerOutgoingPacketQueue) + 1}
      /\ \A q \in DOMAIN trackerOutgoingPacketQueue :
             trackerOutgoingPacketQueue'[q] = trackerOutgoingPacketQueue[q]
      /\ trackerOutgoingPacketQueue'[Len(trackerOutgoingPacketQueue) + 1].transactionID
             = AnnounceID
  BY <1>3, <1>5, AppendOne DEF TrackerInv, TypesInv
<1> HIDE DEF request
<1>7. \A id : /\ Requested(id)' = Requested(id) /\ Answered(id)' = Answered(id)
              /\ RepliedBy(id)' = RepliedBy(id) /\ ReceivedBy(id)' = ReceivedBy(id)
  BY <1>1 DEF Requested, Answered, RepliedBy, ReceivedBy
<1>8. QueuedAt(ConnectID)' = QueuedAt(ConnectID)
  BY <1>6, Constants DEF QueuedAt
<1>9. AtMostOne(QueuedAt(AnnounceID)')
  BY <1>2, <1>6 DEF NeverSent, QueuedAt, AtMostOne
<1>10. TypesInv'
  BY <1>1, <1>6 DEF TrackerInv, TypesInv, NoStray
<1>11. PhasesInv'
  BY <1>1, <1>2 DEF PhasesInv
<1>12. OnceInv'
  <2>1. copies' = 0 => SentOnce(ConnectID)'
    BY <1>1, <1>7, <1>8 DEF TrackerInv, OnceInv, SentOnce, IDs
  <2>2. SentOnce(AnnounceID)'
    BY <1>2, <1>7, <1>9 DEF NeverSent, SentOnce, AtMostOne
  <2> QED
    BY <2>1, <2>2 DEF OnceInv, IDs
<1>13. /\ DOMAIN conversations' = {c} /\ ~Finished(c)'
       /\ conversations'[c].conversationID = AnnounceID
  BY <1>3 DEF Finished
<1>14. OwnersInv'
  <2>1. copies = 0 => \A t \in DOMAIN replies : replies[t].place # "kept"
    BY <1>2 DEF TrackerInv, OwnersInv
  <2> QED
    BY <1>1, <1>13, <2>1 DEF OwnersInv
<1>15. FaultInv'
  <2>1. NoFault' <=> NoFault
    BY <1>1 DEF NoFault, NoError
  <2>2. UnderWay(ConnectID)' <=> UnderWay(ConnectID)
    BY <1>7, <1>8 DEF UnderWay
  <2>3. NoFault => ~UnderWay(ConnectID)
    BY <1>2 DEF TrackerInv, FaultInv, IDs
  <2> QED
    BY <1>1, <1>13, <2>1, <2>2, <2>3 DEF FaultInv, IDs
<1> QED
  BY <1>4, <1>10, <1>11, <1>12, <1>14, <1>15 DEF TrackerInv

\* The watchdog woke up.
LEMMA ExecuteStep ==
    ASSUME TrackerInv, ~crashed, Execute
    PROVE  TrackerInv'
<1>1. CASE trackerStatus = "INITIALIZED" /\ ~f
  BY <1>1, AnnounceStep
<1>2. CASE ~(trackerStatus = "INITIALIZED" /\ ~f)
  <2>1. /\ UNCHANGED <<trackerStatus, connectionID, trackerConversations, conversations,
                       trackerOutgoingPacketQueue, f, replies, peerIngestionQueue,
                       crashed, uniqueIdentifier, requests, answers, copies, strays, spurious>>
        /\ watchdog' \in {"ready", "draining"}
        /\ watchdog' = "draining" => f
        /\ watchdog = "woken"
    BY <1>2 DEF Execute, Work, UnchangedByWork, networkVars, conversationVars
  <2>2. trackerStatus # "CREATED" /\ spurious \in Nat
    BY <2>1 DEF TrackerInv, PhasesInv, TypesInv
  <2> QED
    BY <2>1, <2>2, WatchdogMoves
<1> QED
  BY <1>1, <1>2

\* The loop over the conversations about the torrent takes the only one out.
LEMMA DrainStep ==
    ASSUME TrackerInv, ~crashed, DrainConversations
    PROVE  TrackerInv'
<1> DEFINE matching == {c \in DOMAIN conversations :
                           conversations[c].externalIdentifier = uniqueIdentifier}
<1>0. PICK c : c = GetCustomElement(trackerConversations, matching)
  OBVIOUS
<1>1. /\ UNCHANGED <<trackerStatus, connectionID, uniqueIdentifier, requests, answers,
                     copies, strays, trackerOutgoingPacketQueue, f, spurious>>
      /\ watchdog = "draining"
      /\ IF c # NULL
         THEN TakeConversation(c) /\ UNCHANGED watchdog
         ELSE /\ watchdog' = "ready"
              /\ UNCHANGED <<conversationVars, replies, peerIngestionQueue, crashed>>
  BY <1>0 DEF DrainConversations, networkVars
<1>2. f = TRUE /\ trackerStatus = "INITIALIZED" /\ connectionID \in ConnectionIDs
  BY <1>1 DEF TrackerInv, TypesInv, PhasesInv
<1>3. CASE c = NULL
  <2>1. UNCHANGED <<trackerConversations, conversations, replies, peerIngestionQueue,
                    crashed>> /\ watchdog' = "ready"
    BY <1>1, <1>3 DEF conversationVars
  <2>2. spurious \in Nat
    BY DEF TrackerInv, TypesInv
  <2> QED
    BY <1>1, <1>2, <2>1, <2>2, WatchdogMoves
<1>4. CASE c # NULL
  <2>1. c \in DOMAIN conversations
    BY <1>0, <1>4, FindConversation DEF TrackerInv
  <2>2. /\ DOMAIN conversations = {c} /\ watchdog' = "draining"
        /\ TakeConversation(c)
    BY <1>1, <1>4, <2>1, DeleteConversation DEF TrackerInv
  <2>3. conversations[c].conversationType = "ANNOUNCE" /\ peerIngestionQueue = <<>>
    BY <1>2, <2>1 DEF TrackerInv, ListInv, ConversationOK, PhasesInv
  <2>4. /\ trackerConversations' = DeleteElement(c, trackerConversations)
        /\ DOMAIN conversations' = {}
    BY <2>2 DEF TakeConversation, Restrict
  <2>5. ListInv'
    BY <2>1, <2>4, DeleteConversation DEF TrackerInv, ListInv
  <2>6. \A id : /\ QueuedAt(id)' = QueuedAt(id) /\ Requested(id)' = Requested(id)
                /\ Answered(id)' = Answered(id)
    BY <1>1 DEF QueuedAt, Requested, Answered
  <2>7. CASE Finished(c)
    <3>1. PICK t \in DOMAIN replies : Owns(c, t) /\ replies[t].place = "kept"
      BY <2>1, <2>7 DEF TrackerInv, OwnersInv
    <3>2. /\ replies' = [replies EXCEPT ![t].place = "freed"] /\ crashed' = crashed
          /\ peerIngestionQueue' = <<>> \o replies[t].packetData
      BY <2>2, <2>3, <2>7, <3>1 DEF TakeConversation, Finished, Owns
    <3>3. SentOK(replies[t]) /\ PlaceOK(replies[t].packetType, "freed")
      BY <3>1, ReplyIsLate DEF PlaceOK
    <3>4. replies[t].packetData \in Lists
      BY <3>1, <3>3 DEF SentOK, BodyOK, PlaceOK
    <3>5. peerIngestionQueue' \in Lists
      BY <3>2, <3>4, Constants
    <3>6. /\ replies' \in Seq(Replies) /\ DOMAIN replies' = DOMAIN replies
          /\ \A i \in DOMAIN replies :
                 replies'[i].place = IF i = t THEN "freed" ELSE replies[i].place
          /\ (NoError' <=> NoError) /\ (NoStray' <=> NoStray)
          /\ \A id : /\ RepliedBy(id)' = RepliedBy(id)
                     /\ ReceivedBy(id)' = ReceivedBy(id) \ {t}
      <4>1. replies \in Seq(Replies)
        BY DEF TrackerInv, TypesInv
      <4> QED
        BY <3>2, <3>3, <4>1, ReplyMoves
    <3>7. TypesInv'
      BY <1>1, <2>2, <3>2, <3>5, <3>6 DEF TrackerInv, TypesInv
    <3>8. PhasesInv' /\ OnceInv'
      BY <1>1, <1>2, <2>4, <2>6, <3>6 DEF TrackerInv, PhasesInv, OnceInv, SentOnce
    <3>9. OwnersInv'
      <4>1. copies = 0 => \A i \in DOMAIN replies : replies[i].place = "kept" => i = t
        BY <2>2, <3>1 DEF TrackerInv, OwnersInv, Owns
      <4> QED
        BY <1>1, <2>4, <3>6, <4>1 DEF OwnersInv
    <3>10. FaultInv'
      <4>1. NoFault' <=> NoFault
        BY <1>1, <3>6 DEF NoFault
      <4>2. \A id \in IDs : NoFault => ~UnderWay(id)
        BY <2>2, <2>7 DEF TrackerInv, FaultInv
      <4>3. \A id : UnderWay(id)' => UnderWay(id)
        BY <2>6, <3>6 DEF UnderWay
      <4> QED
        BY <2>4, <3>2, <4>1, <4>2, <4>3 DEF FaultInv
    <3> QED
      BY <2>5, <3>7, <3>8, <3>9, <3>10 DEF TrackerInv
  <2>8. CASE ~Finished(c)
    <3>1. replies' = replies /\ peerIngestionQueue' = peerIngestionQueue
          /\ crashed' \in BOOLEAN
      BY <2>2, <2>8 DEF TakeConversation, Finished
    <3>2. ~NoFault
      BY <1>1, <1>2, <2>1, <2>8 DEF TrackerInv, FaultInv
    <3>3. TypesInv'
      BY <1>1, <2>2, <3>1 DEF TrackerInv, TypesInv, NoStray
    <3>4. \A id : RepliedBy(id)' = RepliedBy(id)
      BY <3>1 DEF RepliedBy
    <3>5. PhasesInv' /\ OnceInv'
      BY <1>1, <1>2, <2>4, <2>6, <3>4 DEF TrackerInv, PhasesInv, OnceInv, SentOnce
    <3>6. OwnersInv'
      <4>1. copies = 0 => \A i \in DOMAIN replies : replies[i].place # "kept"
        BY <2>2, <2>8 DEF TrackerInv, OwnersInv, Owns
      <4> QED
        BY <1>1, <2>4, <3>1, <4>1 DEF OwnersInv
    <3>7. FaultInv'
      BY <1>1, <3>1, <3>2 DEF FaultInv, NoFault, NoError
    <3> QED
      BY <2>5, <3>3, <3>5, <3>6, <3>7 DEF TrackerInv
  <2> QED
    BY <2>7, <2>8
<1> QED
  BY <1>3, <1>4

-----------------------------------------------------------------------------
(* Searches of the peer feed *)

\* A set of numbers up to a bound that is not empty has a greatest one.
LEMMA GreatestNumber ==
    ASSUME NEW n \in Nat, NEW I \in SUBSET (1 .. n), I # {}
    PROVE  \E x \in I : \A y \in I : y <= x
<1> DEFINE J == {n - x : x \in I}
<1>1. J \in SUBSET Nat /\ J # {}
  <2>1. \A x \in I : x \in 1 .. n
    OBVIOUS
  <2>2. \A x \in 1 .. n : n - x \in Nat
    OBVIOUS
  <2> QED
    BY <2>1, <2>2
<1>2. PICK j \in J : \A k \in J : j <= k
  <2> HIDE DEF J
  <2> QED
    BY <1>1, LeastNumber
<1>3. PICK x \in I : j = n - x
  OBVIOUS
<1>4. ASSUME NEW y \in I PROVE y <= x
  <2>1. n - y \in J
    OBVIOUS
  <2>2. n - x <= n - y
    BY <1>2, <1>3, <2>1
  <2> QED
    BY <2>2
<1> QED
  BY <1>4

\* The loops over the buffer stop at the first place they look for.
LEMMA SmallestIs ==
    ASSUME NEW S \in SUBSET Nat, NEW default
    PROVE  LET i == Feed!Smallest(S, default)
           IN  IF S = {} THEN i = default ELSE i \in S /\ \A j \in S : i <= j
<1>1. CASE S = {}
  BY <1>1 DEF Feed!Smallest
<1>2. CASE S # {}
  <2>1. \E x \in S : \A y \in S : x <= y
    BY <1>2, LeastNumber
  <2>2. Feed!Smallest(S, default) = CHOOSE i \in S : \A j \in S : i <= j
    BY <1>2 DEF Feed!Smallest
  <2> QED
    BY <1>2, <2>1, <2>2
<1> QED
  BY <1>1, <1>2

\* The position that a least or greatest element of a set of positions is.
LEMMA LeastAndGreatest ==
    ASSUME NEW n \in Nat, NEW I \in SUBSET (1 .. n), I # {}
    PROVE  /\ Min(I) \in I /\ \A j \in I : Min(I) <= j
           /\ Feed!Min(I) \in I /\ \A j \in I : Feed!Min(I) <= j
           /\ Feed!Max(I) \in I /\ \A j \in I : j <= Feed!Max(I)
<1>1. \E x \in I : \A y \in I : x <= y
  <2>1. I \in SUBSET Nat
    OBVIOUS
  <2> QED
    BY <2>1, LeastNumber
<1>2. \E x \in I : \A y \in I : y <= x
  BY GreatestNumber
<1>3. Min(I) \in I /\ \A j \in I : Min(I) <= j
  BY <1>1 DEF Min
<1>4. Feed!Min(I) \in I /\ \A j \in I : Feed!Min(I) <= j
  BY <1>1 DEF Feed!Min
<1>5. Feed!Max(I) \in I /\ \A j \in I : j <= Feed!Max(I)
  BY <1>2 DEF Feed!Max
<1> QED
  BY <1>3, <1>4, <1>5

Places(s, matching) == {i \in 1 .. Len(s) : s[i] \in matching}

\* A search for the first or the last element that is one of a set.
LEMMA SearchesFind ==
    ASSUME NEW s, Len(s) \in Nat, NEW matching
    PROVE  LET I == Places(s, matching)
           IN  /\ IsFirst(IF I # {} THEN Min(I) ELSE 0, s, matching)
               /\ IsFirst(IF I # {} THEN Feed!Min(I) ELSE 0, s, matching)
               /\ I # {} => /\ Feed!Max(I) \in I
                            /\ \A j \in I : j <= Feed!Max(I)
<1> DEFINE I == Places(s, matching)
<1>1. I \in SUBSET (1 .. Len(s)) /\ \A i \in 1 .. Len(s) : i \in I <=> s[i] \in matching
  BY DEF Places
<1> HIDE DEF I
<1>2. CASE I = {}
  <2>1. \A j \in 1 .. Len(s) : s[j] \notin matching
    BY <1>1, <1>2
  <2> QED
    BY <1>2, <2>1 DEF IsFirst, I
<1>3. CASE I # {}
  <2>1. /\ Min(I) \in I /\ \A j \in I : Min(I) <= j
        /\ Feed!Min(I) \in I /\ \A j \in I : Feed!Min(I) <= j
        /\ Feed!Max(I) \in I /\ \A j \in I : j <= Feed!Max(I)
    BY <1>1, <1>3, LeastAndGreatest
  <2>2. IsFirst(Min(I), s, matching) /\ IsFirst(Feed!Min(I), s, matching)
    BY <1>1, <2>1 DEF IsFirst
  <2> QED
    BY <1>3, <2>1, <2>2 DEF I
<1> QED
  BY <1>2, <1>3

\* The first colon of a line.
LEMMA ColonIsFirst ==
    ASSUME NEW line, Len(line) \in Nat
    PROVE  IsFirst(Colon(line), line, {":"})
<1> DEFINE I == {i \in 1 .. Len(line) : line[i] = ":"}
           J == Places(line, {":"})
<1>1. Colon(line) = IF I # {} THEN Min(I) ELSE 0
  BY Zenon DEF Colon, SelectInSeq
<1>2. I = J
  BY DEF Places
<1>3. IsFirst(IF J # {} THEN Min(J) ELSE 0, line, {":"})
  BY SearchesFind
<1> HIDE DEF I, J
<1> QED
  BY <1>1, <1>2, <1>3

\* Where the address in a buffer ends, and its last colon.
AddressEnd(buffer) == Feed!SelectInSeq(buffer, LAMBDA c : c \in {"NUL", ":"})

LEMMA AddressEndIsFirst ==
    ASSUME NEW buffer, Len(buffer) \in Nat
    PROVE  /\ IsFirst(AddressEnd(buffer), buffer, {"NUL", ":"})
           /\ Feed!AddressText(buffer) = SubSeq(buffer, 1, AddressEnd(buffer) - 1)
<1> DEFINE I == Places(buffer, {"NUL", ":"})
<1>1. AddressEnd(buffer) = IF I # {} THEN Feed!Min(I) ELSE 0
  BY Zenon DEF AddressEnd, Feed!SelectInSeq, Places
<1>2. IsFirst(IF I # {} THEN Feed!Min(I) ELSE 0, buffer, {"NUL", ":"})
  BY SearchesFind
<1>3. Feed!AddressText(buffer) = SubSeq(buffer, 1, AddressEnd(buffer) - 1)
  BY Zenon DEF AddressEnd, Feed!AddressText
<1> HIDE DEF I
<1> QED
  BY <1>1, <1>2, <1>3

\* The last colon of a buffer.
LEMMA LastColonIsLast ==
    ASSUME NEW buffer, Len(buffer) \in Nat
    PROVE  LET p == Feed!LastColon(buffer)
           IN  \/ p = 0 /\ \A i \in 1 .. Len(buffer) : buffer[i] # ":"
               \/ /\ p \in 1 .. Len(buffer) /\ buffer[p] = ":"
                  /\ \A i \in 1 .. Len(buffer) : buffer[i] = ":" => i <= p
<1> DEFINE I == {i \in 1 .. Len(buffer) : buffer[i] = ":"}
           J == Places(buffer, {":"})
           p == Feed!LastColon(buffer)
<1>1. p = IF I # {} THEN Feed!Max(I) ELSE 0
  BY Zenon DEF Feed!LastColon, Feed!SelectLastInSeq
<1>2. I = J
  BY DEF Places
<1>3. J # {} => Feed!Max(J) \in J /\ \A j \in J : j <= Feed!Max(J)
  BY SearchesFind
<1>4. \A i \in 1 .. Len(buffer) : i \in I <=> buffer[i] = ":"
  OBVIOUS
<1>5. I \subseteq 1 .. Len(buffer)
  OBVIOUS
<1> HIDE DEF p, I, J
<1> QED
  BY <1>1, <1>2, <1>3, <1>4, <1>5 DEF p

-----------------------------------------------------------------------------
(* The lines of a file, and the chunk that a turn reads *)

\* A line goes from its start to the next newline character, or to the end.
LEMMA LineIs ==
    ASSUME NEW C, NEW text \in Seq(C), NEW start \in LineStarts(text)
    PROVE  LET line == LineAt(text, start)
               n == Len(text)
               l == Len(line)
           IN  /\ l \in Nat \ {0} /\ start + l - 1 <= n
               /\ line \in Seq(C)
               /\ \A i \in 1 .. l : /\ line[i] = text[start + i - 1]
                                    /\ line[i] \notin Feed!NewLines
               /\ start + l - 1 < n => text[start + l] \in Feed!NewLines
<1> DEFINE n == Len(text)
           ends == {i \in start .. n : i < n => text[i + 1] \in Feed!NewLines}
           end == Feed!Smallest(ends, start)
           line == LineAt(text, start)
<1>1. n \in Nat /\ \A i \in 1 .. n : text[i] \in C
  BY LenProperties, ElementOfSeq
<1>2. /\ start \in 1 .. n /\ text[start] \notin Feed!NewLines
      /\ line = SubSeq(text, start, end)
  BY DEF LineStarts, LineAt
<1>3. end \in ends /\ \A i \in ends : end <= i
  <2>1. n \in ends /\ ends \in SUBSET Nat
    BY <1>1, <1>2
  <2> HIDE DEF ends
  <2> QED
    BY <2>1, SmallestIs
<1>4. \A i \in start .. end : i \in 1 .. n /\ text[i] \in C
  BY <1>1, <1>2, <1>3
<1>5. end \in start .. n /\ (end < n => text[end + 1] \in Feed!NewLines)
  BY <1>3
<1>6. ASSUME NEW i \in start .. end PROVE text[i] \notin Feed!NewLines
  <2>1. CASE i = start
    BY <1>2, <2>1
  <2>2. CASE i # start
    <3>1. i - 1 \in start .. n /\ i - 1 < n /\ ~(end <= i - 1) /\ i - 1 + 1 = i
      BY <1>1, <1>2, <1>5, <2>2
    <3>2. i - 1 \notin ends
      BY <1>3, <3>1
    <3> QED
      BY <3>1, <3>2
  <2> QED
    BY <2>1, <2>2
<1> HIDE DEF end, ends, n, line
<1>7. /\ line \in Seq(C)
      /\ Len(line) = IF start <= end THEN end - start + 1 ELSE 0
      /\ \A i \in 1 .. end - start + 1 : line[i] = text[start + i - 1]
  <2>1. start \in Int /\ end \in Int
    BY <1>1, <1>2, <1>5
  <2> QED
    BY <1>2, <1>4, <2>1, SubSeqProperties
<1>8. /\ Len(line) = end - start + 1 /\ Len(line) \in Nat \ {0}
      /\ start + Len(line) - 1 = end /\ start + Len(line) = end + 1
  BY <1>1, <1>2, <1>5, <1>7
<1>9. ASSUME NEW i \in 1 .. Len(line)
      PROVE  /\ line[i] = text[start + i - 1]
             /\ line[i] \notin Feed!NewLines
  <2>1. start + i - 1 \in start .. end /\ i \in 1 .. end - start + 1
    BY <1>1, <1>2, <1>5, <1>8
  <2> QED
    BY <1>6, <1>7, <2>1
<1>10. end <= n
  BY <1>1, <1>2, <1>5
<1> QED
  BY <1>5, <1>7, <1>8, <1>9, <1>10 DEF n, line

\* What a turn reads that starts behind the character at a position.
ReadTo(text, start) ==
    IF start + MaxLineLen + 2 < Len(text) THEN start + MaxLineLen + 2 ELSE Len(text)
Chunk(text, start) == SubSeq(text, start + 1, ReadTo(text, start))

LEMMA ChunkIs ==
    ASSUME NEW C, NEW text \in Seq(C), NEW start \in 0 .. Len(text)
    PROVE  LET c == Chunk(text, start)
               n == Len(text)
           IN  /\ n \in Nat /\ Len(c) \in Nat /\ start + Len(c) = ReadTo(text, start)
               /\ ReadTo(text, start) \in 0 .. n
               /\ Len(c) <= MaxLineLen + 2
               /\ start + Len(c) < n => Len(c) = MaxLineLen + 2
               /\ Len(c) = 0 => start = n
               /\ \A i \in 1 .. Len(c) : c[i] = text[start + i]
<1> DEFINE n == Len(text)
           to == ReadTo(text, start)
           c == Chunk(text, start)
<1>1. n \in Nat /\ \A i \in 1 .. n : text[i] \in C
  BY LenProperties, ElementOfSeq
<1>2. MaxLineLen \in Nat
  BY FilesAssumption
<1>3. /\ start \in 0 .. n /\ to \in start .. n /\ to <= start + MaxLineLen + 2
      /\ to < n => to = start + MaxLineLen + 2
      /\ to = start => start = n
  BY <1>1, <1>2 DEF ReadTo
<1> HIDE DEF to, n
<1>4. \A i \in start + 1 .. to : text[i] \in C
  BY <1>1, <1>3
<1>5. /\ Len(c) = IF start + 1 <= to THEN to - (start + 1) + 1 ELSE 0
      /\ \A i \in 1 .. to - (start + 1) + 1 : c[i] = text[start + 1 + i - 1]
  <2>1. start + 1 \in Int /\ to \in Int
    BY <1>1, <1>3
  <2> QED
    BY <1>4, <2>1, SubSeqProperties DEF Chunk, to
<1>6. Len(c) = to - start /\ to \in 0 .. n
  BY <1>1, <1>3, <1>5
<1>7. ASSUME NEW i \in 1 .. Len(c) PROVE c[i] = text[start + i]
  <2>1. i \in 1 .. to - (start + 1) + 1 /\ start + 1 + i - 1 = start + i
    BY <1>1, <1>3, <1>6
  <2> QED
    BY <1>5, <2>1
<1> HIDE DEF c
<1>8. /\ Len(c) \in Nat /\ start + Len(c) = to /\ Len(c) <= MaxLineLen + 2
      /\ start + Len(c) < n => Len(c) = MaxLineLen + 2
      /\ Len(c) = 0 => start = n
  BY <1>1, <1>2, <1>3, <1>6
<1> QED
  BY <1>1, <1>6, <1>7, <1>8 DEF to, n, c

\* Where the line in a chunk ends, and where the next one starts.
LEMMA ChunkEnds ==
    ASSUME NEW c, Len(c) \in Nat
    PROVE  LET m == Len(c)
               e == Feed!LineEnd(c)
               next == Feed!NextLine(c)
           IN  /\ \/ e = 0 /\ \A i \in 1 .. m - 1 : c[i + 1] \notin Feed!NewLines
                  \/ /\ e \in 1 .. m - 1 /\ c[e + 1] \in Feed!NewLines
                     /\ \A i \in 1 .. e - 1 : c[i + 1] \notin Feed!NewLines
               /\ \/ next = e /\ \A i \in e + 1 .. m - 1 : c[i + 1] \in Feed!NewLines
                  \/ /\ next \in e + 1 .. m - 1 /\ c[next + 1] \notin Feed!NewLines
                     /\ \A i \in e + 1 .. next - 1 : c[i + 1] \in Feed!NewLines
<1> DEFINE m == Len(c)
           E == {i \in 1 .. m - 1 : c[i + 1] \in Feed!NewLines}
           e == Feed!LineEnd(c)
           N == {i \in e + 1 .. m - 1 : c[i + 1] \notin Feed!NewLines}
           next == Feed!NextLine(c)
<1>1. e = Feed!Smallest(E, 0) /\ next = Feed!Smallest(N, e)
  BY DEF Feed!LineEnd, Feed!NextLine
<1>2. \/ e = 0 /\ \A i \in 1 .. m - 1 : c[i + 1] \notin Feed!NewLines
      \/ /\ e \in 1 .. m - 1 /\ c[e + 1] \in Feed!NewLines
         /\ \A i \in 1 .. e - 1 : c[i + 1] \notin Feed!NewLines
  <2>1. E \in SUBSET Nat /\ \A i \in 1 .. m - 1 : i \in E <=> c[i + 1] \in Feed!NewLines
    OBVIOUS
  <2>2. \A i \in E : i \in 1 .. m - 1 /\ c[i + 1] \in Feed!NewLines
    OBVIOUS
  <2> HIDE DEF E, e, m
  <2>3. IF E = {} THEN e = 0 ELSE e \in E /\ \A j \in E : e <= j
    BY <1>1, <2>1, SmallestIs
  <2>4. CASE E = {}
    BY <2>1, <2>3, <2>4
  <2>5. CASE E # {}
    <3>1. e \in 1 .. m - 1 /\ c[e + 1] \in Feed!NewLines /\ \A j \in E : e <= j
      BY <2>2, <2>3, <2>5
    <3>2. ASSUME NEW i \in 1 .. e - 1 PROVE c[i + 1] \notin Feed!NewLines
      <4>1. m \in Nat
        BY DEF m
      <4>2. i \in 1 .. m - 1 /\ ~(e <= i)
        BY <3>1, <4>1
      <4> QED
        BY <2>1, <3>1, <4>2
    <3> QED
      BY <3>1, <3>2
  <2> QED
    BY <2>4, <2>5
<1>3. e \in Nat
  BY <1>2
<1>4. \/ next = e /\ \A i \in e + 1 .. m - 1 : c[i + 1] \in Feed!NewLines
      \/ /\ next \in e + 1 .. m - 1 /\ c[next + 1] \notin Feed!NewLines
         /\ \A i \in e + 1 .. next - 1 : c[i + 1] \in Feed!NewLines
  <2> HIDE DEF e
  <2>1. N \in SUBSET Nat /\ \A i \in e + 1 .. m - 1 : i \in N <=> c[i + 1] \notin Feed!NewLines
    BY <1>3
  <2>2. \A i \in N : i \in e + 1 .. m - 1 /\ c[i + 1] \notin Feed!NewLines
    OBVIOUS
  <2> HIDE DEF N, next, m
  <2>3. IF N = {} THEN next = e ELSE next \in N /\ \A j \in N : next <= j
    BY <1>1, <2>1, SmallestIs
  <2>4. CASE N = {}
    BY <2>1, <2>3, <2>4
  <2>5. CASE N # {}
    <3>1. /\ next \in e + 1 .. m - 1 /\ c[next + 1] \notin Feed!NewLines
          /\ \A j \in N : next <= j
      BY <2>2, <2>3, <2>5
    <3>2. ASSUME NEW i \in e + 1 .. next - 1 PROVE c[i + 1] \in Feed!NewLines
      <4>1. m \in Nat
        BY DEF m
      <4>2. i \in e + 1 .. m - 1 /\ ~(next <= i)
        BY <1>3, <3>1, <4>1
      <4> QED
        BY <2>1, <3>1, <4>2
    <3> QED
      BY <3>1, <3>2
  <2> QED
    BY <2>4, <2>5
<1> QED
  BY <1>2, <1>4

\* The buffer holds the chunk, with a NUL for the end of its line and behind it.
LEMMA BufferIs ==
    ASSUME NEW c
    PROVE  LET b == Feed!Buffer(c)
           IN  /\ Len(b) = MaxLineLen + 3 /\ Len(b) \in Nat
               /\ \A i \in 1 .. MaxLineLen + 3 :
                      b[i] = IF i <= Len(c) /\ i # Feed!LineEnd(c) + 1
                             THEN c[i] ELSE "NUL"
<1>1. MaxLineLen + 3 \in Nat
  BY FilesAssumption
<1> QED
  BY <1>1 DEF Feed!Buffer

-----------------------------------------------------------------------------
(* The address and the port *)

\* Any piece of a sequence, by its elements.
Elements(s, n) == {s[k] : k \in 1 .. n}

LEMMA PieceOf ==
    ASSUME NEW s, NEW n \in Nat, NEW i \in 1 .. n + 1, NEW j \in i - 1 .. n
    PROVE  LET t == SubSeq(s, i, j)
           IN  /\ t \in Seq(Elements(s, n))
               /\ Len(t) = j - i + 1 /\ Len(t) \in Nat /\ DOMAIN t = 1 .. Len(t)
               /\ \A k \in 1 .. j - i + 1 : t[k] = s[i + k - 1]
<1> DEFINE S == Elements(s, n)
           t == SubSeq(s, i, j)
<1>1. i \in Int /\ j \in Int /\ \A k \in i .. j : k \in 1 .. n
  OBVIOUS
<1>2. \A k \in i .. j : s[k] \in S
  BY <1>1 DEF Elements
<1> HIDE DEF S
<1>3. /\ t \in Seq(S) /\ Len(t) = IF i <= j THEN j - i + 1 ELSE 0
      /\ \A k \in 1 .. j - i + 1 : t[k] = s[i + k - 1]
  BY <1>1, <1>2, SubSeqProperties
<1> HIDE DEF t
<1>4. Len(t) = j - i + 1 /\ Len(t) \in Nat
  BY <1>3
<1>5. DOMAIN t = 1 .. Len(t)
  BY <1>3, LenProperties
<1> QED
  BY <1>3, <1>4, <1>5 DEF S, t

\* What is left of a sequence behind a position.
LEMMA RestOf ==
    ASSUME NEW s, NEW n \in Nat, NEW p \in 0 .. n
    PROVE  LET t == SubSeq(s, p + 1, n)
           IN  /\ t \in Seq(Elements(s, n)) /\ Len(t) = n - p
               /\ \A k \in 1 .. n - p : t[k] = s[p + k]
<1> DEFINE t == SubSeq(s, p + 1, n)
           i == p + 1
<1>1. i \in 1 .. n + 1 /\ n \in i - 1 .. n /\ n - i + 1 = n - p
  OBVIOUS
<1>2. \A k \in 1 .. n - p : i + k - 1 = p + k
  OBVIOUS
<1>3. t = SubSeq(s, i, n)
  OBVIOUS
<1> HIDE DEF i, t
<1>4. /\ t \in Seq(Elements(s, n)) /\ Len(t) = n - i + 1
      /\ \A k \in 1 .. n - i + 1 : t[k] = s[i + k - 1]
  BY <1>1, <1>3, PieceOf
<1>5. \A k \in 1 .. n - p : t[k] = s[p + k]
  BY <1>1, <1>2, <1>4
<1> QED
  BY <1>1, <1>4, <1>5 DEF t

\* A buffer that does not start with an address holds none.
LEMMA BadAddress ==
    ASSUME NEW b, Len(b) \in Nat, b[1] \notin Feed!Letters
    PROVE  ~Feed!IsAddress(Feed!AddressText(b))
<1> DEFINE i == AddressEnd(b)
           t == SubSeq(b, 1, i - 1)
<1>1. IsFirst(i, b, {"NUL", ":"}) /\ Feed!AddressText(b) = t
  BY AddressEndIsFirst
<1>2. i \in 0 .. Len(b)
  BY <1>1 DEF IsFirst
<1> HIDE DEF i
<1>3. CASE i < 2
  <2>1. i - 1 < 1 /\ 1 \in Int /\ i - 1 \in Int
    BY <1>2, <1>3
  <2>2. t = <<>>
    BY <2>1, SubSeqEmpty
  <2> QED
    BY <1>1, <2>2 DEF Feed!IsAddress
<1>4. CASE i >= 2
  <2>1. /\ 1 \in 1 .. Len(b) + 1 /\ i - 1 \in 1 - 1 .. Len(b)
        /\ 1 \in 1 .. i - 1 - 1 + 1 /\ 1 + 1 - 1 = 1
    BY <1>2, <1>4
  <2>2. /\ DOMAIN t = 1 .. Len(t) /\ Len(t) = i - 1 - 1 + 1
        /\ \A k \in 1 .. i - 1 - 1 + 1 : t[k] = b[1 + k - 1]
    BY <2>1, PieceOf
  <2>3. 1 \in DOMAIN t /\ t[1] = b[1]
    BY <2>1, <2>2
  <2> HIDE DEF t
  <2>4. b[1] \in Feed!Range(t)
    BY <2>3 DEF Feed!Range
  <2> QED
    BY <1>1, <2>4 DEF Feed!IsAddress
<1> QED
  BY <1>2, <1>3, <1>4

\* The parts of a line that is a peer.
LEMMA PeerLine ==
    ASSUME NEW C, NEW line \in Seq(C), IsPeer(line)
    PROVE  LET p == Colon(line)
               l == Len(line)
           IN  /\ l \in Nat /\ l <= MaxLineLen
               /\ p \in 2 .. l /\ line[p] = ":"
               /\ \A i \in 1 .. p - 1 : line[i] \in Feed!Letters
               /\ \A i \in p + 1 .. l : line[i] \in Range(Feed!Digits)
               /\ PeerOf(line) = [ip |-> SubSeq(line, 1, p - 1),
                                  port |-> Feed!Number(SubSeq(line, p + 1, l))]
               /\ PeerOf(line).port \in Ports
               /\ Feed!IsAddress(PeerOf(line).ip)
<1> DEFINE p == Colon(line)
           l == Len(line)
           t == SubSeq(line, 1, p - 1)
<1>1. l \in Nat
  BY LenProperties
<1>2. IsFirst(p, line, {":"})
  BY <1>1, ColonIsFirst
<1>3. /\ l <= MaxLineLen
      /\ \A i \in p + 1 .. l : line[i] \in Range(Feed!Digits)
      /\ PeerOf(line).port \in Ports
      /\ Feed!IsAddress(PeerOf(line).ip)
  BY Zenon DEF IsPeer
<1>4. PeerOf(line) = [ip |-> SubSeq(line, 1, p - 1),
                      port |-> Feed!Number(SubSeq(line, p + 1, l))]
  BY DEF PeerOf
<1> HIDE DEF p
<1>5. PeerOf(line).ip = t
  <2> HIDE DEF t
  <2>1. \A a, b : [ip |-> a, port |-> b].ip = a
    OBVIOUS
  <2> QED
    BY <1>4, <2>1, Zenon DEF t
<1>6. t # <<>> /\ Feed!Range(t) \subseteq Feed!Letters
  <2> HIDE DEF t
  <2> QED
    BY <1>3, <1>5 DEF Feed!IsAddress
<1>7. p \in 0 .. l /\ (p # 0 => line[p] = ":")
  BY <1>1, <1>2 DEF IsFirst
<1>8. ~(p < 2)
  <2>1. SUFFICES ASSUME p < 2 PROVE FALSE
    OBVIOUS
  <2>2. p - 1 < 1 /\ 1 \in Int /\ p - 1 \in Int
    BY <1>7, <2>1
  <2> QED
    BY <1>6, <2>2, SubSeqEmpty
<1>9. p \in 2 .. l
  BY <1>1, <1>7, <1>8
<1>10. ASSUME NEW i \in 1 .. p - 1 PROVE line[i] \in Feed!Letters
  <2>1. /\ 1 \in 1 .. l + 1 /\ p - 1 \in 1 - 1 .. l
        /\ i \in 1 .. p - 1 - 1 + 1 /\ 1 + i - 1 = i
    BY <1>1, <1>9
  <2>2. /\ DOMAIN t = 1 .. Len(t) /\ Len(t) = p - 1 - 1 + 1
        /\ \A k \in 1 .. p - 1 - 1 + 1 : t[k] = line[1 + k - 1]
    BY <1>1, <2>1, PieceOf
  <2>3. i \in DOMAIN t /\ t[i] = line[i]
    BY <2>1, <2>2
  <2> HIDE DEF t
  <2> QED
    BY <1>6, <2>3 DEF Feed!Range
<1> QED
  <2>1. p # 0
    BY <1>9
  <2> QED
    BY <1>1, <1>3, <1>4, <1>7, <1>9, <1>10, <2>1, Zenon DEF p

\* The digits, which a colon, a NUL and a newline character are not.
LEMMA DigitsAre ==
    /\ Range(Feed!Digits) = Feed!Range(Feed!Digits)
    /\ ":" \notin Range(Feed!Digits) /\ "NUL" \notin Range(Feed!Digits)
<1>1. Range(Feed!Digits) = Feed!Range(Feed!Digits)
  BY DEF Range, Feed!Range
<1>2. DOMAIN Feed!Digits = 1 .. 10
  BY DEF Feed!Digits
<1>3. \A i \in 1 .. 10 : Feed!Digits[i] # ":" /\ Feed!Digits[i] # "NUL"
  <2> TAKE i \in 1 .. 10
  <2>1. i \in {1, 2, 3, 4, 5, 6, 7, 8, 9, 10}
    OBVIOUS
  <2> QED
    BY <2>1 DEF Feed!Digits
<1> QED
  BY <1>1, <1>2, <1>3 DEF Range

\* The value of digits, and where atoi stops.
DigitsValue(digits) ==
    Feed!FoldLeft(LAMBDA n, c : 10 * n + Feed!SelectInSeq(Feed!Digits, LAMBDA d : d = c) - 1,
                  0, digits)
NumberEnd(t) == Feed!SelectInSeq(t, LAMBDA c : c \notin Feed!Range(Feed!Digits))

LEMMA NumberIsValue ==
    ASSUME NEW S, NEW t \in Seq(S), NEW k \in 0 .. Len(t),
           \A i \in 1 .. k : t[i] \in Range(Feed!Digits),
           k < Len(t) => t[k + 1] \notin Range(Feed!Digits)
    PROVE  Feed!Number(t) = DigitsValue(SubSeq(t, 1, k))
<1> DEFINE I == {i \in 1 .. Len(t) : t[i] \notin Feed!Range(Feed!Digits)}
           end == NumberEnd(t)
<1>1. Len(t) \in Nat
  BY LenProperties
<1>2. end = IF I # {} THEN Feed!Min(I) ELSE 0
  BY Zenon DEF NumberEnd, Feed!SelectInSeq
<1>3. Feed!Number(t) = DigitsValue(IF end = 0 THEN t ELSE SubSeq(t, 1, end - 1))
  BY Zenon DEF Feed!Number, DigitsValue, NumberEnd
<1>4. \A i \in 1 .. Len(t) : i \in I <=> t[i] \notin Range(Feed!Digits)
  BY DigitsAre
<1>5. I \in SUBSET (1 .. Len(t))
  OBVIOUS
<1> HIDE DEF I, end
<1>6. CASE k = Len(t)
  <2>1. I = {}
    BY <1>4, <1>5, <1>6
  <2>2. SubSeq(t, 1, k) = t
    BY <1>6, SubSeqFull
  <2> QED
    BY <1>2, <1>3, <2>1, <2>2
<1>7. CASE k < Len(t)
  <2>1. k + 1 \in I /\ \A i \in I : k + 1 <= i
    BY <1>1, <1>4, <1>5, <1>7
  <2>2. Feed!Min(I) \in I /\ \A j \in I : Feed!Min(I) <= j
    BY <1>1, <1>5, <2>1, LeastAndGreatest
  <2>3. Feed!Min(I) = k + 1
    <3>1. Feed!Min(I) \in Nat /\ k + 1 \in Nat
      <4>1. Feed!Min(I) \in 1 .. Len(t) /\ k + 1 \in 1 .. Len(t)
        BY <1>5, <2>1, <2>2, Zenon
      <4> QED
        BY <1>1, <4>1
    <3>2. k + 1 <= Feed!Min(I) /\ Feed!Min(I) <= k + 1
      BY <2>1, <2>2
    <3> QED
      BY <3>1, <3>2
  <2>4. end # 0 /\ end - 1 = k
    BY <1>1, <1>2, <2>1, <2>3
  <2> QED
    BY <1>3, <2>4
<1> QED
  BY <1>1, <1>6, <1>7

\* Sequences of the same elements are equal, of whatever sets they are.
LEMMA SequencesEqual ==
    ASSUME NEW S, NEW T, NEW s \in Seq(S), NEW t \in Seq(T), NEW n,
           Len(s) = n, Len(t) = n, \A i \in 1 .. n : s[i] = t[i]
    PROVE  s = t
<1>1. s \in Seq(S \cup T) /\ t \in Seq(S \cup T)
  BY SeqMonotonic
<1> QED
  BY <1>1, SeqEqual

\* Beginnings of sequences that have the same elements are equal.
LEMMA SameBeginnings ==
    ASSUME NEW s, NEW t, NEW n \in Nat, \A i \in 1 .. n : s[i] = t[i]
    PROVE  SubSeq(s, 1, n) = SubSeq(t, 1, n)
<1> DEFINE a == SubSeq(s, 1, n)
           b == SubSeq(t, 1, n)
<1>1. 1 \in 1 .. n + 1 /\ n \in 1 - 1 .. n /\ n - 1 + 1 = n
  OBVIOUS
<1>2. \A i \in 1 .. n : 1 + i - 1 = i
  OBVIOUS
<1>3. /\ a \in Seq(Elements(s, n)) /\ Len(a) = n - 1 + 1
      /\ \A i \in 1 .. n - 1 + 1 : a[i] = s[1 + i - 1]
  BY <1>1, PieceOf
<1>4. /\ b \in Seq(Elements(t, n)) /\ Len(b) = n - 1 + 1
      /\ \A i \in 1 .. n - 1 + 1 : b[i] = t[1 + i - 1]
  BY <1>1, PieceOf
<1> HIDE DEF a, b
<1>5. Len(a) = n /\ Len(b) = n /\ \A i \in 1 .. n : a[i] = b[i]
  BY <1>1, <1>2, <1>3, <1>4
<1>6. a = b
  BY <1>3, <1>4, <1>5, SequencesEqual
<1> QED
  BY <1>6 DEF a, b

\* A number of 16 bits is not cut.
LEMMA PortsFit ==
    ASSUME NEW b, NEW port \in Ports,
           Feed!Number(SubSeq(b, Feed!LastColon(b) + 1, Len(b))) = port
    PROVE  Feed!Port(b) = port
<1>1. \A x \in Int : 0 <= x /\ x <= 65535 => x % 65536 = x
  BY SMTT(30)
<1>2. port \in Int /\ 0 <= port /\ port <= 65535
  BY DEF Ports
<1>3. port % 65536 = port
  BY <1>1, <1>2
<1> QED
  BY <1>3 DEF Feed!Port

\* What a turn finds in its buffer when the line it starts with ends in it.
LEMMA LineInBuffer ==
    ASSUME NEW C, NEW text \in Seq(C), NEW start \in 0 .. Len(text),
           start + 1 \in LineStarts(text), IsPeer(LineAt(text, start + 1)),
           start + Len(LineAt(text, start + 1)) < Len(text)
    PROVE  LET line == LineAt(text, start + 1)
               l == Len(line)
               p == Colon(line)
               c == Chunk(text, start)
               b == Feed!Buffer(c)
           IN  /\ l \in Nat \ {0} /\ p \in 2 .. l /\ l <= MaxLineLen
               /\ Len(c) \in Nat /\ l < Len(c) /\ Feed!LineEnd(c) = l
               /\ \A i \in 1 .. l : b[i] = line[i] /\ b[i] = text[start + i]
               /\ b[p] = ":" /\ b[l + 1] = "NUL"
               /\ \A i \in 1 .. Len(c) : c[i] = text[start + i]
<1> DEFINE n == Len(text)
           line == LineAt(text, start + 1)
           l == Len(line)
           p == Colon(line)
           c == Chunk(text, start)
           b == Feed!Buffer(c)
           e == Feed!LineEnd(c)
<1>1. /\ l \in Nat \ {0} /\ line \in Seq(C)
      /\ \A i \in 1 .. l : /\ line[i] = text[start + 1 + i - 1]
                           /\ line[i] \notin Feed!NewLines
      /\ start + 1 + l - 1 < n => text[start + 1 + l] \in Feed!NewLines
  BY LineIs
<1>2. /\ l <= MaxLineLen /\ p \in 2 .. l /\ line[p] = ":"
  BY <1>1, PeerLine
<1>3. /\ n \in Nat /\ Len(c) \in Nat
      /\ start + Len(c) < n => Len(c) = MaxLineLen + 2
      /\ \A i \in 1 .. Len(c) : c[i] = text[start + i]
      /\ start + Len(c) = ReadTo(text, start) /\ ReadTo(text, start) \in 0 .. n
  BY ChunkIs
<1>4. MaxLineLen \in Nat
  BY FilesAssumption
<1>5. /\ \/ e = 0 /\ \A i \in 1 .. Len(c) - 1 : c[i + 1] \notin Feed!NewLines
         \/ /\ e \in 1 .. Len(c) - 1 /\ c[e + 1] \in Feed!NewLines
            /\ \A i \in 1 .. e - 1 : c[i + 1] \notin Feed!NewLines
  BY <1>3, ChunkEnds
<1>6. \A i \in 1 .. MaxLineLen + 3 :
          b[i] = IF i <= Len(c) /\ i # e + 1 THEN c[i] ELSE "NUL"
  BY BufferIs
<1>7. start \in Nat /\ start + l < n
  OBVIOUS
<1> HIDE DEF n, line, l, p, c, b, e
<1>8. l < Len(c)
  BY <1>1, <1>2, <1>3, <1>4, <1>7
<1>9. ASSUME NEW i \in 1 .. l
      PROVE  c[i] = line[i] /\ c[i] = text[start + i] /\ c[i] \notin Feed!NewLines
  <2>1. i \in 1 .. Len(c) /\ start + 1 + i - 1 = start + i
    BY <1>1, <1>3, <1>7, <1>8
  <2> QED
    BY <1>1, <1>3, <2>1
<1>10. c[l + 1] \in Feed!NewLines
  <2>1. l + 1 \in 1 .. Len(c) /\ start + 1 + l = start + (l + 1) /\ start + 1 + l - 1 < n
    BY <1>1, <1>3, <1>7, <1>8
  <2> QED
    BY <1>1, <1>3, <2>1
<1>11. e = l
  <2>1. l \in 1 .. Len(c) - 1
    BY <1>1, <1>3, <1>8
  <2>2. e # 0
    BY <1>5, <1>10, <2>1
  <2>3. e \in 1 .. Len(c) - 1 /\ c[e + 1] \in Feed!NewLines
        /\ \A i \in 1 .. e - 1 : c[i + 1] \notin Feed!NewLines
    BY <1>5, <2>2
  <2>4. ~(e < l)
    <3>1. e < l => e + 1 \in 1 .. l
      BY <1>1, <1>3, <2>3
    <3> QED
      BY <1>9, <2>3, <3>1
  <2>5. ~(l < e)
    <3>1. l < e => l \in 1 .. e - 1
      BY <1>1, <1>3, <2>3
    <3> QED
      BY <1>10, <2>3, <3>1
  <2> QED
    BY <1>1, <1>3, <2>3, <2>4, <2>5
<1>12. ASSUME NEW i \in 1 .. l PROVE b[i] = line[i] /\ b[i] = text[start + i]
  <2>1. i \in 1 .. MaxLineLen + 3 /\ i <= Len(c) /\ i # l + 1
    BY <1>1, <1>2, <1>3, <1>4, <1>8
  <2> QED
    BY <1>6, <1>9, <1>11, <2>1
<1>13. b[l + 1] = "NUL"
  <2>1. l + 1 \in 1 .. MaxLineLen + 3
    BY <1>1, <1>2, <1>4
  <2> QED
    BY <1>6, <1>11, <2>1
<1>14. p \in 1 .. l
  BY <1>1, <1>2
<1> QED
  BY <1>1, <1>2, <1>3, <1>8, <1>11, <1>12, <1>13, <1>14 DEF n, line, l, p, c, b, e

\* Of such a line the turn takes the address, and, when no other colon is in the
\* buffer behind it, the port.
LEMMA PeerInBuffer ==
    ASSUME NEW C, NEW text \in Seq(C), NEW start \in 0 .. Len(text),
           start + 1 \in LineStarts(text), IsPeer(LineAt(text, start + 1)),
           start + Len(LineAt(text, start + 1)) < Len(text)
    PROVE  LET line == LineAt(text, start + 1)
               b == Feed!Buffer(Chunk(text, start))
           IN  /\ Feed!LastColon(b) # 0
               /\ Feed!AddressText(b) = PeerOf(line).ip
               /\ (\A i \in Len(line) + 1 .. Len(b) : b[i] # ":") =>
                      Feed!Port(b) = PeerOf(line).port
<1> DEFINE line == LineAt(text, start + 1)
           l == Len(line)
           p == Colon(line)
           b == Feed!Buffer(Chunk(text, start))
           k == Len(b)
<1>1. line \in Seq(C)
  BY LineIs
<1>2. /\ l \in Nat \ {0} /\ p \in 2 .. l /\ l <= MaxLineLen
      /\ \A i \in 1 .. l : b[i] = line[i]
      /\ b[p] = ":" /\ b[l + 1] = "NUL"
  BY LineInBuffer
<1>3. /\ \A i \in 1 .. p - 1 : line[i] \in Feed!Letters
      /\ \A i \in p + 1 .. l : line[i] \in Range(Feed!Digits)
      /\ PeerOf(line) = [ip |-> SubSeq(line, 1, p - 1),
                         port |-> Feed!Number(SubSeq(line, p + 1, l))]
      /\ PeerOf(line).port \in Ports
  BY <1>1, PeerLine
<1>4. k = MaxLineLen + 3 /\ k \in Nat
  BY BufferIs
<1>5. MaxLineLen \in Nat
  BY FilesAssumption
<1> DEFINE address == SubSeq(line, 1, p - 1)
           digits == SubSeq(line, p + 1, l)
<1>6. PeerOf(line).ip = address /\ PeerOf(line).port = Feed!Number(digits)
  BY <1>3
<1> HIDE DEF line, l, p, b, k
<1>7. /\ l + 1 \in 1 .. k /\ l < k /\ p \in 1 .. k /\ p \in 1 .. l
      /\ p - 1 \in 1 - 1 .. l /\ p - 1 \in 1 - 1 .. k
      /\ 1 \in 1 .. l + 1 /\ 1 \in 1 .. k + 1
      /\ p + 1 \in 1 .. l + 1 /\ l \in p + 1 - 1 .. l
      /\ p + 1 \in 1 .. k + 1 /\ k \in p + 1 - 1 .. k
  BY <1>2, <1>4, <1>5
<1>8. Feed!LastColon(b) \in 1 .. k /\ b[Feed!LastColon(b)] = ":" /\ p <= Feed!LastColon(b)
  BY <1>2, <1>4, <1>7, LastColonIsLast DEF k
<1>9. Feed!AddressText(b) = address
  <2> DEFINE i == AddressEnd(b)
  <2>1. IsFirst(i, b, {"NUL", ":"}) /\ Feed!AddressText(b) = SubSeq(b, 1, i - 1)
    BY <1>4, AddressEndIsFirst DEF k
  <2> HIDE DEF i
  <2>2. \A j \in 1 .. p - 1 : b[j] \notin {"NUL", ":"}
    <3> TAKE j \in 1 .. p - 1
    <3>1. j \in 1 .. l
      BY <1>2
    <3> QED
      BY <1>2, <1>3, <3>1 DEF Feed!Letters
  <2>3. i \in 1 .. k /\ b[i] \in {"NUL", ":"} /\ i <= p
    BY <1>2, <1>7, <2>1 DEF IsFirst, k
  <2>4. i = p
    <3>1. i < p => i \in 1 .. p - 1
      BY <1>4, <1>7, <2>3
    <3> QED
      BY <1>4, <1>7, <2>2, <2>3, <3>1
  <2>5. ASSUME NEW j \in 1 .. p - 1 PROVE b[j] = line[j]
    <3>1. j \in 1 .. l
      BY <1>2
    <3> QED
      BY <1>2, <3>1
  <2>6. p - 1 \in Nat
    BY <1>2
  <2>7. SubSeq(b, 1, p - 1) = SubSeq(line, 1, p - 1)
    BY <2>5, <2>6, SameBeginnings
  <2> QED
    BY <2>1, <2>4, <2>7
<1>10. ASSUME \A i \in l + 1 .. k : b[i] # ":"
       PROVE  Feed!Port(b) = PeerOf(line).port
  <2>1. ASSUME NEW i \in p + 1 .. l PROVE line[i] # ":"
    BY <1>3, DigitsAre
  <2>2. Feed!LastColon(b) = p
    <3> DEFINE q == Feed!LastColon(b)
    <3>1. q \in 1 .. k /\ b[q] = ":" /\ p <= q
      BY <1>8
    <3> HIDE DEF q
    <3>2. p < q => q \in p + 1 .. l \/ q \in l + 1 .. k
      BY <1>2, <1>4, <1>7, <3>1
    <3>3. q \in p + 1 .. l => q \in 1 .. l
      BY <1>2, <1>7
    <3>4. ~(p < q)
      BY <1>2, <1>10, <2>1, <3>1, <3>2, <3>3
    <3> QED
      BY <1>4, <1>7, <3>1, <3>4 DEF q
  <2> DEFINE rest == SubSeq(b, p + 1, k)
             m == l - p
  <2>3. rest = SubSeq(b, Feed!LastColon(b) + 1, Len(b))
    BY <2>2 DEF k
  <2>4. p \in 0 .. l /\ p \in 0 .. k /\ p \in 2 .. l /\ l < k /\ l \in Nat /\ k \in Nat
    BY <1>2, <1>4, <1>7
  <2>5. /\ digits \in Seq(Elements(line, l)) /\ Len(digits) = l - p
        /\ \A j \in 1 .. l - p : digits[j] = line[p + j]
    BY <2>4, RestOf
  <2>6. /\ rest \in Seq(Elements(b, k)) /\ Len(rest) = k - p
        /\ \A j \in 1 .. k - p : rest[j] = b[p + j]
    BY <2>4, RestOf
  <2> HIDE DEF digits, rest
  <2>7. /\ Len(digits) = m /\ m \in Nat /\ m < Len(rest) /\ m \in 0 .. Len(rest)
        /\ m \in 0 .. Len(digits) /\ ~(m < Len(digits))
        /\ Len(rest) \in Nat
    <3>1. Len(digits) = l - p /\ Len(rest) = k - p
      BY <2>5, <2>6
    <3> QED
      BY <2>4, <3>1
  <2>8. ASSUME NEW j \in 1 .. m
        PROVE  /\ digits[j] \in Range(Feed!Digits)
               /\ rest[j] = digits[j]
    <3>1. /\ p + j \in p + 1 .. l /\ p + j \in 1 .. l
          /\ j \in 1 .. l - p /\ j \in 1 .. k - p
      BY <2>4
    <3>2. digits[j] = line[p + j] /\ rest[j] = b[p + j]
      BY <2>5, <2>6, <3>1
    <3>3. b[p + j] = line[p + j]
      BY <1>2, <3>1
    <3>4. line[p + j] \in Range(Feed!Digits)
      BY <1>3, <3>1
    <3> QED
      BY <3>2, <3>3, <3>4
  <2>9. rest[m + 1] \notin Range(Feed!Digits)
    <3>1. m + 1 \in 1 .. k - p /\ p + (m + 1) = l + 1
      BY <2>4
    <3> QED
      BY <1>2, <2>6, <3>1, DigitsAre
  <2> HIDE DEF m
  <2>10. Feed!Number(digits) = DigitsValue(SubSeq(digits, 1, m))
    BY <2>5, <2>7, <2>8, NumberIsValue
  <2>11. Feed!Number(rest) = DigitsValue(SubSeq(rest, 1, m))
    BY <2>6, <2>7, <2>8, <2>9, NumberIsValue
  <2>12. SubSeq(rest, 1, m) = SubSeq(digits, 1, m)
    BY <2>7, <2>8, SameBeginnings
  <2>13. Feed!Number(rest) = PeerOf(line).port
    BY <1>6, <2>10, <2>11, <2>12, Zenon
  <2> QED
    BY <1>3, <2>3, <2>13, PortsFit, Zenon
<1>11. Feed!LastColon(b) # 0
  BY <1>4, <1>8
<1> QED
  BY <1>6, <1>9, <1>10, <1>11, Zenon DEF line, l, b, k

-----------------------------------------------------------------------------
(* A turn of the loop *)

\* Where a turn starts: behind all of the file, before a line, or before a
\* newline character that is the first or the last one or has one behind it.
AtLine(text, start) ==
    /\ start \in 0 .. Len(text)
    /\ start < Len(text) =>
           \/ start + 1 \in LineStarts(text)
           \/ /\ text[start + 1] \in Feed!NewLines
              /\ \/ start = 0
                 \/ start + 1 = Len(text)
                 \/ text[start + 2] \in Feed!NewLines

\* The loop ends when it reads one character or nothing, and then no line is left.
LEMMA TurnEnds ==
    ASSUME NEW C, NEW text \in Seq(C), NEW start,
           HasPeers(text), AtLine(text, start)
    PROVE  LET c == Chunk(text, start)
           IN  /\ Len(c) \in {1, Feed!NextLine(c)} <=> Len(c) <= 1
               /\ Len(c) <= 1 => \A i \in LineStarts(text) : i <= start
<1> DEFINE n == Len(text)
           c == Chunk(text, start)
           m == Len(c)
           next == Feed!NextLine(c)
<1>1. start \in 0 .. n
  BY DEF AtLine
<1>2. /\ n \in Nat /\ m \in Nat
      /\ start + m < n => m = MaxLineLen + 2
      /\ m = 0 => start = n
  BY <1>1, ChunkIs
<1>3. MaxLineLen \in Nat
  BY FilesAssumption
<1>4. next \in 1 .. m - 1 \/ next = 0
  BY <1>2, ChunkEnds
<1>5. \A i \in LineStarts(text) : i \in 1 .. n /\ text[i] \notin Feed!NewLines
  BY DEF LineStarts
<1>6. ASSUME start + 1 \in LineStarts(text) PROVE start + 2 <= n
  <2>1. IsPeer(LineAt(text, start + 1))
    BY <1>6 DEF HasPeers
  <2> DEFINE line == LineAt(text, start + 1)
  <2>2. /\ Len(line) \in Nat \ {0} /\ start + 1 + Len(line) - 1 <= n
        /\ line \in Seq(C)
    BY <1>6, LineIs
  <2>3. Colon(line) \in 2 .. Len(line)
    BY <2>1, <2>2, PeerLine
  <2> HIDE DEF line, n
  <2> QED
    BY <1>1, <1>2, <2>2, <2>3
<1>7. start + 1 = n => start + 1 \notin LineStarts(text) /\ text[n] \in Feed!NewLines
  BY <1>1, <1>2, <1>6 DEF AtLine
<1> HIDE DEF n, m, next
<1>8. m \in {1, next} <=> m <= 1
  BY <1>2, <1>4
<1>9. ASSUME m <= 1, NEW i \in LineStarts(text) PROVE i <= start
  <2>1. start = n \/ start + 1 = n
    BY <1>1, <1>2, <1>3, <1>9
  <2>2. i \in 1 .. n /\ text[i] \notin Feed!NewLines
    BY <1>5
  <2>3. start + 1 = n => i # n
    BY <1>7, <2>2
  <2> QED
    BY <1>1, <1>2, <2>1, <2>2, <2>3
<1> QED
  BY <1>8, <1>9 DEF m, next

\* The lines that start before a position.
Before(text, position) == {i \in LineStarts(text) : i < position}

\* A line that ends in the chunk is read, and the next turn starts behind it.
LEMMA TurnReads ==
    ASSUME NEW C, NEW text \in Seq(C), NEW start \in 0 .. Len(text),
           start + 1 \in LineStarts(text), IsPeer(LineAt(text, start + 1)),
           start + Len(LineAt(text, start + 1)) < Len(text)
    PROVE  LET c == Chunk(text, start)
               then == start + Feed!NextLine(c)
           IN  /\ Feed!NextLine(c) \in Nat
               /\ AtLine(text, then)
               /\ Before(text, then + 1) = Before(text, start + 1) \cup {start + 1}
<1> DEFINE n == Len(text)
           line == LineAt(text, start + 1)
           l == Len(line)
           c == Chunk(text, start)
           m == Len(c)
           next == Feed!NextLine(c)
<1>1. /\ l \in Nat \ {0} /\ l <= MaxLineLen /\ m \in Nat /\ l < m
      /\ Feed!LineEnd(c) = l /\ \A i \in 1 .. m : c[i] = text[start + i]
  BY LineInBuffer
<1>2. /\ \A i \in 1 .. l : /\ line[i] = text[start + 1 + i - 1]
                           /\ line[i] \notin Feed!NewLines
      /\ start + 1 + l - 1 < n => text[start + 1 + l] \in Feed!NewLines
  BY LineIs
<1>3. /\ n \in Nat /\ start + m <= n
      /\ start + m < n => m = MaxLineLen + 2
  <2>1. /\ n \in Nat /\ start + m = ReadTo(text, start)
        /\ ReadTo(text, start) \in 0 .. n
        /\ start + m < n => m = MaxLineLen + 2
    BY ChunkIs
  <2> HIDE DEF n, m
  <2> QED
    BY <2>1
<1>4. \/ next = l /\ \A i \in l + 1 .. m - 1 : c[i + 1] \in Feed!NewLines
      \/ /\ next \in l + 1 .. m - 1 /\ c[next + 1] \notin Feed!NewLines
         /\ \A i \in l + 1 .. next - 1 : c[i + 1] \in Feed!NewLines
  BY <1>1, ChunkEnds
<1>5. start \in Nat /\ start + l < n /\ MaxLineLen \in Nat
  BY FilesAssumption
<1>6. \A i \in 1 .. n : i \in LineStarts(text) <=>
          /\ text[i] \notin Feed!NewLines
          /\ i > 1 => text[i - 1] \in Feed!NewLines
  BY DEF LineStarts
<1>7. LineStarts(text) \subseteq 1 .. n
  BY DEF LineStarts
<1>8. start + 1 \in LineStarts(text)
  OBVIOUS
<1> HIDE DEF n, line, l, c, m, next
<1>9. next \in l .. m - 1
  BY <1>1, <1>4
<1>10. ASSUME NEW i \in start + 1 .. start + l PROVE text[i] \notin Feed!NewLines
  <2>1. i - start \in 1 .. l /\ start + 1 + (i - start) - 1 = i
    <3>1. l \in Nat /\ start \in Nat
      BY <1>1, <1>5
    <3> QED
      BY <3>1
  <2> QED
    BY <1>2, <2>1
<1>11. ASSUME NEW i \in start + l + 1 .. start + next PROVE text[i] \in Feed!NewLines
  <2>1. CASE i = start + l + 1
    <3>1. i = start + 1 + l /\ start + 1 + l - 1 < n
      BY <1>1, <1>5, <2>1
    <3> QED
      BY <1>2, <3>1
  <2>2. CASE i # start + l + 1
    <3>1. /\ i - start - 1 \in l + 1 .. next - 1 /\ next # l
          /\ i - start - 1 + 1 \in 1 .. m /\ start + (i - start - 1 + 1) = i
      BY <1>1, <1>3, <1>5, <1>9, <2>2
    <3>2. c[i - start - 1 + 1] \in Feed!NewLines
      BY <1>4, <3>1
    <3> QED
      BY <1>1, <3>1, <3>2
  <2> QED
    BY <2>1, <2>2
<1> DEFINE then == start + next
<1>12. then \in Nat /\ then \in 0 .. n
  BY <1>1, <1>3, <1>5, <1>9
<1>13. AtLine(text, then)
  <2>1. CASE next = l
    <3>1. text[then + 1] \in Feed!NewLines
      <4>1. then + 1 = start + 1 + l /\ start + 1 + l - 1 < n
        BY <1>1, <1>5, <2>1
      <4> QED
        BY <1>2, <4>1
    <3>2. then + 1 # n => text[then + 2] \in Feed!NewLines
      <4> SUFFICES ASSUME then + 1 # n PROVE text[then + 2] \in Feed!NewLines
        OBVIOUS
      <4>1. /\ l + 1 \in l + 1 .. m - 1 /\ l + 1 + 1 \in 1 .. m
            /\ start + (l + 1 + 1) = then + 2
        <5>1. l \in Nat /\ m \in Nat /\ start \in Nat /\ n \in Nat
          BY <1>1, <1>3, <1>5
        <5>2. l + 1 < m
          <6>1. start + l + 1 < n
            BY <1>5, <2>1, <5>1
          <6>2. CASE start + m < n
            BY <1>1, <1>3, <1>5, <5>1, <6>2
          <6>3. CASE start + m = n
            BY <5>1, <6>1, <6>3
          <6> QED
            BY <1>3, <5>1, <6>2, <6>3
        <5> HIDE DEF then
        <5>3. then = start + l
          BY <2>1 DEF then
        <5> QED
          BY <5>1, <5>2, <5>3
      <4>2. \A i \in l + 1 .. m - 1 : c[i + 1] \in Feed!NewLines
        <5>1. next \notin l + 1 .. m - 1
          BY <1>1, <2>1
        <5> QED
          BY <1>4, <5>1, Zenon
      <4>3. c[l + 1 + 1] \in Feed!NewLines
        BY <4>1, <4>2
      <4> QED
        BY <1>1, <4>1, <4>3
    <3> QED
      BY <1>12, <3>1, <3>2 DEF AtLine, n
  <2>2. CASE next # l
    <3>1. next \in l + 1 .. m - 1 /\ c[next + 1] \notin Feed!NewLines
      BY <1>4, <2>2, Zenon
    <3>2. /\ next + 1 \in 1 .. m /\ start + (next + 1) = then + 1
          /\ then + 1 \in 1 .. n /\ then + 1 - 1 = start + next
          /\ start + next \in start + l + 1 .. start + next
      BY <1>1, <1>3, <1>5, <3>1
    <3>3. text[then + 1] \notin Feed!NewLines
      <4>1. c[next + 1] = text[start + (next + 1)]
        BY <1>1, <3>2
      <4> HIDE DEF then
      <4> QED
        BY <3>1, <3>2, <4>1
    <3>4. text[then + 1 - 1] \in Feed!NewLines
      BY <1>11, <3>2
    <3>5. then + 1 \in LineStarts(text)
      BY <1>6, <3>2, <3>3, <3>4
    <3> QED
      BY <1>12, <3>5 DEF AtLine, n
  <2> QED
    BY <2>1, <2>2
<1>14. Before(text, then + 1) = Before(text, start + 1) \cup {start + 1}
  <2>1. ASSUME NEW i \in LineStarts(text)
        PROVE  i < then + 1 <=> i < start + 1 \/ i = start + 1
    <3>1. i \in 1 .. n
      BY <1>7
    <3>2. text[i] \notin Feed!NewLines /\ (i > 1 => text[i - 1] \in Feed!NewLines)
      BY <1>6, <3>1
    <3>3. i \notin start + l + 1 .. start + next
      BY <1>11, <3>2
    <3>4. i - 1 \notin start + 1 .. start + l \/ i <= 1
      BY <1>10, <3>1, <3>2
    <3> QED
      BY <1>1, <1>5, <1>9, <3>1, <3>3, <3>4
  <2> HIDE DEF then
  <2> QED
    BY <1>8, <2>1 DEF Before
<1>15. next \in Nat
  BY <1>1, <1>9
<1> QED
  BY <1>13, <1>14, <1>15 DEF then, next, c

\* A colon behind the first character of a chunk is found in the buffer.
LEMMA ColonInBuffer ==
    ASSUME NEW C, NEW text \in Seq(C), NEW start \in 0 .. Len(text),
           NEW i \in 1 .. Len(Chunk(text, start)),
           text[start + i] = ":", i > 1
    PROVE  Feed!LastColon(Feed!Buffer(Chunk(text, start))) # 0
<1> DEFINE c == Chunk(text, start)
           m == Len(c)
           e == Feed!LineEnd(c)
           b == Feed!Buffer(c)
<1>1. /\ m \in Nat /\ m <= MaxLineLen + 2
      /\ \A j \in 1 .. m : c[j] = text[start + j]
  BY ChunkIs
<1>2. e = 0 \/ (e \in 1 .. m - 1 /\ c[e + 1] \in Feed!NewLines)
  <2>1. \/ e = 0 /\ \A j \in 1 .. m - 1 : c[j + 1] \notin Feed!NewLines
        \/ /\ e \in 1 .. m - 1 /\ c[e + 1] \in Feed!NewLines
           /\ \A j \in 1 .. e - 1 : c[j + 1] \notin Feed!NewLines
    BY <1>1, ChunkEnds
  <2> QED
    BY <2>1, Zenon
<1>3. /\ Len(b) = MaxLineLen + 3 /\ Len(b) \in Nat
      /\ \A j \in 1 .. MaxLineLen + 3 :
             b[j] = IF j <= m /\ j # e + 1 THEN c[j] ELSE "NUL"
  BY BufferIs
<1>4. i \in 1 .. m /\ text[start + i] = ":" /\ i > 1
  OBVIOUS
<1>5. MaxLineLen \in Nat
  BY FilesAssumption
<1> HIDE DEF c, m, e, b
<1>6. i # e + 1
  <2>1. c[i] \notin Feed!NewLines
    BY <1>1, <1>4 DEF Feed!NewLines
  <2> QED
    BY <1>2, <1>4, <2>1
<1>7. i \in 1 .. Len(b) /\ i \in 1 .. MaxLineLen + 3 /\ i <= m
  BY <1>1, <1>3, <1>4, <1>5
<1>8. b[i] = ":"
  BY <1>1, <1>3, <1>4, <1>6, <1>7
<1>9. Feed!LastColon(b) \in 1 .. Len(b)
  BY <1>3, <1>7, <1>8, LastColonIsLast
<1> QED
  BY <1>3, <1>9 DEF b, c

\* A buffer has no address when it starts with a newline character, or with the NUL
\* of a line whose end was not found.
LEMMA NoAddressInBuffer ==
    ASSUME NEW c, Len(c) \in Nat,
           Feed!LineEnd(c) = 0 \/ c[1] \in Feed!NewLines
    PROVE  ~Feed!IsAddress(Feed!AddressText(Feed!Buffer(c)))
<1> DEFINE e == Feed!LineEnd(c)
           b == Feed!Buffer(c)
<1>1. /\ Len(b) \in Nat
      /\ \A j \in 1 .. MaxLineLen + 3 :
             b[j] = IF j <= Len(c) /\ j # e + 1 THEN c[j] ELSE "NUL"
  BY BufferIs
<1>2. 1 \in 1 .. MaxLineLen + 3
  BY FilesAssumption
<1> HIDE DEF e, b
<1>3. b[1] = "NUL" \/ b[1] \in Feed!NewLines
  <2>1. CASE e = 0
    BY <1>1, <1>2, <2>1
  <2>2. CASE c[1] \in Feed!NewLines
    BY <1>1, <1>2, <2>2
  <2> QED
    BY <2>1, <2>2 DEF e
<1>4. b[1] \notin Feed!Letters
  BY <1>3 DEF Feed!Letters, Feed!NewLines
<1> QED
  BY <1>1, <1>4, BadAddress DEF b

\* A last line that no newline character ends is no peer to the program.
LEMMA TurnAtLastLine ==
    ASSUME NEW C, NEW text \in Seq(C), NEW start \in 0 .. Len(text),
           start + 1 \in LineStarts(text), IsPeer(LineAt(text, start + 1)),
           start + Len(LineAt(text, start + 1)) = Len(text)
    PROVE  LET b == Feed!Buffer(Chunk(text, start))
           IN  /\ Feed!LastColon(b) # 0
               /\ ~Feed!IsAddress(Feed!AddressText(b))
               /\ ~IsReadable(text)
<1> DEFINE n == Len(text)
           line == LineAt(text, start + 1)
           l == Len(line)
           p == Colon(line)
           c == Chunk(text, start)
           m == Len(c)
           e == Feed!LineEnd(c)
<1>1. /\ l \in Nat \ {0} /\ line \in Seq(C)
      /\ \A i \in 1 .. l : /\ line[i] = text[start + 1 + i - 1]
                           /\ line[i] \notin Feed!NewLines
  BY LineIs
<1>2. /\ l <= MaxLineLen /\ p \in 2 .. l /\ line[p] = ":"
  BY <1>1, PeerLine
<1>3. /\ n \in Nat /\ m \in Nat
      /\ start + m < n => m = MaxLineLen + 2
      /\ \A i \in 1 .. m : c[i] = text[start + i]
      /\ start + m = ReadTo(text, start) /\ ReadTo(text, start) \in 0 .. n
  BY ChunkIs
<1>4. e = 0 \/ (e \in 1 .. m - 1 /\ c[e + 1] \in Feed!NewLines)
  <2>1. \/ e = 0 /\ \A i \in 1 .. m - 1 : c[i + 1] \notin Feed!NewLines
        \/ /\ e \in 1 .. m - 1 /\ c[e + 1] \in Feed!NewLines
           /\ \A i \in 1 .. e - 1 : c[i + 1] \notin Feed!NewLines
    BY <1>3, ChunkEnds
  <2> QED
    BY <2>1, Zenon
<1>5. start \in Nat /\ start + l = n /\ MaxLineLen \in Nat
  BY FilesAssumption
<1> HIDE DEF n, line, l, p, c, m, e
<1>6. m = l
  BY <1>1, <1>2, <1>3, <1>5
<1>7. ASSUME NEW i \in 1 .. l
      PROVE  text[start + i] = line[i] /\ text[start + i] \notin Feed!NewLines
  <2>1. start + 1 + i - 1 = start + i
    BY <1>1, <1>5
  <2> QED
    BY <1>1, <2>1
<1>8. e = 0
  <2>1. e + 1 \in 1 .. m => c[e + 1] \notin Feed!NewLines
    BY <1>3, <1>6, <1>7
  <2>2. e \in 1 .. m - 1 => e + 1 \in 1 .. m
    BY <1>3
  <2> QED
    BY <1>4, <2>1, <2>2
<1>9. Feed!LastColon(Feed!Buffer(c)) # 0
  <2>1. p \in 1 .. l /\ p > 1 /\ p \in 1 .. m
    BY <1>1, <1>2, <1>6
  <2>2. text[start + p] = ":"
    BY <1>2, <1>7, <2>1
  <2> QED
    BY <2>1, <2>2, ColonInBuffer DEF c, m
<1>10. ~Feed!IsAddress(Feed!AddressText(Feed!Buffer(c)))
  BY <1>3, <1>8, NoAddressInBuffer DEF e, m
<1>11. ~IsReadable(text)
  <2>1. l \in 1 .. l /\ start + l = n
    BY <1>1, <1>5
  <2>2. text[n] \notin Feed!NewLines
    BY <1>7, <2>1
  <2>3. Last(text) # "LF"
    BY <2>2 DEF Last, n, Feed!NewLines
  <2> QED
    BY <2>3 DEF IsReadable
<1> QED
  BY <1>9, <1>10, <1>11 DEF c

\* A newline character where a line could start is the end of the reading.
LEMMA TurnAtNewLine ==
    ASSUME NEW C, NEW text \in Seq(C), NEW start,
           HasPeers(text), AtLine(text, start),
           start < Len(text), start + 1 \notin LineStarts(text),
           Len(Chunk(text, start)) > 1
    PROVE  LET b == Feed!Buffer(Chunk(text, start))
           IN  /\ ~Feed!IsAddress(Feed!AddressText(b))
               /\ ~IsReadable(text)
               /\ Feed!LastColon(b) = 0 =>
                      \E i \in 1 .. Len(text) - 1 :
                          {text[i], text[i + 1]} \subseteq Feed!NewLines
<1> DEFINE n == Len(text)
           c == Chunk(text, start)
           m == Len(c)
<1>1. /\ start \in 0 .. n /\ start < n
      /\ text[start + 1] \in Feed!NewLines
      /\ start = 0 \/ start + 1 = n \/ text[start + 2] \in Feed!NewLines
  BY DEF AtLine
<1>2. /\ n \in Nat /\ m \in Nat
      /\ start + m < n => m = MaxLineLen + 2
      /\ \A i \in 1 .. m : c[i] = text[start + i]
      /\ start + m = ReadTo(text, start) /\ ReadTo(text, start) \in 0 .. n
  BY <1>1, ChunkIs
<1>3. m > 1 /\ MaxLineLen \in Nat /\ DOMAIN text = 1 .. n
  BY FilesAssumption, LenProperties
<1> HIDE DEF n, c, m
<1>4. start + 2 <= n /\ start + 1 # n /\ start \in Nat
  BY <1>1, <1>2, <1>3
<1>5. c[1] \in Feed!NewLines
  <2>1. 1 \in 1 .. m
    BY <1>2, <1>3
  <2> QED
    BY <1>1, <1>2, <2>1
<1>6. ~Feed!IsAddress(Feed!AddressText(Feed!Buffer(c)))
  BY <1>2, <1>5, NoAddressInBuffer DEF m
<1>7. CASE text[start + 2] \in Feed!NewLines
  <2>1. /\ start + 1 \in 1 .. n - 1 /\ start + 1 + 1 = start + 2
        /\ start + 1 \in 1 .. n /\ start + 1 < n
    BY <1>2, <1>4
  <2>2. ~IsReadable(text)
    <3>1. IsReadable(text) =>
              \A i \in DOMAIN text : text[i] \in Feed!NewLines /\ i < Len(text) =>
                                     text[i + 1] \notin Feed!NewLines
      BY Zenon DEF IsReadable
    <3>2. start + 1 \in DOMAIN text /\ start + 1 < Len(text)
      BY <1>3, <2>1 DEF n
    <3>3. text[start + 1 + 1] \in Feed!NewLines
      BY <1>7, <2>1
    <3> QED
      BY <1>1, <3>1, <3>2, <3>3
  <2> QED
    <3>1. {text[start + 1], text[start + 1 + 1]} \subseteq Feed!NewLines
      BY <1>1, <1>7, <2>1
    <3> QED
      BY <1>6, <2>1, <2>2, <3>1, Zenon DEF n, c
<1>8. CASE text[start + 2] \notin Feed!NewLines
  <2>1. start = 0 /\ 0 + 1 = 1 /\ 0 + 2 = 2 /\ 2 - 1 = 1
    BY <1>1, <1>4, <1>8
  <2>2. text[1] \in Feed!NewLines /\ text[2] \notin Feed!NewLines
    BY <1>1, <1>8, <2>1
  <2>3. 1 \in 1 .. n /\ 2 \in 1 .. n /\ 2 <= n
    BY <1>2, <1>4, <2>1
  <2>4. ~IsReadable(text)
    <3>1. IsReadable(text) => \A i \in DOMAIN text : text[i] \in Feed!NewLines => i > 1
      BY Zenon DEF IsReadable
    <3>2. 1 \in DOMAIN text /\ ~(1 > 1)
      BY <1>3, <2>3
    <3> QED
      BY <2>2, <3>1, <3>2
  <2>5. 2 \in LineStarts(text)
    BY <2>1, <2>2, <2>3 DEF LineStarts, n
  <2> DEFINE line == LineAt(text, 2)
             l == Len(line)
             p == Colon(line)
  <2>6. /\ l \in Nat \ {0} /\ 2 + l - 1 <= n /\ line \in Seq(C)
        /\ \A i \in 1 .. l : line[i] = text[2 + i - 1]
    BY <2>5, LineIs DEF n
  <2>7. IsPeer(line)
    BY <2>5 DEF HasPeers
  <2>8. l <= MaxLineLen /\ p \in 2 .. l /\ line[p] = ":"
    BY <2>6, <2>7, PeerLine
  <2> HIDE DEF line, l, p
  <2>9. /\ p \in 1 .. l /\ 2 + p - 1 = p + 1 /\ 0 + (p + 1) = p + 1
        /\ p + 1 \in 1 .. m /\ p + 1 > 1
    BY <1>2, <1>3, <2>1, <2>6, <2>8
  <2>10. text[start + (p + 1)] = ":"
    BY <2>1, <2>6, <2>8, <2>9
  <2>11. Feed!LastColon(Feed!Buffer(c)) # 0
    BY <1>1, <2>9, <2>10, ColonInBuffer DEF c, m, n
  <2> QED
    BY <1>6, <2>4, <2>11 DEF c
<1> QED
  BY <1>7, <1>8

\* The port of a readable file's line is its own.
LEMMA PortIsOwn ==
    ASSUME NEW C, NEW text \in Seq(C), NEW start \in 0 .. Len(text),
           start + 1 \in LineStarts(text), IsPeer(LineAt(text, start + 1)),
           start + Len(LineAt(text, start + 1)) < Len(text),
           IsReadable(text)
    PROVE  Feed!Port(Feed!Buffer(Chunk(text, start))) = PeerOf(LineAt(text, start + 1)).port
<1> DEFINE n == Len(text)
           line == LineAt(text, start + 1)
           l == Len(line)
           p == Colon(line)
           c == Chunk(text, start)
           m == Len(c)
           b == Feed!Buffer(c)
           colons == {i \in DOMAIN text : text[i] = ":"}
           window == {i \in colons : i >= start + 1 /\ i < start + 1 + MaxLineLen + 2}
<1>1. /\ l \in Nat \ {0} /\ p \in 2 .. l /\ l <= MaxLineLen
      /\ m \in Nat /\ l < m /\ Feed!LineEnd(c) = l
      /\ \A i \in 1 .. l : b[i] = text[start + i]
      /\ b[p] = ":"
      /\ \A i \in 1 .. m : c[i] = text[start + i]
  BY LineInBuffer
<1>2. /\ n \in Nat /\ m \in Nat /\ m <= MaxLineLen + 2
      /\ start + m = ReadTo(text, start) /\ ReadTo(text, start) \in 0 .. n
  BY ChunkIs
<1>3. /\ Len(b) = MaxLineLen + 3 /\ Len(b) \in Nat
      /\ \A j \in 1 .. MaxLineLen + 3 :
             b[j] = IF j <= m /\ j # l + 1 THEN c[j] ELSE "NUL"
  <2>1. Feed!LineEnd(c) = l
    BY <1>1
  <2> HIDE DEF l
  <2> QED
    BY <2>1, BufferIs
<1>4. start \in Nat /\ MaxLineLen \in Nat /\ DOMAIN text = 1 .. n
  BY FilesAssumption, LenProperties
<1>5. Cardinality(window) = 1
  BY DEF IsReadable
<1>6. IsFiniteSet(window)
  <2>1. IsFiniteSet(1 .. n)
    BY <1>2, FS_Interval
  <2>2. window \subseteq 1 .. n
    BY <1>4
  <2> QED
    BY <2>1, <2>2, FS_Subset
<1>7. \A i \in 1 .. n : /\ text[i] = ":" /\ i >= start + 1
                        /\ i < start + 1 + MaxLineLen + 2
                        => i \in window
  BY <1>4
<1> HIDE DEF window
<1>8. PICK x : window = {x}
  BY <1>5, <1>6, FS_Singleton
<1> HIDE DEF n, line, l, p, c, m, b
<1>9. ASSUME NEW i \in 1 .. m, text[start + i] = ":" PROVE start + i = x
  <2>1. start + i \in 1 .. n /\ start + i >= start + 1 /\ start + i < start + 1 + MaxLineLen + 2
    BY <1>2, <1>4
  <2> QED
    BY <1>7, <1>8, <1>9, <2>1
<1>10. start + p = x
  <2>1. p \in 1 .. m /\ p \in 1 .. l
    BY <1>1
  <2> QED
    BY <1>1, <1>9, <2>1
<1>11. ASSUME NEW i \in l + 1 .. Len(b) PROVE b[i] # ":"
  <2>1. SUFFICES ASSUME b[i] = ":" PROVE FALSE
    OBVIOUS
  <2>2. i \in 1 .. MaxLineLen + 3
    BY <1>1, <1>3
  <2>3. i <= m /\ b[i] = c[i]
    BY <1>3, <2>1, <2>2
  <2>4. i \in 1 .. m
    BY <2>2, <2>3
  <2>5. start + i = x
    BY <1>1, <1>9, <2>1, <2>3, <2>4
  <2> QED
    BY <1>1, <1>4, <1>10, <2>4, <2>5
<1> QED
  BY <1>11, PeerInBuffer DEF line, l, b, c

-----------------------------------------------------------------------------
(* The lines of a file by their number *)

\* A text has finitely many lines.
LEMMA StartsAreFinite ==
    ASSUME NEW C, NEW text \in Seq(C)
    PROVE  LET starts == LineStarts(text)
           IN  /\ IsFiniteSet(starts) /\ Cardinality(starts) \in Nat
               /\ \A S \in SUBSET starts :
                      /\ IsFiniteSet(S) /\ Cardinality(S) \in Nat
                      /\ Cardinality(S) <= Cardinality(starts)
<1>1. IsFiniteSet(1 .. Len(text))
  BY LenProperties, FS_Interval
<1>2. LineStarts(text) \subseteq 1 .. Len(text)
  BY DEF LineStarts
<1>3. IsFiniteSet(LineStarts(text))
  BY <1>1, <1>2, FS_Subset
<1>4. ASSUME NEW S \in SUBSET LineStarts(text)
      PROVE  /\ IsFiniteSet(S) /\ Cardinality(S) \in Nat
             /\ Cardinality(S) <= Cardinality(LineStarts(text))
  BY <1>3, FS_Subset, FS_CardinalityType
<1> QED
  BY <1>3, <1>4, FS_CardinalityType

\* The start of a line by its number.
LineNumber(text, k) ==
    CHOOSE i \in LineStarts(text) : Cardinality(Before(text, i)) = k - 1

\* A line's number counts the lines before it, and itself.
LEMMA LineIsNumbered ==
    ASSUME NEW C, NEW text \in Seq(C), NEW x \in LineStarts(text)
    PROVE  LET k == Cardinality(Before(text, x)) + 1
           IN  /\ k \in 1 .. Cardinality(LineStarts(text))
               /\ Cardinality(Before(text, x) \cup {x}) = k
               /\ LinesOf(text)[k] = LineAt(text, x)
<1> DEFINE starts == LineStarts(text)
           count(i) == Cardinality(Before(text, i))
           k == count(x) + 1
<1>1. ASSUME NEW i \in starts
      PROVE  /\ count(i) \in Nat
             /\ Cardinality(Before(text, i) \cup {i}) = count(i) + 1
             /\ count(i) + 1 <= Cardinality(starts)
  <2>1. Before(text, i) \in SUBSET starts /\ Before(text, i) \cup {i} \in SUBSET starts
    BY DEF Before
  <2>2. IsFiniteSet(Before(text, i)) /\ count(i) \in Nat
    BY <2>1, StartsAreFinite
  <2>3. i \notin Before(text, i)
    <3>1. i \in 1 .. Len(text) /\ Len(text) \in Nat
      BY LenProperties DEF LineStarts
    <3>2. ~(i < i)
      BY <3>1
    <3> QED
      BY <3>2 DEF Before
  <2>4. Cardinality(Before(text, i) \cup {i}) = count(i) + 1
    BY <2>2, <2>3, FS_AddElement
  <2>5. Cardinality(Before(text, i) \cup {i}) <= Cardinality(starts)
    BY <2>1, StartsAreFinite
  <2> QED
    BY <2>2, <2>4, <2>5
<1>2. ASSUME NEW i \in starts, NEW j \in starts, i < j PROVE count(i) < count(j)
  <2>1. i \in Nat /\ j \in Nat
    BY LenProperties DEF LineStarts
  <2>2. Before(text, i) \cup {i} \subseteq Before(text, j)
    <3>1. \A y \in starts : y \in Nat
      BY LenProperties DEF LineStarts
    <3>2. \A y \in starts : y < i => y < j
      BY <1>2, <2>1, <3>1
    <3> QED
      BY <1>2, <3>2 DEF Before
  <2>3. IsFiniteSet(Before(text, j))
    <3>1. Before(text, j) \in SUBSET starts
      BY DEF Before
    <3> QED
      BY <3>1, StartsAreFinite
  <2>4. Cardinality(Before(text, i) \cup {i}) <= count(j)
    BY <2>2, <2>3, FS_Subset
  <2>5. count(i) \in Nat /\ count(j) \in Nat /\ count(i) + 1 <= count(j)
    BY <1>1, <2>4
  <2> QED
    BY <2>5
<1>3. ASSUME NEW i \in starts, count(i) = k - 1 PROVE i = x
  <2>1. i \in Nat /\ x \in Nat
    BY LenProperties DEF LineStarts
  <2>2. count(x) \in Nat /\ count(i) \in Nat /\ count(i) = count(x)
    <3>1. count(x) \in Nat /\ count(i) \in Nat
      BY <1>1
    <3> HIDE DEF count
    <3> QED
      BY <1>3, <3>1
  <2>3. ~(i < x) /\ ~(x < i)
    BY <1>2, <2>2
  <2> QED
    BY <2>1, <2>3
<1>4. count(x) = k - 1 /\ k \in 1 .. Cardinality(starts)
  <2>1. count(x) \in Nat /\ count(x) + 1 <= Cardinality(starts) /\ Cardinality(starts) \in Nat
    BY <1>1, StartsAreFinite
  <2> QED
    BY <2>1
<1>5. LineNumber(text, k) = x
  <2> HIDE DEF k
  <2> QED
    BY <1>3, <1>4 DEF LineNumber
<1>6. LinesOf(text) = [j \in 1 .. Cardinality(starts) |-> LineAt(text, LineNumber(text, j))]
  BY Zenon DEF LinesOf, LineNumber, Before
<1>7. LinesOf(text)[k] = LineAt(text, x)
  <2> HIDE DEF k
  <2> QED
    BY <1>4, <1>5, <1>6
<1> QED
  BY <1>1, <1>4, <1>7

\* There are as many lines as places where one starts.
LEMMA LinesAreCounted ==
    ASSUME NEW C, NEW text \in Seq(C)
    PROVE  Len(LinesOf(text)) = Cardinality(LineStarts(text))
<1> DEFINE m == Cardinality(LineStarts(text))
<1>1. m \in Nat
  BY StartsAreFinite
<1>2. LinesOf(text) = [j \in 1 .. m |-> LineAt(text, LineNumber(text, j))]
  BY Zenon DEF LinesOf, LineNumber, Before
<1> HIDE DEF m
<1>3. Len(LinesOf(text)) = m
  BY <1>1, <1>2
<1> QED
  BY <1>3 DEF m

-----------------------------------------------------------------------------
(* What the file's peers have in common with the queue *)

FeedState(text, at, result, queue, dead) ==
    /\ queue \in Seq(Feed!Range(queue))
    /\ dead \in BOOLEAN
    /\ HasPeers(text) =>
       /\ result = "reading" /\ ~dead =>
              /\ AtLine(text, at)
              /\ Len(queue) = Cardinality(Before(text, at + 1))
       /\ Len(queue) <= Len(LinesOf(text))
       /\ \A i \in DOMAIN queue : queue[i].ip = PeerOf(LinesOf(text)[i]).ip
       /\ IsReadable(text) =>
              /\ \A i \in DOMAIN queue : queue[i] = PeerOf(LinesOf(text)[i])
              /\ result # "failed" /\ ~dead
       /\ result = "done" => Len(queue) = Len(LinesOf(text))
       /\ dead => \E i \in 1 .. Len(text) - 1 :
                      {text[i], text[i + 1]} \subseteq Feed!NewLines

\* The invariant of reading a file: the queue holds a peer for every line before
\* the place where the next turn starts.
FeedInv ==
    /\ file \in Files
    /\ FeedState(file, fileOffset - aheadJump, feedResult, peerIngestionQueue, crashed)

\* Files are sequences of characters.
LEMMA FilesAreTexts == ASSUME NEW text \in Files
                       PROVE  text \in Seq(UNION {Range(t) : t \in Files})
BY FilesAssumption

\* Before the first turn nothing is read.
LEMMA FeedStarts ==
    ASSUME Feed!FeedInit, peerIngestionQueue = <<>>, crashed = FALSE
    PROVE  FeedInv
<1>1. /\ file \in Files /\ fileOffset = 0 /\ aheadJump = 0 /\ feedResult = "reading"
  BY DEF Feed!FeedInit
<1> DEFINE C == UNION {Range(t) : t \in Files}
           n == Len(file)
<1>2. file \in Seq(C)
  BY <1>1, FilesAreTexts
<1> HIDE DEF C
<1>3. n \in Nat
  BY <1>2, LenProperties
<1>4. AtLine(file, 0)
  <2>1. 0 < n => 1 \in 1 .. n /\ 0 + 1 = 1 /\ ~(1 > 1)
    BY <1>3
  <2>2. 0 < n => 0 + 1 \in LineStarts(file) \/ file[0 + 1] \in Feed!NewLines
    BY <2>1 DEF LineStarts, n
  <2> QED
    BY <1>3, <2>2 DEF AtLine, n
<1>5. Cardinality(Before(file, 0 + 1)) = 0
  <2>1. \A i \in 1 .. n : ~(i < 0 + 1)
    OBVIOUS
  <2>2. Before(file, 0 + 1) = {}
    BY <2>1 DEF Before, LineStarts, n
  <2> QED
    BY <2>2, FS_EmptySet
<1>6. Len(LinesOf(file)) \in Nat
  BY <1>2, LinesAreCounted, StartsAreFinite
<1> DEFINE queue == peerIngestionQueue
<1>7. queue \in Seq(Feed!Range(queue)) /\ Len(queue) = 0 /\ DOMAIN queue = {}
  OBVIOUS
<1>8. 0 - 0 = 0 /\ Len(queue) <= Len(LinesOf(file))
  BY <1>6, <1>7
<1> QED
  BY <1>1, <1>4, <1>5, <1>7, <1>8 DEF FeedInv, FeedState

\* A turn that pushes no peer.
LEMMA NothingIsPushed ==
    ASSUME NEW text, NEW at, NEW then, NEW result, NEW queue,
           FeedState(text, at, "reading", queue, FALSE)
    PROVE  /\ ~HasPeers(text) => \A dead \in BOOLEAN : FeedState(text, then, result, queue, dead)
           /\ HasPeers(text) /\ Len(queue) = Len(LinesOf(text)) =>
                  FeedState(text, then, "done", queue, FALSE)
           /\ ~IsReadable(text) => FeedState(text, then, "failed", queue, FALSE)
           /\ /\ ~IsReadable(text)
              /\ \E i \in 1 .. Len(text) - 1 :
                     {text[i], text[i + 1]} \subseteq Feed!NewLines
              => FeedState(text, then, "reading", queue, TRUE)
<1> DEFINE twoNewLines == \E i \in 1 .. Len(text) - 1 :
                              {text[i], text[i + 1]} \subseteq Feed!NewLines
<1>1. /\ queue \in Seq(Feed!Range(queue))
      /\ HasPeers(text) =>
         /\ Len(queue) <= Len(LinesOf(text))
         /\ \A i \in DOMAIN queue : queue[i].ip = PeerOf(LinesOf(text)[i]).ip
         /\ IsReadable(text) => \A i \in DOMAIN queue : queue[i] = PeerOf(LinesOf(text)[i])
  BY Zenon DEF FeedState
<1>2. ~HasPeers(text) => \A dead \in BOOLEAN : FeedState(text, then, result, queue, dead)
  BY <1>1, Zenon DEF FeedState
<1>3. "done" # "reading" /\ "done" # "failed" /\ "failed" # "reading"
  OBVIOUS
<1>4. HasPeers(text) /\ Len(queue) = Len(LinesOf(text)) =>
          FeedState(text, then, "done", queue, FALSE)
  BY <1>1, <1>3, Zenon DEF FeedState
<1>5. ~IsReadable(text) => FeedState(text, then, "failed", queue, FALSE)
  BY <1>1, <1>3, Zenon DEF FeedState
<1>6. ~IsReadable(text) /\ twoNewLines => FeedState(text, then, "reading", queue, TRUE)
  BY <1>1, Zenon DEF FeedState
<1> QED
  BY <1>2, <1>4, <1>5, <1>6

\* A turn that pushes the address of a line, and its port if the file is readable.
LEMMA LineIsPushed ==
    ASSUME NEW C, NEW text \in Seq(C), NEW at, NEW then, NEW queue, NEW peer,
           FeedState(text, at, "reading", queue, FALSE),
           HasPeers(text), at + 1 \in LineStarts(text),
           peer.ip = PeerOf(LineAt(text, at + 1)).ip,
           IsReadable(text) => peer = PeerOf(LineAt(text, at + 1)),
           AtLine(text, then),
           Before(text, then + 1) = Before(text, at + 1) \cup {at + 1}
    PROVE  FeedState(text, then, "reading", Append(queue, peer), FALSE)
<1> DEFINE lines == LinesOf(text)
           line == LineAt(text, at + 1)
           k == Len(queue) + 1
           new == Append(queue, peer)
<1>1. /\ queue \in Seq(Feed!Range(queue))
      /\ Len(queue) = Cardinality(Before(text, at + 1))
      /\ \A i \in DOMAIN queue : queue[i].ip = PeerOf(lines[i]).ip
      /\ IsReadable(text) => \A i \in DOMAIN queue : queue[i] = PeerOf(lines[i])
  BY Zenon DEF FeedState
<1>2. /\ k \in 1 .. Len(lines)
      /\ Cardinality(Before(text, then + 1)) = k
      /\ lines[k] = line
  <2> DEFINE j == Cardinality(Before(text, at + 1)) + 1
  <2>1. /\ j \in 1 .. Cardinality(LineStarts(text))
        /\ Cardinality(Before(text, at + 1) \cup {at + 1}) = j
        /\ lines[j] = line
    BY LineIsNumbered
  <2>2. j = k
    BY <1>1
  <2>3. Len(lines) = Cardinality(LineStarts(text))
    BY LinesAreCounted
  <2> HIDE DEF j, lines, k, line
  <2> QED
    BY <2>1, <2>2, <2>3
<1>3. Len(queue) \in Nat /\ DOMAIN queue = 1 .. Len(queue)
  BY <1>1, LenProperties
<1>4. /\ Len(new) = k /\ DOMAIN new = 1 .. k /\ new[k] = peer
      /\ \A i \in DOMAIN queue : new[i] = queue[i]
      /\ new \in Seq(Feed!Range(queue) \cup {peer})
  <2>1. queue \in Seq(Feed!Range(queue) \cup {peer})
    BY <1>1, SeqMonotonic
  <2> QED
    BY <1>3, <2>1, AppendProperties
<1>5. \A i \in DOMAIN new : i \in DOMAIN queue \/ i = k
  BY <1>3, <1>4
<1> HIDE DEF new, k
<1>6. new \in Seq(Feed!Range(new))
  BY <1>4, LenProperties, ElementOfSeq DEF Feed!Range
<1>7. \A i \in DOMAIN new : new[i].ip = PeerOf(lines[i]).ip
  BY <1>1, <1>2, <1>4, <1>5
<1>8. IsReadable(text) => \A i \in DOMAIN new : new[i] = PeerOf(lines[i])
  BY <1>1, <1>2, <1>4, <1>5
<1>9. Len(new) <= Len(lines) /\ Len(new) = Cardinality(Before(text, then + 1))
  <2>1. Len(lines) \in Nat
    BY LinesAreCounted, StartsAreFinite
  <2> HIDE DEF lines
  <2> QED
    BY <1>2, <1>4, <2>1
<1>10. "reading" # "failed" /\ "reading" # "done"
  OBVIOUS
<1> QED
  BY <1>6, <1>7, <1>8, <1>9, <1>10, Zenon DEF FeedState, new

\* The queue stays a sequence.
LEMMA RangeOfAppend ==
    ASSUME NEW queue, queue \in Seq(Feed!Range(queue)), NEW peer
    PROVE  Append(queue, peer) \in Seq(Feed!Range(Append(queue, peer)))
<1> DEFINE new == Append(queue, peer)
<1>1. queue \in Seq(Feed!Range(queue) \cup {peer})
  BY SeqMonotonic
<1>2. new \in Seq(Feed!Range(queue) \cup {peer})
  BY <1>1, AppendProperties
<1> HIDE DEF new
<1>3. new \in Seq(Feed!Range(new))
  BY <1>2, LenProperties, ElementOfSeq DEF Feed!Range
<1> QED
  BY <1>3 DEF new

\* The four ways in which a turn ends.
LEMMA TurnIs ==
    ASSUME Feed!ReadLine, NEW start, start = fileOffset - aheadJump
    PROVE  LET c == Chunk(file, start)
               b == Feed!Buffer(c)
               peer == [ip |-> Feed!AddressText(b), port |-> Feed!Port(b)]
               queue == peerIngestionQueue
           IN  /\ file' = file /\ feedResult = "reading"
               /\ fileOffset' = ReadTo(file, start)
               /\ \/ /\ Len(c) \in {1, Feed!NextLine(c)}
                     /\ feedResult' = "done" /\ queue' = queue /\ crashed' = crashed
                  \/ /\ Len(c) \notin {1, Feed!NextLine(c)} /\ Feed!LastColon(b) = 0
                     /\ feedResult' = feedResult /\ queue' = queue /\ crashed' = TRUE
                  \/ /\ Len(c) \notin {1, Feed!NextLine(c)} /\ Feed!LastColon(b) # 0
                     /\ ~Feed!IsAddress(Feed!AddressText(b))
                     /\ feedResult' = "failed" /\ queue' = queue /\ crashed' = crashed
                  \/ /\ Len(c) \notin {1, Feed!NextLine(c)} /\ Feed!LastColon(b) # 0
                     /\ Feed!IsAddress(Feed!AddressText(b))
                     /\ aheadJump' = Len(c) - Feed!NextLine(c)
                     /\ queue' = Append(queue, peer)
                     /\ feedResult' = feedResult /\ crashed' = crashed
BY Zenon DEF Feed!ReadLine, Feed!AheadJump, Chunk, ReadTo

\* A turn of the loop keeps the invariant.
LEMMA FeedStep ==
    ASSUME FeedInv, ~crashed, Feed!ReadLine
    PROVE  FeedInv'
<1> DEFINE C == UNION {Range(t) : t \in Files}
<1>1. PICK text, start, queue :
          text = file /\ start = fileOffset - aheadJump /\ queue = peerIngestionQueue
  OBVIOUS
<1> DEFINE c == Chunk(text, start)
           m == Len(c)
           next == Feed!NextLine(c)
           b == Feed!Buffer(c)
           n == Len(text)
           peer == [ip |-> Feed!AddressText(b), port |-> Feed!Port(b)]
           twoNewLines == \E i \in 1 .. n - 1 :
                              {text[i], text[i + 1]} \subseteq Feed!NewLines
           then == fileOffset' - aheadJump'
<1>2. /\ file' = text /\ feedResult = "reading" /\ fileOffset' = ReadTo(text, start)
      /\ \/ /\ m \in {1, next}
            /\ feedResult' = "done" /\ peerIngestionQueue' = queue /\ crashed' = crashed
         \/ /\ m \notin {1, next} /\ Feed!LastColon(b) = 0
            /\ feedResult' = feedResult /\ peerIngestionQueue' = queue /\ crashed' = TRUE
         \/ /\ m \notin {1, next} /\ Feed!LastColon(b) # 0
            /\ ~Feed!IsAddress(Feed!AddressText(b))
            /\ feedResult' = "failed" /\ peerIngestionQueue' = queue /\ crashed' = crashed
         \/ /\ m \notin {1, next} /\ Feed!LastColon(b) # 0
            /\ Feed!IsAddress(Feed!AddressText(b))
            /\ aheadJump' = m - next
            /\ peerIngestionQueue' = Append(queue, peer)
            /\ feedResult' = feedResult /\ crashed' = crashed
  BY <1>1, TurnIs, Zenon
<1>3. /\ text \in Files /\ crashed = FALSE
      /\ FeedState(text, start, "reading", queue, FALSE)
  <2>1. FeedState(file, fileOffset - aheadJump, feedResult, peerIngestionQueue, crashed)
        /\ file \in Files
    BY DEF FeedInv
  <2>2. crashed \in BOOLEAN
    BY <2>1, Zenon DEF FeedState
  <2>3. crashed = FALSE
    BY <2>2
  <2> QED
    BY <1>1, <1>2, <2>1, <2>3
<1>4. text \in Seq(C)
  BY <1>3, FilesAreTexts
<1>5. SUFFICES FeedState(text, then, feedResult', peerIngestionQueue', crashed')
  BY <1>2, <1>3 DEF FeedInv
<1>6. queue \in Seq(Feed!Range(queue))
  BY <1>3, Zenon DEF FeedState
<1> HIDE DEF C, c, m, next, b, n, twoNewLines, then
<1>7. CASE ~HasPeers(text)
  <2>1. CASE peerIngestionQueue' = queue
    BY <1>2, <1>3, <1>7, <2>1, NothingIsPushed
  <2>2. CASE peerIngestionQueue' = Append(queue, peer)
    <3>1. crashed' \in BOOLEAN
      BY <1>2, <1>3
    <3>2. peerIngestionQueue' \in Seq(Feed!Range(peerIngestionQueue'))
      BY <1>6, <2>2, RangeOfAppend
    <3> QED
      BY <1>7, <3>1, <3>2, Zenon DEF FeedState
  <2> QED
    BY <1>2, <2>1, <2>2
<1>8. CASE HasPeers(text)
  <2>1. AtLine(text, start) /\ Len(queue) = Cardinality(Before(text, start + 1))
    BY <1>3, <1>8, Zenon DEF FeedState
  <2>2. /\ m \in {1, next} <=> m <= 1
        /\ m <= 1 => \A i \in LineStarts(text) : i <= start
    BY <1>4, <1>8, <2>1, TurnEnds DEF c, m, next
  <2>3. start \in 0 .. n /\ n \in Nat
    BY <1>4, <2>1, LenProperties DEF AtLine, n
  <2>4. m \in Nat /\ start + m <= n /\ start + m = ReadTo(text, start)
    <3>1. /\ m \in Nat /\ start + m = ReadTo(text, start)
          /\ ReadTo(text, start) \in 0 .. n
      BY <1>4, <2>3, ChunkIs DEF c, m, n
    <3> QED
      BY <2>3, <3>1
  <2>5. CASE m <= 1
    <3>1. \A i \in LineStarts(text) : i < start + 1
      <4>1. \A i \in LineStarts(text) : i \in 1 .. n /\ i <= start
        BY <2>2, <2>5 DEF LineStarts, n
      <4> QED
        BY <2>3, <4>1
    <3>2. Before(text, start + 1) = LineStarts(text)
      BY <3>1 DEF Before
    <3>3. Len(queue) = Len(LinesOf(text))
      BY <1>4, <2>1, <3>2, LinesAreCounted
    <3>4. FeedState(text, then, "done", queue, FALSE)
      BY <1>3, <1>8, <3>3, NothingIsPushed
    <3>5. m \in {1, next}
      BY <2>2, <2>5
    <3> QED
      BY <1>2, <1>3, <3>4, <3>5
  <2>6. CASE m > 1
    <3>1. start < n /\ m \notin {1, next}
      BY <2>2, <2>3, <2>4, <2>6
    <3>2. CASE start + 1 \notin LineStarts(text)
      <4>1. /\ ~Feed!IsAddress(Feed!AddressText(b))
            /\ ~IsReadable(text)
            /\ Feed!LastColon(b) = 0 => twoNewLines
        BY <1>4, <1>8, <2>1, <2>6, <3>1, <3>2, TurnAtNewLine
           DEF b, c, m, n, twoNewLines
      <4>2. FeedState(text, then, "failed", queue, FALSE)
        BY <1>3, <4>1, NothingIsPushed
      <4>3. CASE Feed!LastColon(b) = 0
        <5>1. FeedState(text, then, "reading", queue, TRUE)
          BY <1>3, <4>1, <4>3, NothingIsPushed DEF twoNewLines, n
        <5> QED
          BY <1>2, <1>3, <3>1, <4>3, <5>1
      <4>4. CASE Feed!LastColon(b) # 0
        BY <1>2, <1>3, <3>1, <4>1, <4>2, <4>4
      <4> QED
        BY <4>3, <4>4
    <3>3. CASE start + 1 \in LineStarts(text)
      <4> DEFINE line == LineAt(text, start + 1)
                 l == Len(line)
      <4>1. IsPeer(line)
        BY <1>8, <3>3 DEF HasPeers
      <4>2. l \in Nat \ {0} /\ start + 1 + l - 1 <= n /\ line \in Seq(C)
        BY <1>4, <3>3, LineIs DEF n
      <4> HIDE DEF l
      <4>3. CASE start + l < n
        <5>1. /\ Feed!LastColon(b) # 0
              /\ Feed!AddressText(b) = PeerOf(line).ip
          BY <1>4, <2>3, <3>3, <4>1, <4>3, PeerInBuffer DEF b, c, n, l
        <5>2. Feed!IsAddress(PeerOf(line).ip)
          BY <4>1 DEF IsPeer
        <5>3. /\ aheadJump' = m - next
              /\ peerIngestionQueue' = Append(queue, peer)
              /\ feedResult' = "reading" /\ crashed' = FALSE
          BY <1>2, <1>3, <3>1, <5>1, <5>2
        <5>4. /\ next \in Nat /\ AtLine(text, start + next)
              /\ Before(text, start + next + 1) = Before(text, start + 1) \cup {start + 1}
          BY <1>4, <2>3, <3>3, <4>1, <4>3, TurnReads DEF c, n, l, next
        <5>5. then = start + next
          BY <1>2, <2>3, <2>4, <5>3, <5>4 DEF then
        <5>6. peer.ip = PeerOf(line).ip
          BY <5>1
        <5>7. IsReadable(text) => peer = PeerOf(line)
          <6>1. IsReadable(text) => Feed!Port(b) = PeerOf(line).port
            BY <1>4, <2>3, <3>3, <4>1, <4>3, PortIsOwn DEF b, c, n, l
          <6>2. PeerOf(line) = [ip |-> PeerOf(line).ip, port |-> PeerOf(line).port]
            BY DEF PeerOf
          <6> QED
            BY <5>1, <6>1, <6>2
        <5> HIDE DEF peer
        <5>8. FeedState(text, then, "reading", Append(queue, peer), FALSE)
          BY <1>3, <1>4, <1>8, <3>3, <5>4, <5>5, <5>6, <5>7, LineIsPushed
        <5> QED
          BY <5>3, <5>8
      <4>4. CASE start + l = n
        <5>1. /\ Feed!LastColon(b) # 0
              /\ ~Feed!IsAddress(Feed!AddressText(b))
              /\ ~IsReadable(text)
          BY <1>4, <2>3, <3>3, <4>1, <4>4, TurnAtLastLine DEF b, c, n, l
        <5>2. FeedState(text, then, "failed", queue, FALSE)
          BY <1>3, <5>1, NothingIsPushed
        <5> QED
          BY <1>2, <1>3, <3>1, <5>1, <5>2
      <4>5. start + l < n \/ start + l = n
        BY <2>3, <4>2
      <4> QED
        BY <4>3, <4>4, <4>5
    <3> QED
      BY <3>2, <3>3
  <2> QED
    BY <2>4, <2>5, <2>6
<1> QED
  BY <1>7, <1>8

-----------------------------------------------------------------------------
(* The theorems *)

\* Every step of the tracker, its threads and the network keeps the invariant.
LEMMA TrackerStep ==
    ASSUME TrackerInv, TrackerNext
    PROVE  TrackerInv'
<1>1. ~crashed
  BY DEF TrackerNext
<1>2. CASE Initialize
  BY <1>1, <1>2, InitializeStep
<1>3. CASE SubmitWatchdog \/ Wait \/ SpuriousWakeup
  BY <1>1, <1>3, IdleSteps
<1>4. CASE Send
  BY <1>1, <1>4, SendStep
<1>5. CASE Lose
  BY <1>1, <1>5, LoseStep
<1>6. CASE Answer
  BY <1>1, <1>6, AnswerStep
<1>7. CASE Receive
  BY <1>1, <1>7, ReceiveStep
<1>8. ASSUME NEW t \in DOMAIN replies, ProcessResponse(t) PROVE TrackerInv'
  BY <1>1, <1>8, LateReplyStep, ReplyStep
<1>9. ASSUME NEW t \in DOMAIN replies, DestroyReplyPacket(t) PROVE TrackerInv'
  BY <1>1, <1>9, DestroyStep
<1>10. CASE Execute
  BY <1>1, <1>10, ExecuteStep
<1>11. CASE DrainConversations
  BY <1>1, <1>11, DrainStep
<1>12. CASE ReceiveStray
  BY <1>1, <1>12, ReceiveStrayStep
<1> QED
  BY <1>2, <1>3, <1>4, <1>5, <1>6, <1>7, <1>8, <1>9, <1>10, <1>11, <1>12
     DEF TrackerNext, ProcessingStep, WatchdogStep

\* So does a step of anything else.
LEMMA TrackerStutter ==
    ASSUME TrackerInv, UNCHANGED trackerVars
    PROVE  TrackerInv'
<1>1. UNCHANGED <<trackerStatus, connectionID, trackerConversations, conversations,
                  trackerOutgoingPacketQueue, f, replies, peerIngestionQueue, crashed,
                  uniqueIdentifier, watchdog, requests, answers, copies, strays, spurious>>
  BY DEF trackerVars, programVars, conversationVars, networkVars
<1>2. TypesInv'
  BY <1>1 DEF TrackerInv, TypesInv, NoStray
<1>3. ListInv'
  BY <1>1 DEF TrackerInv, ListInv
<1>4. \A id : /\ QueuedAt(id)' = QueuedAt(id) /\ Requested(id)' = Requested(id)
              /\ Answered(id)' = Answered(id) /\ RepliedBy(id)' = RepliedBy(id)
              /\ ReceivedBy(id)' = ReceivedBy(id)
  BY <1>1 DEF QueuedAt, Requested, Answered, RepliedBy, ReceivedBy
<1>5. PhasesInv'
  BY <1>1, <1>4 DEF TrackerInv, PhasesInv, NeverSent
<1>6. OnceInv'
  BY <1>1, <1>4 DEF TrackerInv, OnceInv, SentOnce
<1>7. OwnersInv'
  BY <1>1 DEF TrackerInv, OwnersInv, Owns, Finished
<1>8. FaultInv'
  BY <1>1, <1>4 DEF TrackerInv, FaultInv, NoFault, NoError, UnderWay, Finished
<1> QED
  BY <1>2, <1>3, <1>5, <1>6, <1>7, <1>8 DEF TrackerInv

\* While a file is read, there is no tracker.
NoTracker ==
    /\ trackerStatus = "CREATED" /\ connectionID = NULL
    /\ trackerConversations = CreateList /\ conversations = <<>>
    /\ trackerOutgoingPacketQueue = <<>> /\ requests = {}
    /\ replies = <<>> /\ watchdog = "none" /\ f = FALSE

SourcesInv ==
    /\ mode \in {"file", "tracker"}
    /\ mode = "tracker" => TrackerInv
    /\ mode = "file" => FeedInv /\ NoTracker

\* The invariant holds at first, whatever the mode.
LEMMA SourcesStart == SourcesInit => SourcesInv
<1> SUFFICES ASSUME SourcesInit PROVE SourcesInv
  OBVIOUS
<1>1. mode \in {"file", "tracker"} /\ TrackerInit
  BY DEF SourcesInit
<1>2. CASE mode = "tracker"
  BY <1>1, <1>2, InitTracker DEF SourcesInv
<1>3. CASE mode = "file"
  <2>1. Feed!FeedInit
    BY <1>3 DEF SourcesInit
  <2>2. FeedInv
    BY <1>1, <2>1, FeedStarts DEF TrackerInit
  <2>3. NoTracker
    BY <1>1 DEF TrackerInit, NoTracker
  <2> QED
    BY <1>3, <2>2, <2>3 DEF SourcesInv
<1> QED
  BY <1>1, <1>2, <1>3

\* Every step keeps it.
LEMMA SourcesStep == SourcesInv /\ [SourcesNext]_sourcesVars => SourcesInv'
<1> SUFFICES ASSUME SourcesInv, [SourcesNext]_sourcesVars PROVE SourcesInv'
  OBVIOUS
<1>1. CASE ReadFile
  <2>1. mode = "file" /\ mode' = "file" /\ ~crashed /\ Feed!ReadLine
    BY <1>1 DEF ReadFile
  <2>2. FeedInv /\ NoTracker
    BY <2>1 DEF SourcesInv
  <2>3. FeedInv'
    BY <2>1, <2>2, FeedStep
  <2>4. NoTracker'
    BY <1>1, <2>2 DEF ReadFile, NoTracker, conversationVars, networkVars
  <2> QED
    BY <2>1, <2>3, <2>4 DEF SourcesInv
<1>2. CASE AskTracker
  <2>1. mode = "tracker" /\ mode' = "tracker" /\ TrackerNext
    BY <1>2 DEF AskTracker
  <2>2. TrackerInv'
    BY <2>1, TrackerStep DEF SourcesInv
  <2> QED
    BY <2>1, <2>2 DEF SourcesInv
<1>3. CASE UNCHANGED sourcesVars
  <2>1. UNCHANGED <<trackerVars, mode, file, fileOffset, aheadJump, feedResult>>
    BY <1>3 DEF sourcesVars, feedVars
  <2>2. TrackerInv => TrackerInv'
    BY <2>1, TrackerStutter
  <2>3. UNCHANGED <<peerIngestionQueue, crashed>> /\ (NoTracker => NoTracker')
    BY <2>1 DEF NoTracker, trackerVars, programVars, conversationVars, networkVars
  <2>4. FeedInv => FeedInv'
    BY <2>1, <2>3 DEF FeedInv
  <2> QED
    BY <2>1, <2>2, <2>3, <2>4 DEF SourcesInv
<1> QED
  BY <1>1, <1>2, <1>3 DEF SourcesNext

\* The invariant of the sources of peers, under every interleaving of the main
\* thread, the processing threads, the watchdog and the network.
THEOREM SourcesInvariant == SourcesSpec => []SourcesInv
BY SourcesStart, SourcesStep, PTL DEF SourcesSpec

\* The tracker's variables keep their types, the list of conversations and what
\* is allocated agree, and an ANNOUNCE is only sent with a connection id that the
\* tracker gave.
THEOREM UdpTrackerTypeCorrect == SourcesSpec => []TrackerTypeOK
<1>1. SourcesInv => TrackerTypeOK
  <2> SUFFICES ASSUME SourcesInv PROVE TrackerTypeOK
    OBVIOUS
  <2> DEFINE data == ElementData(trackerConversations)
  <2>1. CASE mode = "tracker"
    <3>1. TypesInv /\ ListInv
      BY <2>1 DEF SourcesInv, TrackerInv
    <3>2. Range(data) = DOMAIN conversations
      <4>1. Range(<<>>) = {} /\ \A c : Range(<<c>>) = {c}
        BY DEF Range
      <4> QED
        BY <3>1, <4>1 DEF ListInv
    <3>3. Range(trackerOutgoingPacketQueue) \cup requests \subseteq RequestSet
      <4>1. \A i \in DOMAIN trackerOutgoingPacketQueue :
                trackerOutgoingPacketQueue[i] \in RequestSet
        BY <3>1, LenProperties, ElementOfSeq DEF TypesInv
      <4> QED
        BY <3>1, <4>1 DEF TypesInv, Range
    <3> QED
      BY <3>1, <3>2, <3>3 DEF TypesInv, TrackerTypeOK, RequestSet
  <2>2. CASE mode = "file"
    <3>1. FeedInv /\ NoTracker
      BY <2>2 DEF SourcesInv
    <3>2. data = <<>>
      BY <3>1, Constants, CreateIsEmpty DEF NoTracker
    <3>3. Range(data) = {} /\ DOMAIN conversations = {}
      BY <3>1, <3>2 DEF NoTracker, Range
    <3>4. crashed \in BOOLEAN
      BY <3>1, Zenon DEF FeedInv, FeedState
    <3>5. Range(trackerOutgoingPacketQueue) = {}
      BY <3>1 DEF NoTracker, Range
    <3> QED
      BY <3>1, <3>3, <3>4, <3>5 DEF NoTracker, TrackerTypeOK
  <2> QED
    BY <2>1, <2>2 DEF SourcesInv
<1> QED
  BY <1>1, SourcesInvariant, PTL

\* No reply is freed twice or lost: as long as the process lives, a finished
\* conversation owns one reply, and a reply that is kept has one conversation.
THEOREM RepliesOwnedOnce == SourcesSpec => []RepliesAreOwnedOnce
<1>1. SourcesInv => RepliesAreOwnedOnce
  <2> SUFFICES ASSUME SourcesInv, ~crashed PROVE RepliesAreOwnedOnce
    BY DEF RepliesAreOwnedOnce
  <2>1. CASE mode = "tracker"
    <3>1. TrackerInv
      BY <2>1 DEF SourcesInv
    <3> DEFINE owners(t) == {c \in DOMAIN conversations :
                   /\ conversations[c].converstationStatus = "FINISHED"
                   /\ conversations[c].supplementalResponseData = t}
    <3>2. ASSUME NEW t \in DOMAIN replies, NEW c \in owners(t)
          PROVE  /\ replies[t].place = "kept"
                 /\ replies[t].packetType = conversations[c].conversationType
                 /\ owners(t) = {c}
      <4>1. c \in DOMAIN conversations /\ Owns(c, t) /\ Finished(c)
        BY <3>2 DEF Owns, Finished
      <4>2. replies[t].place = "kept"
        BY <3>1, <4>1 DEF TrackerInv, OwnersInv, Owns
      <4>3. replies[t].packetType = "ANNOUNCE"
        <5>1. SentOK(replies[t])
          BY <3>1, <4>2, ReplyIsLate
        <5> QED
          BY <4>2, <5>1 DEF SentOK, PlaceOK
      <4>4. conversations[c].conversationType = "ANNOUNCE"
        BY <3>1, <4>1 DEF TrackerInv, ListInv, ConversationOK, Finished
      <4>5. DOMAIN conversations = {c}
        BY <3>1, <4>1, DeleteConversation DEF TrackerInv
      <4>6. owners(t) = {c}
        BY <4>1, <4>5 DEF Owns, Finished
      <4> QED
        BY <4>2, <4>3, <4>4, <4>6
    <3>3. ASSUME copies = 0, NEW t \in DOMAIN replies, replies[t].place = "kept"
          PROVE  owners(t) # {}
      <4>1. PICK c \in DOMAIN conversations : Owns(c, t)
        BY <3>1, <3>3 DEF TrackerInv, OwnersInv
      <4>2. c \in owners(t)
        BY <4>1 DEF Owns, Finished
      <4> QED
        BY <4>2
    <3> QED
      BY <3>2, <3>3 DEF RepliesAreOwnedOnce
  <2>2. CASE mode = "file"
    <3>1. DOMAIN replies = {}
      BY <2>2 DEF SourcesInv, NoTracker
    <3> QED
      BY <3>1 DEF RepliesAreOwnedOnce
  <2> QED
    BY <2>1, <2>2 DEF SourcesInv
<1> QED
  BY <1>1, SourcesInvariant, PTL

\* The queue of the swarm watchdog holds the peers of the source: of every file
\* of peers the addresses of its first lines in order, of all its lines when the
\* function returns 1, of a readable one with their ports; and from a tracker the
\* list of one announce, cut to what the receive buffer has room for.
THEOREM PeersMatchSource == SourcesSpec => []PushedPeersMatchSource
<1>1. SourcesInv => PushedPeersMatchSource
  <2> SUFFICES ASSUME SourcesInv PROVE PushedPeersMatchSource
    OBVIOUS
  <2>1. CASE mode = "tracker"
    <3>1. peerIngestionQueue \in {Fit(peers) : peers \in Announcements} \cup {<<>>}
          /\ mode # "file"
      BY <2>1 DEF SourcesInv, TrackerInv, TypesInv, Lists
    <3> QED
      BY <3>1, Zenon DEF PushedPeersMatchSource
  <2>2. CASE mode = "file"
    <3>1. FeedState(file, fileOffset - aheadJump, feedResult, peerIngestionQueue, crashed)
      BY <2>2 DEF SourcesInv, FeedInv
    <3> QED
      BY <2>2, <3>1, Zenon DEF PushedPeersMatchSource, FeedState
  <2> QED
    BY <2>1, <2>2 DEF SourcesInv
<1> QED
  BY <1>1, SourcesInvariant, PTL

\* With an honest tracker, the process is killed only after a datagram came twice
\* or answered no request, a spurious wakeup or an ERROR of the tracker, or by a
\* file that is not as the program reads it.
THEOREM CrashOnlyAfterFault == SourcesSpec => []CrashesOnlyAfterFault
<1>1. SourcesInv => CrashesOnlyAfterFault
  <2> SUFFICES ASSUME SourcesInv, crashed PROVE CrashesOnlyAfterFault
    BY DEF CrashesOnlyAfterFault
  <2>1. CASE mode = "tracker"
    <3>1. ~NoFault /\ copies \in Nat /\ strays \in Nat /\ spurious \in Nat
      BY <2>1 DEF SourcesInv, TrackerInv, TypesInv, FaultInv
    <3>2. \/ copies > 0 \/ strays > 0 \/ spurious > 0
          \/ \E t \in DOMAIN replies : replies[t].packetType = "ERROR"
      BY <3>1 DEF NoFault, NoError
    <3>3. mode # "file"
      BY <2>1
    <3> QED
      BY <3>2, <3>3, Zenon DEF CrashesOnlyAfterFault
  <2>2. CASE mode = "file"
    <3>1. FeedState(file, fileOffset - aheadJump, feedResult, peerIngestionQueue, crashed)
      BY <2>2 DEF SourcesInv, FeedInv
    <3>2. \/ ~HasPeers(file)
          \/ \E i \in 1 .. Len(file) - 1 : {file[i], file[i + 1]} \subseteq Feed!NewLines
      BY <3>1, Zenon DEF FeedState
    <3> QED
      BY <2>2, <3>2, Zenon DEF CrashesOnlyAfterFault
  <2> QED
    BY <2>1, <2>2 DEF SourcesInv
<1> QED
  BY <1>1, SourcesInvariant, PTL
=============================================================================

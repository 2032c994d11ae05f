----------------------------- MODULE PeerSources -----------------------------
(***************************************************************************)
(* Where the peers come from (main.c): the mode on the command line        *)
(* chooses a file of peers or a UDP tracker, and either pushes them to the *)
(* queue of the swarm watchdog.                                            *)
(***************************************************************************)
EXTENDS UdpTracker

CONSTANTS MaxLineLen, Files

ASSUME FilesAssumption ==
    /\ MaxLineLen \in Nat
    /\ Files \subseteq Seq(UNION {Range(text) : text \in Files})

VARIABLES mode, file, fileOffset, aheadJump, feedResult

Feed == INSTANCE PeerFeed

feedVars == <<file, fileOffset, aheadJump, feedResult>>
sourcesVars == <<trackerVars, mode, feedVars>>

SourcesInit ==
    /\ mode \in {"file", "tracker"}
    /\ TrackerInit
    /\ IF mode = "file" THEN Feed!FeedInit
       ELSE file = <<>> /\ fileOffset = 0 /\ aheadJump = 0 /\ feedResult = "reading"

ReadFile ==
    /\ mode = "file" /\ ~crashed
    /\ Feed!ReadLine
    /\ UNCHANGED <<mode, trackerStatus, connectionID, trackerOutgoingPacketQueue,
                   conversationVars, uniqueIdentifier, f, replies, watchdog,
                   networkVars, spurious, missed>>

AskTracker == /\ mode = "tracker" /\ TrackerNext
              /\ UNCHANGED <<mode, feedVars>>

RunWatchdog == /\ mode = "tracker" /\ ~crashed /\ WatchdogStep
               /\ UNCHANGED <<mode, feedVars>>

SourcesNext == ReadFile \/ AskTracker

\* The scheduler runs the watchdog's thread when it can go on; the network owes
\* nothing, so the threads that wait for it are not asked for anything.
SourcesSpec ==
    /\ SourcesInit /\ [][SourcesNext]_sourcesVars
    /\ WF_sourcesVars(RunWatchdog)

-----------------------------------------------------------------------------
(* Properties *)

\* The lines of a file: what stands between newline characters.
LineStarts(text) ==
    {i \in 1 .. Len(text) : /\ text[i] \notin Feed!NewLines
                            /\ i > 1 => text[i - 1] \in Feed!NewLines}

LineAt(text, start) ==
    LET ends == {i \in start .. Len(text) :
                    i < Len(text) => text[i + 1] \in Feed!NewLines}
    IN  SubSeq(text, start, Feed!Smallest(ends, start))

LinesOf(text) ==
    LET starts == LineStarts(text)
        nth(k) == CHOOSE i \in starts : Cardinality({j \in starts : j < i}) = k - 1
    IN  [k \in 1 .. Cardinality(starts) |-> LineAt(text, nth(k))]

Colon(line) == SelectInSeq(line, LAMBDA c : c = ":")

PeerOf(line) ==
    [ip |-> SubSeq(line, 1, Colon(line) - 1),
     port |-> Feed!Number(SubSeq(line, Colon(line) + 1, Len(line)))]

Ports == 0 .. 65535

\* A line as the buffer is made for: an address and a port of 16 bits, with no
\* other character behind its colon.
IsPeer(line) ==
    /\ Len(line) <= MaxLineLen
    /\ Feed!IsAddress(PeerOf(line).ip)
    /\ \A i \in Colon(line) + 1 .. Len(line) : line[i] \in Range(Feed!Digits)
    /\ PeerOf(line).port \in Ports

HasPeers(text) == \A i \in LineStarts(text) : IsPeer(LineAt(text, i))

\* Every line ends with one LF, and the colon of the next line is not read
\* together with it: then the program reads the file as it is meant.
IsReadable(text) ==
    LET colons == {i \in DOMAIN text : text[i] = ":"}
    IN  /\ text # <<>> /\ Last(text) = "LF"
        /\ \A i \in DOMAIN text : text[i] \in Feed!NewLines =>
               /\ text[i] = "LF" /\ i > 1
               /\ i < Len(text) => text[i + 1] \notin Feed!NewLines
        /\ \A k \in LineStarts(text) :
               Cardinality({i \in colons : i >= k /\ i < k + MaxLineLen + 2}) = 1

\* The queue holds the peers of the source and nothing else.  Of a file of peers,
\* they are the addresses of its first lines in order, of all of them when the
\* function returns 1, as it does if the file is readable; and then they have
\* their ports.  From a tracker comes the list of one announce, once, and whole
\* but for the peers that did not fit the receive buffer.
PushedPeersMatchSource ==
    LET lines == LinesOf(file)
        pushed == peerIngestionQueue
    IN  IF mode = "file"
        THEN HasPeers(file) =>
             /\ Len(pushed) <= Len(lines)
             /\ \A i \in DOMAIN pushed : pushed[i].ip = PeerOf(lines[i]).ip
             /\ feedResult = "done" => Len(pushed) = Len(lines)
             /\ IsReadable(file) =>
                    /\ \A i \in DOMAIN pushed : pushed[i] = PeerOf(lines[i])
                    /\ feedResult # "failed" /\ ~crashed
        ELSE pushed \in {Fit(peers) : peers \in Announcements} \cup {<<>>}

\* With an honest tracker the process is killed only after a datagram came twice
\* or answered no request, an ERROR was answered, or the watchdog woke up without
\* a reply; and by a file only if it has a line that is no peer or two newline
\* characters in a row, as "\r\n" or as an empty line.
CrashesOnlyAfterFault ==
    crashed =>
        IF mode = "file"
        THEN \/ ~HasPeers(file)
             \/ \E i \in 1 .. Len(file) - 1 : {file[i], file[i + 1]} \subseteq Feed!NewLines
        ELSE \/ copies > 0 \/ strays > 0 \/ spurious > 0
             \/ \E t \in DOMAIN replies : replies[t].packetType = "ERROR"
=============================================================================

------------------------------ MODULE MCMonitors -----------------------------
(***************************************************************************)
(* The two objects that the swarm watchdog shares with other threads, one  *)
(* at a time: the piece tracker, under any calls that respect its          *)
(* protocol, and a peer, whose packets are processed by many threads.      *)
(***************************************************************************)
EXTENDS PieceTracker, MCPeerMessages

VARIABLE monitor

AnyStream == CHOOSE s \in Streams : TRUE

MonitorsInit ==
    /\ monitor \in {"tracker", "peer"}
    /\ TrackerInit
    /\ MessagesInit
    /\ monitor = "tracker" => stream = AnyStream

UseTracker == monitor = "tracker" /\ TrackerNext /\ UNCHANGED <<monitor, mvars>>
UsePeer == monitor = "peer" /\ MessagesNext /\ UNCHANGED <<monitor, trackerVars>>

MonitorsNext == UseTracker \/ UsePeer

MonitorsSpec == MonitorsInit /\ [][MonitorsNext]_<<monitor, trackerVars, mvars>>
=============================================================================

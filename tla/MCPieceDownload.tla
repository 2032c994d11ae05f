--------------------------- MODULE MCPieceDownload --------------------------
(* Bounds for PieceDownload: blocks of 2 bytes, pieces of two blocks.      *)
EXTENDS PieceDownload

AnyConnected == SUBSET Peers
AllConnected == {Peers}

OneSize == {2}
OneExporter == {DiskIO}
=============================================================================

---------------------------- MODULE MCPeerSources ----------------------------
(* A small tracker and small files for TLC. *)
EXTENDS PeerSources

\* A list that fits the receive buffer, and one that does not.
MCAnnouncements == {<<"p1", "p2", "p3">>, <<"p1">>}

\* Lines that fill MaxLineLen, and lines so short that the next one is read
\* together with them.
Lines == {<<"A", "B", ":", "1", "2">>, <<"B", ":", "7">>, <<"A", ":", "3", "0">>}
Ends == {<<"LF">>, <<"CR", "LF">>, <<"LF", "LF">>}

\* The lines, ended and separated in every way, and lines without a colon or an
\* address.
MCFiles ==
    LET oneLine == {l \o e : l \in Lines, e \in Ends \cup {<<>>}}
        twoLines == {l \o e \o m : l \in Lines, e \in Ends, m \in oneLine}
        threeLines == {l \o <<"LF">> \o m : l \in Lines, m \in twoLines}
        noPeers == {<<"A", "1", "LF">>, <<":", "1", "LF">>}
    IN  {<<>>, <<"LF">>} \cup noPeers \cup oneLine \cup twoLines \cup threeLines
        \cup {<<"LF">> \o m : m \in oneLine}
=============================================================================

-------------------------- MODULE MCPeerMessages ---------------------------
EXTENDS PeerMessages

Packet(id, content) == [id |-> id, content |-> content]

Bitfield(pieces) == Packet(BITFIELD_ID, pieces)
Have(piece) == Packet(HAVE_ID, {piece})
Plain(id) == Packet(id, {})

\* A bitfield of two bytes with the HAVEs that follow it, two of them of the
\* same byte; and a peer that unchokes, sends blocks and chokes again.
Conversations ==
    {<<Bitfield({0, 9}), Have(2), Have(10)>>,
     <<Have(1), Have(3), Bitfield({12})>>,
     <<Plain(UNCHOKE_ID), Plain(PIECE_ID), Plain(PIECE_ID)>>,
     <<Plain(KEEP_ALIVE_ID), Plain(CHOKE_ID), Plain(6), Plain(CANCEL_ID)>>,
     <<Plain(INTERESTED_ID), Plain(NOT_INTERESTED_ID)>>}
=============================================================================

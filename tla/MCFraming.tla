------------------------------ MODULE MCFraming ------------------------------
(* Instances of Framing for TLC.                                           *)
EXTENDS Framing

\* The address of this node, 0xdbd, is one that a frame too short for a signature
\* may seem to carry: the end of its two sync bytes, or a byte and the last one.
\* A link packet (LS_READY) for it, from a node whose address needs quoting too,
\* and a packet for another node.
MCPacket == {<<173, 189, 155, 189>>, <<170, 170, 80, 188>>}

\* A zero, the special bytes, and the second byte of a quoted sync byte.
MCNoise == {0, 188, 189, 221}
=============================================================================

--------------------------- MODULE MCSharedQueue ---------------------------
(***************************************************************************)
(* Two producers, two threads that call next() and one that peeks.         *)
(***************************************************************************)
EXTENDS SharedQueue

CONSTANTS p1, p2, c1, c2, c3

MCProducer == {p1, p2}
MCConsumer == {c1, c2, c3}
MCPeeker   == {c3}
=============================================================================

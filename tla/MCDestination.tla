--------------------------- MODULE MCDestination ---------------------------
(* Instantiation of Destination for TLC: two migrated devices and one
   device the destination only has locally. *)
EXTENDS Destination

CONSTANTS a, b, c

MCSent == {a, b}
MCLocalOnly == {c}
=============================================================================

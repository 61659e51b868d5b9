----------------------------- MODULE MCTransfer -----------------------------
(* A small instance of Transfer: every size up to 11 bytes, split over up to *)
(* three connections, work of at least three bytes being worth a split.    *)
EXTENDS Transfer

MCSizes == 1..11
MCRequested == 1..3

=============================================================================

---------------------------- MODULE MCStateFile ----------------------------
(* A small instance of StateFile: files of one to six bytes over up to two  *)
(* connections, work of at least two bytes being worth a split.             *)
EXTENDS StateFile

MCSizes == 1..6
MCRequested == 1..2

=============================================================================

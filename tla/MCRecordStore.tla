----------------------------- MODULE MCRecordStore -----------------------------
(***************************************************************************)
(* The record stores by themselves: two threads, a store the archive carries, *)
(* two sessions, and two refusals, of which one may be an open's read.       *)
(***************************************************************************)
EXTENDS RecordStore, TLC

CONSTANTS carried

MCCarried == (carried :> <<"x">>)
ThreadSymmetry == Permutations(Threads)
=============================================================================

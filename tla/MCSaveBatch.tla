---------------------------- MODULE MCSaveBatch ----------------------------
(* Small instances of SaveBatch: three saves, so that an undo may put two back *)
(* and either may fail; or two, any of them missing at first, and operations   *)
(* enough to find what stopped and half-undone ones left.                      *)
EXTENDS SaveBatch, TLC

ValueSymmetry == Permutations(Values)
=============================================================================

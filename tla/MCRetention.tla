----------------------------- MODULE MCRetention -----------------------------
(* Retention on small instances. *)
EXTENDS Retention, TLC

CONSTANTS g1, g2, d1, d2

\* Each game has saves of its own.
OwnSaves == (g1 :> d1) @@ (g2 :> d2)

\* The second game keeps no saves.
SomeSaves == (g1 :> d1) @@ (g2 :> None)

\* Sockets, tokens and requests are interchangeable (safety runs only).
Interchangeable == Permutations(Runners) \cup Permutations(Tokens) \cup Permutations(Requests)
=============================================================================

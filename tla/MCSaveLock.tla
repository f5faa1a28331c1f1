------------------------------ MODULE MCSaveLock ------------------------------
(***************************************************************************)
(* Three processes. In the game's, one caller knows the owner by a link and  *)
(* a claim by its own path; a tool knows it by its own path; on another      *)
(* machine a caller and a claim reach it through a mount without locks. The  *)
(* real locks have only callers that wait ("lock") or only ones that do not  *)
(* ("session"): those are the behaviours in which the others stay out.       *)
(***************************************************************************)
EXTENDS SaveLock, TLC

CONSTANTS game, tool, remote, linked, claim, own, far, farClaim,
          target, link, mount, g1, g2, g3

AllCallers == {linked, claim, own, far, farClaim}
Where == [c \in AllCallers |->
            IF c \in {linked, claim} THEN game ELSE IF c = own THEN tool ELSE remote]
FirstFile == [c \in AllCallers |-> IF c \in {far, farClaim} THEN mount ELSE target]
SecondFile == [FirstFile EXCEPT ![linked] = link]
=============================================================================

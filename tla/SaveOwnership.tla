---------------------------- MODULE SaveOwnership ----------------------------
(***************************************************************************)
(* What the save claims promise, without tokens, runners or locks: a save  *)
(* directory has at most one user. A user is a live game, a game kept for  *)
(* its page, or a save request. Only a kept game can lose the directory to *)
(* another user; everybody else keeps it until it lets go.                 *)
(***************************************************************************)
CONSTANTS Dirs, LiveGames, KeptGames, SaveRequests

VARIABLE users   \* the users of each directory

Users == LiveGames \cup KeptGames \cup SaveRequests

Init == users = [d \in Dirs |-> {}]

\* One user, of one of the kinds in K.
One(S, K) == \E u \in S : S = {u} /\ u \in K

\* Whom a directory can be given to.
Takers == LiveGames \cup SaveRequests

Take(before, after) == before = {} /\ One(after, Takers)

LetGo(before, after) == One(before, Users) /\ after = {}

Keep(before, after) == One(before, LiveGames) /\ One(after, KeptGames)

TakeOver(before, after) == One(before, KeptGames) /\ One(after, Takers)

Step(before, after) ==
    \/ Take(before, after) \/ LetGo(before, after)
    \/ Keep(before, after) \/ TakeOver(before, after)

\* One critical section may end a game in one directory and start one in another.
Next == \A d \in Dirs : users'[d] = users[d] \/ Step(users[d], users'[d])

Spec == Init /\ [][Next]_users
=============================================================================

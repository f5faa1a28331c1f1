------------------------------- MODULE SaveLock -------------------------------
(***************************************************************************)
(* The lock on one owner's save directory (internal/backend/save_lock.go).  *)
(* A caller first enters its process's own gate for the owner, then takes a  *)
(* kernel lock on a file beside each path it knows the owner by. A location   *)
(* that has no locks to give is passed over.                                 *)
(*                                                                           *)
(* A gate is registered while somebody is at it and forgotten by the last one *)
(* to leave; sync.Mutex, the kernel lock and a process's death are external.  *)
(***************************************************************************)
EXTENDS Naturals, FiniteSets

CONSTANTS
    Processes,
    Callers,
    ProcessOf,      \* the process each caller runs in
    Files,          \* the lock files
    First, Second,  \* the lock file beside the resolved owner, and beside the
                    \* path the caller was given; the same one if they name it so
    NoLocks,        \* the files whose location cannot hold a kernel lock
    Waiting,        \* the callers that wait; the others are claims, which do not
    Gates,          \* the memory gates are allocated from
    None

ASSUME LockAssumption ==
    /\ IsFiniteSet(Callers)
    /\ ProcessOf \in [Callers -> Processes]
    /\ First \in [Callers -> Files] /\ Second \in [Callers -> Files]
    /\ NoLocks \subseteq Files /\ Waiting \subseteq Callers
    /\ None \notin Gates /\ None \notin Callers

VARIABLES
    pc,         \* where each caller is
    gate,       \* the saveGate it found
    open,       \* saveGates.open: process -> the registered gate
    users,      \* saveGate.users
    held,       \* saveGate.held: the caller inside
    owner       \* who holds the kernel lock of each file

vars == <<pc, gate, open, users, held, owner>>

\* Who is at a gate, in the order a caller passes through.
AtGate == {"entering", "first", "second", "in", "unlocking", "leaving", "forgetting"}
Inside == {"first", "second", "in", "unlocking", "leaving"}

TypeOK ==
    /\ pc \in [Callers -> AtGate \cup {"out"}]
    /\ gate \in [Callers -> Gates \cup {None}]
    /\ open \in [Processes -> Gates \cup {None}]
    /\ users \in [Gates -> SUBSET Callers]
    /\ held \in [Gates -> Callers \cup {None}]
    /\ owner \in [Files -> Callers \cup {None}]

Init ==
    /\ pc = [c \in Callers |-> "out"]
    /\ gate = [c \in Callers |-> None]
    /\ open = [p \in Processes |-> None]
    /\ users = [g \in Gates |-> {}]
    /\ held = [g \in Gates |-> None]
    /\ owner = [f \in Files |-> None]

Goto(c, where) == pc' = [pc EXCEPT ![c] = where]

-----------------------------------------------------------------------------
(***************************************************************************)
(* enterSaveGate.                                                          *)
(***************************************************************************)

\* Memory nobody refers to any more.
Unused(g) == (\A p \in Processes : open[p] # g) /\ (\A c \in Callers : gate[c] # g)

\* The caller counts from the moment it found the gate, waiting or not.
Counted(c, g) == [users EXCEPT ![g] = @ \cup {c}]

\* Under saveGates.mutex.
FindGate(c) ==
    /\ pc[c] = "out"
    /\ \E g \in Gates :
         /\ IF open[ProcessOf[c]] = None THEN Unused(g) ELSE g = open[ProcessOf[c]]
         /\ gate' = [gate EXCEPT ![c] = g]
         /\ open' = [open EXCEPT ![ProcessOf[c]] = g]
         /\ users' = Counted(c, g)
    /\ Goto(c, "entering")
    /\ UNCHANGED <<held, owner>>

EnterGate(c) ==
    /\ pc[c] = "entering" /\ held[gate[c]] = None
    /\ held' = [held EXCEPT ![gate[c]] = c]
    /\ Goto(c, "first")
    /\ UNCHANGED <<gate, open, users, owner>>

\* A claim somebody in this process holds is busy.
GateBusy(c) ==
    /\ pc[c] = "entering" /\ held[gate[c]] # None /\ c \notin Waiting
    /\ Goto(c, "forgetting")
    /\ UNCHANGED <<gate, open, users, held, owner>>

-----------------------------------------------------------------------------
(***************************************************************************)
(* lockSaveDirectories.                                                    *)
(***************************************************************************)

\* Faulty: a lock somebody holds is passed over as one that cannot be had.
LockIfFree(c, f) == owner' = IF owner[f] = None THEN [owner EXCEPT ![f] = c] ELSE owner

\* External: the kernel lock belongs to the open file.
LockFile(c, f) == owner[f] = None /\ owner' = [owner EXCEPT ![f] = c]

LockFirst(c) ==
    /\ pc[c] = "first"
    /\ \/ First[c] \in NoLocks /\ UNCHANGED owner
       \/ First[c] \notin NoLocks /\ LockFile(c, First[c])
    /\ Goto(c, "second")
    /\ UNCHANGED <<gate, open, users, held>>

\* Faulty: two names of one lock file are taken for two files.
NeverAgain(c) == Second[c] \in NoLocks

\* Nothing to lock at the second location, or the first lock over again.
NothingMore(c) == Second[c] \in NoLocks \/ Second[c] = First[c]

LockSecond(c) ==
    /\ pc[c] = "second"
    /\ \/ NothingMore(c) /\ UNCHANGED owner
       \/ ~NothingMore(c) /\ LockFile(c, Second[c])
    /\ Goto(c, "in")
    /\ UNCHANGED <<gate, open, users, held>>

\* A location is refused for another reason than a missing capability, or a
\* claim finds its file locked: what was locked is given back.
LockRefused(c) ==
    /\ pc[c] \in {"first", "second"}
    /\ Goto(c, "unlocking")
    /\ UNCHANGED <<gate, open, users, held, owner>>

-----------------------------------------------------------------------------
(***************************************************************************)
(* The release.                                                            *)
(***************************************************************************)

Release(c) ==
    /\ pc[c] = "in"
    /\ Goto(c, "unlocking")
    /\ UNCHANGED <<gate, open, users, held, owner>>

\* closeFiles, from the last file locked to the first.
UnlockFile(c) ==
    /\ pc[c] = "unlocking"
    /\ \E f \in {Second[c], First[c]} :
         /\ owner[f] = c /\ (f = First[c] => owner[Second[c]] # c \/ Second[c] = f)
         /\ owner' = [owner EXCEPT ![f] = None]
    /\ UNCHANGED <<pc, gate, open, users, held>>

\* Faulty: the last file locked is the only one unlocked.
UnlockedLastFile(c) ==
    /\ pc[c] = "unlocking" /\ owner[Second[c]] # c
    /\ Goto(c, "leaving")
    /\ UNCHANGED <<gate, open, users, held, owner>>

UnlockedFiles(c) ==
    /\ pc[c] = "unlocking"
    /\ owner[First[c]] # c /\ owner[Second[c]] # c
    /\ Goto(c, "leaving")
    /\ UNCHANGED <<gate, open, users, held, owner>>

LeaveGate(c) ==
    /\ pc[c] = "leaving"
    /\ held' = [held EXCEPT ![gate[c]] = None]
    /\ Goto(c, "forgetting")
    /\ UNCHANGED <<gate, open, users, owner>>

\* Faulty: a gate nobody is inside is forgotten, whoever waits at it.
OpenAfterHolder(c) ==
    IF held[gate[c]] = None THEN [open EXCEPT ![ProcessOf[c]] = None] ELSE open

OpenAfter(c) ==
    IF users[gate[c]] \ {c} = {} THEN [open EXCEPT ![ProcessOf[c]] = None] ELSE open

\* forget, under saveGates.mutex.
Forget(c) ==
    /\ pc[c] = "forgetting"
    /\ users' = [users EXCEPT ![gate[c]] = @ \ {c}]
    /\ open' = OpenAfter(c)
    /\ gate' = [gate EXCEPT ![c] = None]
    /\ Goto(c, "out")
    /\ UNCHANGED <<held, owner>>

\* External: a process dies without running anything, and the kernel releases
\* its locks. Its callers begin anew, in the process that is started next.
Die(p) ==
    LET dead == {c \in Callers : ProcessOf[c] = p} IN
    /\ pc' = [c \in Callers |-> IF c \in dead THEN "out" ELSE pc[c]]
    /\ gate' = [c \in Callers |-> IF c \in dead THEN None ELSE gate[c]]
    /\ open' = [open EXCEPT ![p] = None]
    /\ users' = [g \in Gates |-> users[g] \ dead]
    /\ held' = [g \in Gates |-> IF held[g] \in dead THEN None ELSE held[g]]
    /\ owner' = [f \in Files |-> IF owner[f] \in dead THEN None ELSE owner[f]]

-----------------------------------------------------------------------------
\* What a caller does once it has begun.
Step(c) ==
    \/ EnterGate(c) \/ GateBusy(c) \/ LockFirst(c) \/ LockSecond(c)
    \/ Release(c) \/ UnlockFile(c) \/ UnlockedFiles(c) \/ LeaveGate(c) \/ Forget(c)

Next ==
    \/ \E c \in Callers : FindGate(c) \/ Step(c) \/ LockRefused(c)
    \/ \E p \in Processes : Die(p)

Spec == Init /\ [][Next]_vars

\* A caller inside does its work and releases (bounds.go bounds a session's
\* close); nothing is assumed of who of several waiters a mutex or a kernel
\* lock lets in first.
FairSpec == Spec /\ \A c \in Callers : WF_vars(Step(c))

-----------------------------------------------------------------------------
(***************************************************************************)
(* Properties.                                                             *)
(***************************************************************************)

Locks(c) == {First[c], Second[c]} \ NoLocks

\* Two callers are never inside together: not in one process, whatever the
\* locations can do, and not in two when one lock file both know has locks.
Exclusion ==
    \A c, d \in Callers :
        pc[c] = "in" /\ pc[d] = "in" /\ c # d =>
            ProcessOf[c] # ProcessOf[d] /\ Locks(c) \cap Locks(d) = {}

\* Everybody at a gate is at the registered one: a gate forgotten while somebody
\* waits at it would let the next caller in through another.
OneGatePerProcess ==
    \A c \in Callers : pc[c] # "out" => gate[c] = open[ProcessOf[c]]

\* When nobody is at a lock nothing of it is left: no gate stays registered,
\* no kernel lock stays taken, also after a refusal half way and after a death.
NothingIsLeft ==
    /\ \A p \in Processes :
          open[p] # None => \E c \in Callers : ProcessOf[c] = p /\ pc[c] # "out"
    /\ \A f \in Files : owner[f] # None => pc[owner[f]] \in Inside

\* Whoever waits, somebody gets in, unless processes die for ever: callers never
\* wait on each other in a circle, nor one for a lock it holds under another name.
SomebodyGetsIn ==
    <>[][~\E p \in Processes : Die(p)]_vars =>
        ((\E c \in Waiting : pc[c] \in {"entering", "first", "second"}) ~>
            \/ \E c \in Callers : pc[c] \in {"in", "unlocking"}
            \/ \A c \in Waiting : pc[c] \notin {"entering", "first", "second"})
=============================================================================

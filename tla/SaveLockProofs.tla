---------------------------- MODULE SaveLockProofs ----------------------------
(***************************************************************************)
(* Theorems about SaveLock, for any number of processes, callers, lock files *)
(* and gates, wherever the locations have locks to give.                     *)
(***************************************************************************)
EXTENDS SaveLock, TLAPS

USE LockAssumption DEF AtGate, Inside

\* Everybody at a gate is counted there, and it is its process's own.
GateOK(c) ==
    IF pc[c] = "out" THEN gate[c] = None
    ELSE /\ gate[c] \in Gates /\ gate[c] = open[ProcessOf[c]]
         /\ c \in users[gate[c]]

UsersOK(g) == \A c \in users[g] : gate[c] = g

ProcessOK(c, d) == gate[c] = gate[d] /\ gate[c] # None => ProcessOf[c] = ProcessOf[d]

OpenOK(p) == open[p] # None => \E c \in Callers : ProcessOf[c] = p /\ pc[c] # "out"

\* Who is inside holds the gate, and nobody else does.
HeldOK(g) == held[g] # None => pc[held[g]] \in Inside /\ gate[held[g]] = g

InsideOK(c) == pc[c] \in Inside => held[gate[c]] = c

\* A kernel lock belongs to somebody who took it, and whoever is past a lock
\* has it.
OwnerOK(f) ==
    owner[f] # None =>
        /\ f \in {First[owner[f]], Second[owner[f]]}
        /\ pc[owner[f]] \in {"second", "in", "unlocking"}

LockedOK(c) ==
    /\ pc[c] \in {"second", "in"} /\ First[c] \notin NoLocks => owner[First[c]] = c
    /\ pc[c] = "in" /\ Second[c] \notin NoLocks => owner[Second[c]] = c

Gated ==
    /\ TypeOK
    /\ \A c \in Callers : GateOK(c) /\ InsideOK(c)
    /\ \A c, d \in Callers : ProcessOK(c, d)
    /\ \A g \in Gates : UsersOK(g) /\ HeldOK(g)
    /\ \A p \in Processes : OpenOK(p)

Locked == (\A f \in Files : OwnerOK(f)) /\ (\A c \in Callers : LockedOK(c))

LockInv == Gated /\ Locked

LEMMA InitLock == Init => LockInv
  BY DEF Init, LockInv, Gated, Locked, TypeOK, GateOK, InsideOK, ProcessOK, UsersOK,
         HeldOK, OpenOK, OwnerOK, LockedOK

LEMMA FindGateKeeps ==
    ASSUME LockInv, NEW c \in Callers, FindGate(c)
    PROVE  LockInv'
  <1> DEFINE p == ProcessOf[c]
  <1> USE DEF LockInv, Gated, TypeOK
  <1>1. PICK g \in Gates :
           /\ IF open[p] = None THEN Unused(g) ELSE g = open[p]
           /\ gate' = [gate EXCEPT ![c] = g]
           /\ open' = [open EXCEPT ![p] = g]
           /\ users' = [users EXCEPT ![g] = @ \cup {c}]
    BY DEF FindGate, Counted
  <1>2. /\ pc[c] = "out" /\ pc' = [pc EXCEPT ![c] = "entering"]
        /\ held' = held /\ owner' = owner /\ gate[c] = None
    BY DEF FindGate, Goto, GateOK
  <1>3. \A d \in Callers : gate[d] = g => ProcessOf[d] = p
    <2>1. CASE open[p] = None
      BY <1>1, <2>1 DEF Unused
    <2>2. CASE open[p] # None
      <3>1. PICK e \in Callers : ProcessOf[e] = p /\ pc[e] # "out"
        BY <2>2 DEF OpenOK
      <3>2. gate[e] = g
        BY <1>1, <2>2, <3>1 DEF GateOK
      <3>3. QED
        BY <3>1, <3>2 DEF ProcessOK
    <2>3. QED
      BY <2>1, <2>2
  <1>4. \A d \in Callers : d # c /\ ProcessOf[d] = p /\ pc[d] # "out" => gate[d] = g
    BY <1>1 DEF GateOK, Unused
  <1>5. TypeOK'
    BY <1>1, <1>2
  <1>6. \A d \in Callers : GateOK(d)' /\ InsideOK(d)'
    BY <1>1, <1>2, <1>4 DEF GateOK, InsideOK
  <1>7. \A d, e \in Callers : ProcessOK(d, e)'
    BY <1>1, <1>3 DEF ProcessOK
  <1>8. \A h \in Gates : UsersOK(h)' /\ HeldOK(h)'
    BY <1>1, <1>2 DEF UsersOK, HeldOK
  <1>9. \A q \in Processes : OpenOK(q)'
    BY <1>1, <1>2 DEF OpenOK
  <1>10. Locked'
    BY <1>2 DEF Locked, OwnerOK, LockedOK
  <1>11. QED
    BY <1>5, <1>6, <1>7, <1>8, <1>9, <1>10

\* A step of a caller that stays at its gate leaves the gates as they are.
LEMMA GatesUnchanged ==
    ASSUME Gated, NEW c \in Callers, NEW where \in AtGate, Goto(c, where), pc[c] # "out",
           where \in Inside => pc[c] \in Inside, pc[c] \in Inside => where \in Inside,
           UNCHANGED <<gate, open, users, held>>, owner' \in [Files -> Callers \cup {None}]
    PROVE  Gated'
  <1> USE DEF Gated, TypeOK, Goto
  <1>1. TypeOK'
    OBVIOUS
  <1>2. \A d \in Callers : GateOK(d)' /\ InsideOK(d)'
    BY DEF GateOK, InsideOK
  <1>3. \A d, e \in Callers : ProcessOK(d, e)'
    BY DEF ProcessOK
  <1>4. \A g \in Gates : UsersOK(g)' /\ HeldOK(g)'
    BY DEF UsersOK, HeldOK
  <1>5. \A p \in Processes : OpenOK(p)'
    BY DEF OpenOK
  <1>6. QED
    BY <1>1, <1>2, <1>3, <1>4, <1>5

LEMMA EnterGateKeeps ==
    ASSUME LockInv, NEW c \in Callers, EnterGate(c)
    PROVE  LockInv'
  <1> USE DEF LockInv, Gated, TypeOK, EnterGate, Goto
  <1>1. gate[c] \in Gates /\ TypeOK'
    BY DEF GateOK
  <1>2. \A d \in Callers : GateOK(d)' /\ InsideOK(d)'
    BY <1>1 DEF GateOK, InsideOK
  <1>3. \A d, e \in Callers : ProcessOK(d, e)'
    BY DEF ProcessOK
  <1>4. \A g \in Gates : UsersOK(g)' /\ HeldOK(g)'
    BY <1>1 DEF UsersOK, HeldOK
  <1>5. \A p \in Processes : OpenOK(p)'
    BY DEF OpenOK
  <1>6. Locked'
    BY DEF Locked, OwnerOK, LockedOK
  <1>7. QED
    BY <1>1, <1>2, <1>3, <1>4, <1>5, <1>6

LEMMA LeaveGateKeeps ==
    ASSUME LockInv, NEW c \in Callers, LeaveGate(c)
    PROVE  LockInv'
  <1> USE DEF LockInv, Gated, TypeOK, LeaveGate, Goto
  <1>1. gate[c] \in Gates /\ TypeOK' /\ held[gate[c]] = c
    BY DEF GateOK, InsideOK
  <1>2. \A d \in Callers : GateOK(d)' /\ InsideOK(d)'
    BY <1>1 DEF GateOK, InsideOK
  <1>3. \A d, e \in Callers : ProcessOK(d, e)'
    BY DEF ProcessOK
  <1>4. \A g \in Gates : UsersOK(g)' /\ HeldOK(g)'
    BY <1>1 DEF UsersOK, HeldOK
  <1>5. \A p \in Processes : OpenOK(p)'
    BY DEF OpenOK
  <1>6. Locked'
    BY DEF Locked, OwnerOK, LockedOK
  <1>7. QED
    BY <1>1, <1>2, <1>3, <1>4, <1>5, <1>6

LEMMA ForgetKeeps ==
    ASSUME LockInv, NEW c \in Callers, Forget(c)
    PROVE  LockInv'
  <1> USE DEF LockInv, Gated, TypeOK, Forget, Goto
  <1>1. gate[c] \in Gates /\ gate[c] = open[ProcessOf[c]] /\ c \in users[gate[c]]
    BY DEF GateOK
  <1>2. TypeOK'
    BY <1>1 DEF OpenAfter
  <1>3. \A d \in Callers : d # c /\ ProcessOf[d] = ProcessOf[c] /\ pc[d] # "out" =>
            d \in users[gate[c]]
    BY <1>1 DEF GateOK
  <1>4. \A d \in Callers : GateOK(d)' /\ InsideOK(d)'
    BY <1>1, <1>3 DEF GateOK, InsideOK, OpenAfter
  <1>5. \A d, e \in Callers : ProcessOK(d, e)'
    BY DEF ProcessOK
  <1>6. \A g \in Gates : UsersOK(g)' /\ HeldOK(g)'
    BY <1>1 DEF UsersOK, HeldOK
  <1>7. \A p \in Processes : OpenOK(p)'
    <2> SUFFICES ASSUME NEW p \in Processes, open'[p] # None
                 PROVE  \E d \in Callers : ProcessOf[d] = p /\ pc'[d] # "out"
      BY DEF OpenOK
    <2>1. CASE p # ProcessOf[c]
      BY <2>1 DEF OpenOK, OpenAfter
    <2>2. CASE p = ProcessOf[c]
      <3>1. PICK d \in users[gate[c]] : d # c
        BY <1>1, <2>2 DEF OpenAfter
      <3>2. d \in Callers /\ gate[d] = gate[c]
        BY <1>1, <3>1 DEF UsersOK
      <3>3. ProcessOf[d] = p /\ pc[d] # "out"
        BY <1>1, <2>2, <3>2 DEF ProcessOK, GateOK
      <3>4. QED
        BY <3>1, <3>2, <3>3
    <2>3. QED
      BY <2>1, <2>2
  <1>8. Locked'
    BY DEF Locked, OwnerOK, LockedOK
  <1>9. QED
    BY <1>2, <1>4, <1>5, <1>6, <1>7, <1>8

LEMMA GateBusyKeeps ==
    ASSUME LockInv, NEW c \in Callers, GateBusy(c)
    PROVE  LockInv'
  <1>1. Gated'
    BY GatesUnchanged DEF LockInv, Gated, TypeOK, GateBusy, Goto
  <1>2. Locked'
    BY DEF LockInv, Gated, TypeOK, GateBusy, Goto, Locked, OwnerOK, LockedOK
  <1>3. QED
    BY <1>1, <1>2 DEF LockInv

LEMMA LockFirstKeeps ==
    ASSUME LockInv, NEW c \in Callers, LockFirst(c)
    PROVE  LockInv'
  <1> USE DEF LockInv, LockFirst, LockFile
  <1>1. owner' \in [Files -> Callers \cup {None}]
    BY DEF Gated, TypeOK
  <1>2. Gated'
    BY <1>1, GatesUnchanged
  <1>3. Locked'
    BY DEF Gated, TypeOK, Goto, Locked, OwnerOK, LockedOK
  <1>4. QED
    BY <1>2, <1>3

LEMMA LockSecondKeeps ==
    ASSUME LockInv, NEW c \in Callers, LockSecond(c)
    PROVE  LockInv'
  <1> USE DEF LockInv, LockSecond, LockFile, NothingMore
  <1>1. owner' \in [Files -> Callers \cup {None}]
    BY DEF Gated, TypeOK
  <1>2. Gated'
    BY <1>1, GatesUnchanged
  <1>3. Locked'
    BY DEF Gated, TypeOK, Goto, Locked, OwnerOK, LockedOK
  <1>4. QED
    BY <1>2, <1>3

LEMMA UnlockingKeeps ==
    ASSUME LockInv, NEW c \in Callers, LockRefused(c) \/ Release(c) \/ UnlockedFiles(c)
    PROVE  LockInv'
  <1> USE DEF LockInv, LockRefused, Release, UnlockedFiles
  <1>1. owner' \in [Files -> Callers \cup {None}]
    BY DEF Gated, TypeOK
  <1>2. Gated'
    BY <1>1, GatesUnchanged
  <1>3. Locked'
    BY DEF Gated, TypeOK, Goto, Locked, OwnerOK, LockedOK
  <1>4. QED
    BY <1>2, <1>3

LEMMA UnlockFileKeeps ==
    ASSUME LockInv, NEW c \in Callers, UnlockFile(c)
    PROVE  LockInv'
  <1> USE DEF LockInv, UnlockFile
  <1>1. owner' \in [Files -> Callers \cup {None}]
    BY DEF Gated, TypeOK
  <1>2. Gated'
    BY <1>1 DEF Gated, TypeOK, GateOK, InsideOK, ProcessOK, UsersOK, HeldOK, OpenOK
  <1>3. Locked'
    BY DEF Gated, TypeOK, Locked, OwnerOK, LockedOK
  <1>4. QED
    BY <1>2, <1>3

LEMMA DieKeeps ==
    ASSUME LockInv, NEW p \in Processes, Die(p)
    PROVE  LockInv'
  <1> USE DEF LockInv, Gated, TypeOK, Die
  <1>1. TypeOK'
    OBVIOUS
  <1>2. \A d \in Callers : GateOK(d)' /\ InsideOK(d)'
    BY DEF GateOK, InsideOK
  <1>3. \A d, e \in Callers : ProcessOK(d, e)'
    BY DEF ProcessOK
  <1>4. \A g \in Gates : UsersOK(g)' /\ HeldOK(g)'
    BY DEF UsersOK, HeldOK
  <1>5. \A q \in Processes : OpenOK(q)'
    BY DEF OpenOK
  <1>6. Locked'
    BY DEF Locked, OwnerOK, LockedOK
  <1>7. QED
    BY <1>1, <1>2, <1>3, <1>4, <1>5, <1>6

-----------------------------------------------------------------------------
LEMMA NextLock == LockInv /\ [Next]_vars => LockInv'
  <1> SUFFICES ASSUME LockInv, [Next]_vars PROVE LockInv'
    OBVIOUS
  <1>1. ASSUME NEW c \in Callers, FindGate(c) \/ Step(c) \/ LockRefused(c)
        PROVE  LockInv'
    BY <1>1, FindGateKeeps, EnterGateKeeps, GateBusyKeeps, LockFirstKeeps, LockSecondKeeps,
       UnlockingKeeps, UnlockFileKeeps, LeaveGateKeeps, ForgetKeeps DEF Step
  <1>2. ASSUME NEW p \in Processes, Die(p) PROVE LockInv'
    BY <1>2, DieKeeps
  <1>3. CASE UNCHANGED vars
    BY <1>3 DEF vars, LockInv, Gated, Locked, TypeOK, GateOK, InsideOK, ProcessOK, UsersOK,
                HeldOK, OpenOK, OwnerOK, LockedOK
  <1>4. QED
    BY <1>1, <1>2, <1>3 DEF Next

THEOREM AlwaysLock == Spec => []LockInv
  BY InitLock, NextLock, PTL DEF Spec

\* Two callers are never inside one lock together: never in one process, whatever
\* the locations can do, and never in two that share a lock file with locks to
\* give, whatever is refused half way and whichever process dies.
THEOREM LockExcludes == Spec => []Exclusion
  <1>1. LockInv => Exclusion
    <2> SUFFICES ASSUME LockInv, NEW c \in Callers, NEW d \in Callers,
                        pc[c] = "in", pc[d] = "in", c # d
                 PROVE  ProcessOf[c] # ProcessOf[d] /\ Locks(c) \cap Locks(d) = {}
      BY DEF Exclusion
    <2>1. ProcessOf[c] # ProcessOf[d]
      BY DEF LockInv, Gated, GateOK, InsideOK
    <2>2. ASSUME NEW f \in Locks(c) \cap Locks(d) PROVE FALSE
      BY <2>2 DEF LockInv, Locked, LockedOK, Locks
    <2>3. QED
      BY <2>1, <2>2
  <1>2. QED
    BY <1>1, AlwaysLock, PTL

\* Whoever is at a gate is at the one the next caller of its process will find.
THEOREM GatesAreOne == Spec => []OneGatePerProcess
  <1>1. LockInv => OneGatePerProcess
    BY DEF LockInv, Gated, GateOK, OneGatePerProcess
  <1>2. QED
    BY <1>1, AlwaysLock, PTL

\* A lock nobody is at leaves neither a registered gate nor a taken kernel lock.
THEOREM LocksEnd == Spec => []NothingIsLeft
  <1>1. LockInv => NothingIsLeft
    BY DEF LockInv, Gated, Locked, OpenOK, OwnerOK, NothingIsLeft
  <1>2. QED
    BY <1>1, AlwaysLock, PTL
=============================================================================

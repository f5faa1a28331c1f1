------------------------------ MODULE PartsProofs ------------------------------
(***************************************************************************)
(* Four of the components that MCParts checks side by side: a title's saves *)
(* and their move to another owner, a timer task, the heap budget, and a     *)
(* record enumeration.                                                      *)
(***************************************************************************)
EXTENDS SaveOwner, MidpTimer, HeapBudget, RecordWalk, FiniteSetTheorems, SequenceTheorems, TLAPS

-----------------------------------------------------------------------------
(***************************************************************************)
(* Saves. For any generations and quick saves: a title's saves are always   *)
(* found under one of its two names, and nothing kept with them stays       *)
(* behind.                                                                  *)
(*                                                                         *)
(* The invariant of the replacement under the old name (ReplaceInv) holds   *)
(* throughout a move: folders move only once it has settled, and when the   *)
(* saves have gone nothing under the old name can begin again.              *)
(*                                                                         *)
(* The first half is the replacement alone, as an earlier build left it.   *)
(* Its record describes one of three states: the load is prepared, half     *)
(* swapped, or swapped; each step takes one of them to another, or writes   *)
(* or clears the record where that is right. The second half moves.         *)
(***************************************************************************)
\* The record is written and nothing has moved.
IsPrepared ==
    /\ next \in Generations /\ previous = None /\ displaced = None
    /\ live = latest
    /\ intent = IF latest = None THEN "fresh" ELSE "old"

\* The live folder is "previous" and nothing has taken its place.
IsHalfSwapped ==
    /\ next \in Generations /\ displaced = None
    /\ live = None /\ previous = latest /\ latest # None
    /\ intent = "old"

\* The load is complete but for its record.
IsSwapped ==
    /\ next = None
    /\ live = latest /\ latest # None
    /\ previous = displaced
    /\ intent = IF displaced = None THEN "fresh" ELSE "old"

\* Nothing to settle.
IsQuiet ==
    /\ intent = "no"
    /\ live = latest
    /\ displaced # None => previous = displaced

\* Which of them a process may be in at each of its steps.
Described ==
    /\ pc \in {"empty", "fill", "drop", "record", "clean"} => IsQuiet
    /\ pc = "drop" => next \in Generations
    /\ pc = "record" => next \in Generations /\ previous = None /\ displaced = None
    /\ pc = "away" => IsPrepared
    /\ pc = "in" => IsHalfSwapped \/ (IsPrepared /\ latest = None)
    /\ pc = "forget" => IsSwapped
    /\ pc \in {"drop", "record", "away", "in"} => next = loading
    /\ pc \in EarlierSteps => loading \in Generations
    /\ pc = "idle" => IsQuiet \/ IsPrepared \/ IsHalfSwapped \/ IsSwapped
    /\ pc = "settle" => IsPrepared \/ IsHalfSwapped \/ IsSwapped
    /\ pc = "clear" => IsPrepared \/ IsSwapped

ReplaceInv == TypeOK /\ Described /\ ~refused

-----------------------------------------------------------------------------

LEMMA InitReplaceInv == Init => ReplaceInv
  BY DEF Init, ReplaceInv, TypeOK, Folders, EarlierSteps, RecoverySteps, Described, IsQuiet

LEMMA EarlierBuildKeepsReplaceInv ==
  ASSUME ReplaceInv, EarlierBuild
  PROVE  ReplaceInv'
<1> USE GenerationsAssumption
<1> USE DEF ReplaceInv, TypeOK, Folders, EarlierSteps, RecoverySteps, Described, IsQuiet,
        IsPrepared, IsHalfSwapped, IsSwapped
<1>1. ASSUME NEW g \in Generations, BeginLoad(g) PROVE ReplaceInv'
  BY <1>1 DEF BeginLoad
<1>2. CASE EmptyStaging
  BY <1>2 DEF EmptyStaging
<1>3. CASE FillStaging
  BY <1>3 DEF FillStaging
<1>4. CASE DropPrevious
  BY <1>4 DEF DropPrevious
<1>5. CASE RecordIntent
  BY <1>5 DEF RecordIntent
<1>6. CASE MoveAway
  BY <1>6 DEF MoveAway
<1>7. CASE MoveIn
  BY <1>7 DEF MoveIn
<1>8. CASE ForgetIntent
  BY <1>8 DEF ForgetIntent
<1> QED
  BY <1>1, <1>2, <1>3, <1>4, <1>5, <1>6, <1>7, <1>8 DEF EarlierBuild

LEMMA ThisBuildKeepsReplaceInv ==
  ASSUME ReplaceInv, ThisBuild
  PROVE  ReplaceInv'
<1> USE GenerationsAssumption
<1> USE DEF ReplaceInv, TypeOK, Folders, EarlierSteps, RecoverySteps, Described, IsQuiet,
        IsPrepared, IsHalfSwapped, IsSwapped
<1>1. CASE BeginRecovery
  BY <1>1 DEF BeginRecovery
<1>2. CASE Settle
  <2> USE DEF Settled, RolledBack, HalfSwapped, Prepared, Swapped, HadOld, There
  <2>1. CASE IsHalfSwapped
    <3>1. HalfSwapped
      BY <1>2, <2>1 DEF Settle
    <3>2. live' = previous /\ previous' = None /\ Settled /\ UNCHANGED refused
      BY <1>2, <3>1 DEF Settle
    <3> QED
      BY <1>2, <2>1, <3>2 DEF Settle
  <2>2. CASE IsPrepared \/ IsSwapped
    <3>1. ~HalfSwapped /\ (Prepared \/ Swapped)
      BY <1>2, <2>2 DEF Settle
    <3>2. Settled /\ UNCHANGED <<live, previous, refused>>
      BY <1>2, <3>1 DEF Settle
    <3> QED
      BY <1>2, <2>2, <3>2 DEF Settle
  <2> QED
    BY <1>2, <2>1, <2>2 DEF Settle
<1>3. CASE ClearIntent
  BY <1>3 DEF ClearIntent, There
<1>4. CASE CleanStaging
  BY <1>4 DEF CleanStaging
<1>5. ASSUME NEW g \in Generations, Play(g) PROVE ReplaceInv'
  BY <1>5 DEF Play
<1> QED
  BY <1>1, <1>2, <1>3, <1>4, <1>5 DEF ThisBuild

LEMMA NextKeepsReplaceInv == ReplaceInv /\ [Next]_vars => ReplaceInv'
<1> SUFFICES ASSUME ReplaceInv, [Next]_vars PROVE ReplaceInv'
  OBVIOUS
<1>1. CASE Stop
  BY <1>1, GenerationsAssumption
  DEF Stop, ReplaceInv, TypeOK, Folders, EarlierSteps, RecoverySteps, Described, IsQuiet,
      IsPrepared, IsHalfSwapped, IsSwapped
<1>2. CASE UNCHANGED vars
  BY <1>2
  DEF vars, ReplaceInv, TypeOK, Folders, EarlierSteps, RecoverySteps, Described, IsQuiet,
      IsPrepared, IsHalfSwapped, IsSwapped
<1> QED
  BY <1>1, <1>2, EarlierBuildKeepsReplaceInv, ThisBuildKeepsReplaceInv DEF Next

LEMMA AlwaysReplaceInv == Spec => []ReplaceInv
  BY InitReplaceInv, NextKeepsReplaceInv, PTL DEF Spec

\* A partly filled or partly removed folder is never the live one, whatever
\* stops and is recovered how often.
THEOREM FoldersAreWhole == Spec => []TypeOK
<1>1. ReplaceInv => TypeOK
  BY DEF ReplaceInv
<1> QED
  BY <1>1, AlwaysReplaceInv, PTL

\* recoverSaveReplacement's default case is never reached from what an earlier
\* build's load, or a recovery itself, left when it stopped; and once nothing is
\* left to settle, the live folder is the generation the title goes on from.
THEOREM RecoverySettles == Spec => []RecoveryIsRight
<1>1. ReplaceInv => NeverRefused
  BY DEF ReplaceInv, NeverRefused
<1>2. ReplaceInv => LiveIsTheLatest
  BY DEF ReplaceInv, LiveIsTheLatest, Described, IsQuiet, IsPrepared, IsHalfSwapped, IsSwapped
<1>3. ReplaceInv => RecoveryIsRight
  BY <1>1, <1>2 DEF RecoveryIsRight
<1> QED
  BY <1>3, AlwaysReplaceInv, PTL

\* No step leaves the title's saves on disk under neither name.
THEOREM NothingIsLost == Spec => []LatestIsOnDisk
<1>1. ReplaceInv => LatestIsOnDisk
  BY DEF ReplaceInv, TypeOK, LatestIsOnDisk, Described, EarlierSteps, RecoverySteps, IsQuiet,
         IsPrepared, IsHalfSwapped, IsSwapped
<1> QED
  BY <1>1, AlwaysReplaceInv, PTL

\* The generation a load set aside stays until the next load drops it.
THEOREM DisplacedStays == Spec => []DisplacedIsKept
<1>1. ReplaceInv => DisplacedIsKept
  BY DEF ReplaceInv, TypeOK, DisplacedIsKept, Described, EarlierSteps, RecoverySteps, IsQuiet,
         IsPrepared, IsHalfSwapped, IsSwapped
<1> QED
  BY <1>1, AlwaysReplaceInv, PTL

-----------------------------------------------------------------------------
\* Moving to the owner's name.

\* What each place of the mover means for the old name.
MoverOK ==
    /\ mover \in {"idle", "settle", "move", "failed"}
    /\ mover # "idle" => upgraded /\ moved = None
    /\ mover = "move" => pc = "idle" /\ intent = "no" /\ live # None

\* A title that has not saved beside them reads what was moved, if anything was.
TargetOK == ~forked => target = moved

\* Once the saves have moved, nothing is left under the old name to go on with.
Gone ==
    moved # None =>
        /\ upgraded /\ pc = "idle" /\ intent = "no" /\ live = None /\ latest = None
        /\ slots \subseteq targetSlots
        /\ previous # None => targetPrevious # None

OwnerInv == ReplaceInv /\ MoverOK /\ TargetOK /\ Gone

-----------------------------------------------------------------------------

LEMMA InitOwnerInv == OwnerInit => OwnerInv
  BY InitReplaceInv DEF OwnerInit, OwnerInv, MoverOK, TargetOK, Gone

\* Steps that leave the old name's folders and their record alone.
LEMMA SameReplaceInv == ReplaceInv /\ UNCHANGED vars => ReplaceInv'
  BY NextKeepsReplaceInv

\* Until this release begins there is no move, and the old name is SaveReplace's.
LEMMA EarlierReleaseKeepsOwnerInv == OwnerInv /\ EarlierRelease => OwnerInv'
<1> SUFFICES ASSUME OwnerInv, EarlierRelease PROVE OwnerInv'
  OBVIOUS
<1>1. ReplaceInv'
  BY NextKeepsReplaceInv DEF OwnerInv, EarlierRelease
<1>2. ~upgraded /\ UNCHANGED ownerVars
  BY DEF EarlierRelease
<1>3. mover = "idle" /\ moved = None
  BY <1>2 DEF OwnerInv, MoverOK, Gone
<1> QED
  BY <1>1, <1>2, <1>3 DEF OwnerInv, MoverOK, TargetOK, Gone, ownerVars

LEMMA SettlingKeepsOwnerInv == OwnerInv /\ Settling => OwnerInv'
<1> SUFFICES ASSUME OwnerInv, Settling PROVE OwnerInv'
  OBVIOUS
<1>1. ReplaceInv'
  BY NextKeepsReplaceInv DEF OwnerInv, Settling, Next, ThisBuild
<1>2. moved = None
  BY DEF OwnerInv, Settling, Gone, BeginRecovery, Settle, ClearIntent, CleanStaging
<1>3. mover \in {"idle", "settle"} /\ UNCHANGED ownerVars
  BY DEF Settling
<1> QED
  BY <1>1, <1>2, <1>3 DEF OwnerInv, MoverOK, TargetOK, Gone, ownerVars

\* A stop takes a recovery that is under way with it.
LEMMA StopsKeepReplaceInv ==
  ASSUME ReplaceInv, pc' = "idle", loading' = None,
         UNCHANGED <<live, next, previous, intent, refused, made, latest, displaced>>
  PROVE  ReplaceInv'
  BY GenerationsAssumption
  DEF ReplaceInv, TypeOK, Folders, EarlierSteps, RecoverySteps, Described, IsQuiet,
      IsPrepared, IsHalfSwapped, IsSwapped

LEMMA StoppingKeepsOwnerInv == OwnerInv /\ (StopSettling \/ StopMove) => OwnerInv'
<1> SUFFICES ASSUME OwnerInv, StopSettling \/ StopMove PROVE OwnerInv'
  OBVIOUS
<1>1. /\ pc' = "idle" /\ loading' = None /\ mover' = "idle"
      /\ UNCHANGED <<live, next, previous, intent, refused, made, latest, displaced>>
      /\ UNCHANGED <<upgraded, slots, target, targetSlots, targetPrevious, moved, forked>>
  BY DEF StopSettling, StopMove, Stop, ownerVars
<1>2. ReplaceInv'
  BY <1>1, StopsKeepReplaceInv DEF OwnerInv
<1> QED
  BY <1>1, <1>2 DEF OwnerInv, MoverOK, TargetOK, Gone

LEMMA SlotStepsKeepOwnerInv ==
  ASSUME OwnerInv, NEW s \in Slots, TakeSlot(s) \/ MoveSlot(s) \/ TakeSlotAnyway(s)
  PROVE  OwnerInv'
<1>1. UNCHANGED <<vars, upgraded, mover, target, targetPrevious, moved, forked>>
  BY DEF TakeSlot, MoveSlot, TakeSlotAnyway
<1>2. moved = None
  BY DEF TakeSlot, MoveSlot, TakeSlotAnyway, OwnerInv, MoverOK, Gone
<1>3. ReplaceInv'
  BY <1>1, SameReplaceInv DEF OwnerInv
<1> QED
  BY <1>1, <1>2, <1>3 DEF OwnerInv, MoverOK, TargetOK, Gone, vars

\* In a move that has settled, the old name is quiet.
LEMMA MovesFromQuiet == OwnerInv /\ mover = "move" => IsQuiet
  BY DEF OwnerInv, MoverOK, ReplaceInv, Described, IsQuiet, IsPrepared, IsHalfSwapped, IsSwapped

LEMMA MovingKeepsOwnerInv ==
  ASSUME OwnerInv, BeginMove \/ SettledThere \/ MovePrevious \/ MoveSaves \/ MoveFails
  PROVE  OwnerInv'
<1>1. CASE BeginMove
  <2>1. moved = None
    BY <1>1 DEF BeginMove, EarlierSaveOwnerPresent, There, OwnerInv, Gone
  <2>2. ReplaceInv'
    BY <1>1, SameReplaceInv DEF BeginMove, OwnerInv
  <2> QED
    BY <1>1, <2>1, <2>2 DEF BeginMove, OwnerInv, MoverOK, TargetOK, Gone, vars
<1>2. CASE SettledThere
  <2>1. ~refused /\ mover' = (IF There(live) THEN "move" ELSE "idle") /\ intent = "no"
    BY <1>2 DEF SettledThere, OwnerInv, ReplaceInv
  <2>2. ReplaceInv'
    BY <1>2, SameReplaceInv DEF SettledThere, OwnerInv
  <2> QED
    BY <1>2, <2>1, <2>2 DEF SettledThere, There, OwnerInv, MoverOK, TargetOK, Gone, vars
<1>3. CASE MovePrevious
  <2>1. IsQuiet /\ pc = "idle" /\ moved = None
    BY <1>3, MovesFromQuiet DEF MovePrevious, OwnerInv, MoverOK
  <2>2. ReplaceInv'
    BY <1>3, <2>1, GenerationsAssumption
    DEF MovePrevious, OwnerInv, ReplaceInv, TypeOK, Folders, EarlierSteps, RecoverySteps, Described, IsQuiet
  <2> QED
    BY <1>3, <2>1, <2>2 DEF MovePrevious, OwnerInv, MoverOK, TargetOK, Gone
<1>4. CASE MoveSaves
  <2>1. IsQuiet /\ pc = "idle" /\ upgraded /\ live # None
    BY <1>4, MovesFromQuiet DEF MoveSaves, There, OwnerInv, MoverOK
  <2>2. ReplaceInv'
    BY <1>4, <2>1, GenerationsAssumption
    DEF MoveSaves, OwnerInv, ReplaceInv, TypeOK, Folders, EarlierSteps, RecoverySteps, Described, IsQuiet
  <2>3. slots \subseteq targetSlots /\ (previous # None => targetPrevious # None)
    BY <1>4 DEF MoveSaves, EntriesLeft, There
  <2>4. target' = moved'
    BY <1>4, <2>1 DEF MoveSaves, IsQuiet
  <2> QED
    BY <1>4, <2>1, <2>2, <2>3, <2>4 DEF MoveSaves, OwnerInv, MoverOK, TargetOK, Gone, IsQuiet
<1>5. CASE MoveFails
  <2>1. moved = None
    BY <1>5 DEF MoveFails, EarlierSaveOwnerPresent, There, OwnerInv, MoverOK, Gone
  <2>2. ReplaceInv'
    BY <1>5, SameReplaceInv DEF MoveFails, OwnerInv
  <2> QED
    BY <1>5, <2>1, <2>2 DEF MoveFails, OwnerInv, MoverOK, TargetOK, Gone, vars
<1> QED
  BY <1>1, <1>2, <1>3, <1>4, <1>5

LEMMA SaveAnywayKeepsOwnerInv ==
  ASSUME OwnerInv, NEW g \in Generations, SaveAnyway(g)
  PROVE  OwnerInv'
<1>1. ReplaceInv'
  BY GenerationsAssumption
  DEF SaveAnyway, OwnerInv, ReplaceInv, TypeOK, Folders, EarlierSteps, RecoverySteps, Described, IsQuiet,
      IsPrepared, IsHalfSwapped, IsSwapped
<1>2. moved = None
  BY DEF SaveAnyway, OwnerInv, MoverOK
<1> QED
  BY <1>1, <1>2 DEF SaveAnyway, OwnerInv, MoverOK, TargetOK, Gone

LEMMA OwnerNextKeepsOwnerInv == OwnerInv /\ [OwnerNext]_<<vars, ownerVars>> => OwnerInv'
<1> SUFFICES ASSUME OwnerInv, [OwnerNext]_<<vars, ownerVars>> PROVE OwnerInv'
  OBVIOUS
<1>1. CASE UNCHANGED <<vars, ownerVars>>
  <2>1. ReplaceInv'
    BY <1>1, SameReplaceInv DEF OwnerInv
  <2> QED
    BY <1>1, <2>1 DEF OwnerInv, MoverOK, TargetOK, Gone, vars, ownerVars
<1> QED
  BY <1>1, EarlierReleaseKeepsOwnerInv, SettlingKeepsOwnerInv, StoppingKeepsOwnerInv,
     SlotStepsKeepOwnerInv, MovingKeepsOwnerInv, SaveAnywayKeepsOwnerInv DEF OwnerNext

LEMMA OwnerInvFindsTheSaves == OwnerInv => MovesAreWhole
<1> SUFFICES ASSUME OwnerInv PROVE MovesAreWhole
  OBVIOUS
<1> USE DEF OwnerInv, There
<1>1. Recovered = latest
  BY GenerationsAssumption DEF Recovered, ReplaceInv, TypeOK, Described, EarlierSteps, RecoverySteps,
     IsQuiet, IsPrepared, IsHalfSwapped, IsSwapped
<1>2. ~EarlierSaveOwnerPresent => latest = None
  BY <1>1 DEF Recovered, EarlierSaveOwnerPresent, ReplaceInv, TypeOK
<1>3. LookFindsTheSaves
  BY <1>1, <1>2 DEF LookFindsTheSaves, SaveOwnerDirectory, TargetOK, Gone
<1>4. NothingStaysBehind
  BY DEF NothingStaysBehind, Gone
<1> QED
  BY <1>3, <1>4 DEF MovesAreWhole

\* Wherever a stopped load, its recovery or a move stops or fails, and however
\* often, MigrateSaveOwner leaves a title's saves under a name SaveOwnerDirectory
\* answers, and their quick saves and set-aside generation have gone before them.
THEOREM SavesAreFoundOnce == OwnerSpec => []MovesAreWhole
  BY InitOwnerInv, OwnerNextKeepsOwnerInv, OwnerInvFindsTheSaves, PTL DEF OwnerSpec

\* The recovery is right in a move too, whatever of it stopped.
THEOREM MovesSettle == OwnerSpec => []RecoveryIsRight
<1>1. OwnerInv => NeverRefused
  BY DEF OwnerInv, ReplaceInv, NeverRefused
<1>2. OwnerInv => LiveIsTheLatest
  BY DEF OwnerInv, ReplaceInv, LiveIsTheLatest, Described, IsQuiet, IsPrepared, IsHalfSwapped, IsSwapped
<1>3. OwnerInv => RecoveryIsRight
  BY <1>1, <1>2 DEF RecoveryIsRight
<1> QED
  BY <1>3, InitOwnerInv, OwnerNextKeepsOwnerInv, PTL DEF OwnerSpec

-----------------------------------------------------------------------------
(***************************************************************************)
(* A timer task. For any threads, timers, workers and schedules: a task has *)
(* one round of runs, and a cancel ends it after one more run at most.      *)
(*                                                                         *)
(* The queued flag is a token. Whoever marks the task takes it, a worker    *)
(* that starts keeps it for good, and only a caller whose worker did not    *)
(* start gives it back; so there is one holder at most, and the workers     *)
(* that ever ran are one.                                                   *)
(***************************************************************************)
Holds(g) == caller[g].at \in {"marked", "failed"}
Started(w) == worker[w].at \in {"asleep", "awake", "ready", "running", "done"}

\* What a step that changes a record in its place needs to know of it.
Shaped ==
    /\ DOMAIN caller = Callers /\ DOMAIN worker = Workers
    /\ \A g \in Callers : {"at", "worker"} \subseteq DOMAIN caller[g]
    /\ \A w \in Workers : {"at", "timer", "schedule", "due", "wake"} \subseteq DOMAIN worker[w]
    /\ \A g \in Callers : caller[g].at # "idle" =>
          caller[g].worker \in Workers /\ caller[g].at \in {"checked", "marked", "failed"}

\* The token has one holder.
OneHolder ==
    /\ ~queued => (\A g \in Callers : ~Holds(g)) /\ (\A w \in Workers : ~Started(w))
    /\ \A g, h \in Callers : Holds(g) /\ Holds(h) => g = h
    /\ \A v, w \in Workers : Started(v) /\ Started(w) => v = w
    /\ \A g \in Callers, w \in Workers : ~(Holds(g) /\ Started(w))

\* Once a called-off worker has begun a run, it looks before the next.
RunIsTheLast ==
    /\ runs \in {0, 1}
    /\ runs = 1 => \E w \in Workers : Started(w) /\ Called(w) /\ worker[w].at # "ready"

TimerInv == Shaped /\ OneHolder /\ RunIsTheLast

-----------------------------------------------------------------------------

LEMMA InitTimerInv == TimerInit => TimerInv
  BY DEF TimerInit, TimerInv, Shaped, OneHolder, RunIsTheLast, Holds, Started, NoCall, Unmade

LEMMA CallKeepsTimerInv ==
  ASSUME TimerInv, NEW g \in Callers,
         Schedule(g) \/ Mark(g) \/ StartWorker(g) \/ StartFails(g) \/ Unmark(g)
  PROVE  TimerInv'
<1> USE DEF TimerInv
<1>1. CASE Schedule(g)
  <2>1. PICK w \in Workers, t \in Timers, s \in Schedules :
          /\ worker[w].at = "new"
          /\ worker' = [worker EXCEPT ![w] = [@ EXCEPT !.at = "made", !.timer = t, !.schedule = s]]
          /\ caller' = [caller EXCEPT ![g] = [@ EXCEPT !.at = "checked", !.worker = w]]
          /\ UNCHANGED <<timerCancelled, taskCancelled, queued, runs>>
    BY <1>1 DEF Schedule, Goto
  <2>2. /\ \A v \in Workers : v # w => worker'[v] = worker[v]
        /\ worker'[w].at = "made"
        /\ \A h \in Callers : h # g => caller'[h] = caller[h]
        /\ caller'[g].at = "checked" /\ caller'[g].worker = w
    BY <2>1 DEF Shaped
  <2>3. Shaped'
    BY <2>1, <2>2 DEF Shaped
  <2>4. /\ \A v \in Workers : Started(v)' <=> Started(v)
        /\ \A h \in Callers : Holds(h)' => Holds(h)
    BY <2>1, <2>2 DEF Started, Holds
  <2>5. OneHolder'
    BY <2>1, <2>4 DEF OneHolder
  <2>6. \A v \in Workers : Started(v) => worker'[v] = worker[v]
    BY <2>1, <2>2 DEF Started
  <2>7. \A v \in Workers : Started(v) => (Called(v)' <=> Called(v))
    <3> SUFFICES ASSUME NEW v \in Workers, Started(v) PROVE Called(v)' <=> Called(v)
      OBVIOUS
    <3>1. worker'[v].timer = worker[v].timer
      BY <2>6
    <3>2. timerCancelled' = timerCancelled /\ taskCancelled' = taskCancelled
      BY <2>1
    <3> QED
      BY <3>1, <3>2, Zenon DEF Called
  <2>8. RunIsTheLast'
    BY <2>1, <2>4, <2>6, <2>7 DEF RunIsTheLast
  <2> QED
    BY <2>3, <2>5, <2>8
<1>2. CASE Mark(g)
  <2>1. /\ caller[g].at = "checked" /\ queued' = TRUE
        /\ UNCHANGED <<timerCancelled, taskCancelled, worker, runs>>
    BY <1>2 DEF Mark
  <2>2. RunIsTheLast'
    BY <2>1 DEF RunIsTheLast, Called, Started
  <2>3. \A h \in Callers : h # g => caller'[h] = caller[h]
    BY <1>2 DEF Mark, Goto, Shaped
  <2>4. \/ queued /\ caller'[g].at = "idle"
        \/ ~queued /\ caller'[g].at = "marked" /\ caller'[g].worker = caller[g].worker
    BY <1>2 DEF Mark, Goto, Shaped
  <2>5. Shaped'
    BY <1>2, <2>1, <2>3, <2>4 DEF Mark, Goto, Shaped
  <2>6. OneHolder'
    BY <2>1, <2>3, <2>4 DEF OneHolder, Holds, Started
  <2> QED
    BY <2>2, <2>5, <2>6
<1>3. CASE StartWorker(g)
  <2> DEFINE w == caller[g].worker
  <2>1. /\ Holds(g) /\ w \in Workers
        /\ UNCHANGED <<timerCancelled, taskCancelled, queued, runs>>
    BY <1>3 DEF StartWorker, Holds, Shaped
  <2>2. /\ \A v \in Workers : v # w => worker'[v] = worker[v]
        /\ worker'[w].at = "asleep"
        /\ \A h \in Callers : h # g => caller'[h] = caller[h]
        /\ caller'[g].at = "idle"
    BY <1>3, <2>1 DEF StartWorker, Goto, Shaped
  <2>3. Shaped'
    BY <1>3, <2>1, <2>2 DEF StartWorker, Goto, Shaped
  <2>4. queued /\ \A v \in Workers : ~Started(v)
    BY <2>1 DEF OneHolder
  <2>5. OneHolder'
    BY <2>1, <2>2, <2>4 DEF OneHolder, Holds, Started
  <2>6. runs = 0
    BY <2>4 DEF RunIsTheLast
  <2> QED
    BY <2>1, <2>3, <2>5, <2>6 DEF RunIsTheLast
<1>4. CASE StartFails(g)
  <2>1. /\ Holds(g) /\ UNCHANGED <<timerCancelled, taskCancelled, queued, worker, runs>>
    BY <1>4 DEF StartFails, Holds
  <2>2. /\ \A h \in Callers : h # g => caller'[h] = caller[h]
        /\ caller'[g].at = "failed" /\ caller'[g].worker = caller[g].worker
    BY <1>4 DEF StartFails, Goto, Shaped
  <2>3. Shaped'
    BY <1>4, <2>1, <2>2 DEF StartFails, Goto, Shaped, Holds
  <2>4. OneHolder'
    BY <2>1, <2>2 DEF OneHolder, Holds, Started
  <2> QED
    BY <2>1, <2>3, <2>4 DEF RunIsTheLast, Called, Started
<1>5. CASE Unmark(g)
  <2>1. /\ Holds(g) /\ queued' = FALSE
        /\ UNCHANGED <<timerCancelled, taskCancelled, worker, runs>>
    BY <1>5 DEF Unmark, Holds
  <2>2. /\ \A h \in Callers : h # g => caller'[h] = caller[h]
        /\ caller'[g].at = "idle"
    BY <1>5 DEF Unmark, Goto, Shaped
  <2>3. Shaped'
    BY <1>5, <2>1, <2>2 DEF Unmark, Goto, Shaped
  <2>4. OneHolder'
    BY <2>1, <2>2 DEF OneHolder, Holds, Started
  <2> QED
    BY <2>1, <2>3, <2>4 DEF RunIsTheLast, Called, Started
<1> QED
  BY <1>1, <1>2, <1>3, <1>4, <1>5

LEMMA CancelKeepsTimerInv ==
  ASSUME TimerInv, (\E t \in Timers : CancelTimer(t)) \/ CancelTask
  PROVE  TimerInv'
<1>1. /\ UNCHANGED <<queued, caller, worker, runs>>
      /\ timerCancelled \subseteq timerCancelled' /\ (taskCancelled => taskCancelled')
  BY DEF CancelTimer, CancelTask
<1>2. Shaped' /\ OneHolder'
  BY <1>1 DEF TimerInv, Shaped, OneHolder, Holds, Started
<1>3. \A w \in Workers : Called(w) => Called(w)'
  BY <1>1 DEF Called
<1>4. RunIsTheLast'
  BY <1>1, <1>3 DEF TimerInv, RunIsTheLast, Started
<1> QED
  BY <1>2, <1>4 DEF TimerInv

\* A worker's own steps change where it is and nothing else that matters here.
LEMMA WorkerKeepsHolders ==
  ASSUME TimerInv, NEW w \in Workers, Wake(w) \/ Look(w) \/ Run(w) \/ Finish(w)
  PROVE  /\ Shaped' /\ OneHolder' /\ Started(w) /\ Started(w)'
         /\ worker'[w].timer = worker[w].timer
         /\ UNCHANGED <<timerCancelled, taskCancelled, caller, queued>>
<1> USE DEF TimerInv
<1>1. /\ Started(w) /\ UNCHANGED <<timerCancelled, taskCancelled, caller, queued>>
  BY DEF Wake, Look, Run, Finish, Started
<1>2. /\ \A v \in Workers : v # w => worker'[v] = worker[v]
      /\ worker'[w].at \in {"asleep", "awake", "ready", "running", "done"}
      /\ worker'[w].timer = worker[w].timer
      /\ DOMAIN worker' = Workers /\ DOMAIN worker'[w] = DOMAIN worker[w]
  <2>1. CASE Wake(w)
    BY <2>1 DEF Wake, Shaped
  <2>2. CASE Look(w)
    BY <2>2 DEF Look, Shaped
  <2>3. CASE Run(w)
    BY <2>3 DEF Run, Shaped
  <2>4. CASE Finish(w)
    <3>1. CASE worker' = [worker EXCEPT ![w].at = "done"]
      BY <3>1 DEF Shaped
    <3>2. CASE worker' = [worker EXCEPT ![w] =
                  [@ EXCEPT !.at = "asleep", !.due = NextDue(w), !.wake = clock + Delay(w)]]
      BY <3>2 DEF Shaped
    <3> QED
      BY <2>4, <3>1, <3>2 DEF Finish
  <2> QED
    BY <2>1, <2>2, <2>3, <2>4
<1>3. Shaped'
  BY <1>1, <1>2 DEF Shaped
<1>4. \A v \in Workers : Started(v)' <=> Started(v)
  BY <1>1, <1>2 DEF Started
<1>5. OneHolder'
  BY <1>1, <1>4 DEF OneHolder, Holds
<1> QED
  BY <1>1, <1>2, <1>3, <1>4, <1>5

LEMMA WorkerKeepsTimerInv ==
  ASSUME TimerInv, NEW w \in Workers, Wake(w) \/ Look(w) \/ Run(w) \/ Finish(w)
  PROVE  TimerInv'
<1> USE DEF TimerInv
<1>1. /\ Shaped' /\ OneHolder' /\ Started(w) /\ Started(w)'
      /\ Called(w)' <=> Called(w)
  BY WorkerKeepsHolders DEF Called
<1>2. \A v \in Workers : Started(v) => v = w
  BY <1>1 DEF OneHolder
<1>3. runs = 1 => Called(w) /\ worker[w].at # "ready"
  BY <1>2 DEF RunIsTheLast
<1>4. CASE Run(w)
  <2>1. worker[w].at = "ready" /\ worker'[w].at = "running"
    BY <1>4 DEF Run, Shaped
  <2>2. runs = 0 /\ runs' = IF Called(w) THEN 1 ELSE 0
    BY <1>3, <1>4, <2>1 DEF Run, RunIsTheLast
  <2>3. RunIsTheLast'
    BY <1>1, <2>1, <2>2 DEF RunIsTheLast
  <2> QED
    BY <1>1, <2>3
<1>5. CASE Look(w)
  <2>1. runs' = runs /\ (Called(w) => worker'[w].at = "done")
    BY <1>5 DEF Look, Stopped, Called, Shaped
  <2>2. RunIsTheLast'
    BY <1>1, <1>3, <2>1 DEF RunIsTheLast
  <2> QED
    BY <1>1, <2>2
<1>6. CASE Wake(w) \/ Finish(w)
  <2>1. runs' = runs /\ worker'[w].at # "ready"
    BY <1>6 DEF Wake, Finish, Shaped
  <2>2. RunIsTheLast'
    BY <1>1, <1>3, <2>1 DEF RunIsTheLast
  <2> QED
    BY <1>1, <2>2
<1> QED
  BY <1>4, <1>5, <1>6

LEMMA NextKeepsTimerInv == TimerInv /\ [TimerNext]_timerVars => TimerInv'
<1> SUFFICES ASSUME TimerInv, [TimerNext]_timerVars PROVE TimerInv'
  OBVIOUS
<1>1. CASE Tick \/ UNCHANGED timerVars
  BY <1>1 DEF Tick, timerVars, TimerInv, Shaped, OneHolder, RunIsTheLast, Holds, Started, Called
<1> QED
  BY <1>1, CallKeepsTimerInv, CancelKeepsTimerInv, WorkerKeepsTimerInv DEF TimerNext

\* A task has one worker, however many threads schedule it at once and whichever
\* workers fail to start, and cancelling its timer or the task lets one more run
\* begin at most (startTimerThread, timerStopped).
THEOREM TaskHasOneRound == TimerSpec => []OneRoundPerTask
<1>1. TimerInv => OneRoundPerTask
  BY DEF TimerInv, OneHolder, RunIsTheLast, OneRoundPerTask, OneWorkerPerTask, AtMostOneMoreRun, Started
<1> QED
  BY <1>1, InitTimerInv, NextKeepsTimerInv, PTL DEF TimerSpec

-----------------------------------------------------------------------------
(***************************************************************************)
(* The heap budget. For any threads, sizes, weights and limit: it charges   *)
(* what there is, what goes by uncharged is bounded, and its first refusal  *)
(* in a row is true.                                                       *)
(*                                                                         *)
(* First the sums of what threads have reserved, of which only one thing is *)
(* needed: what they come to when one thread's weight is another. It takes  *)
(* induction over the number of the threads, stated of a set.               *)
(***************************************************************************)
Less == {p \in Nat \X Nat : p[1] < p[2]}


LEMMA LessWF == IsWellFoundedOn(Less, Nat)
<1>1. Less = OpToRel(<, Nat)
  BY Zenon DEF Less, OpToRel
<1> QED BY <1>1, NatLessThanWellFounded, Zenon

LEMMA SetInduction ==
    ASSUME NEW P, 0 \in P, \A n \in Nat : n \in P => n + 1 \in P
    PROVE  Nat \subseteq P
<1> DEFINE T == Nat \ P
<1>1. SUFFICES ASSUME T # {} PROVE FALSE
  OBVIOUS
<1>2. PICK n \in T : \A m \in T : ~(<<m, n>> \in Less)
  BY <1>1, LessWF, WFMin, Zenon
<1>3. n - 1 \in Nat /\ (n - 1) + 1 = n
  OBVIOUS
<1>4. n - 1 \in T
  BY <1>3
<1>5. <<n - 1, n>> \in Less
  BY <1>3 DEF Less
<1> QED BY <1>2, <1>4, <1>5

\* What the threads have reserved, if w says what each has.
Sum(w) == MapThenSumSet(LAMBDA t : w[t], Threads)

\* The first of some threads, the sum of their weights by it, and the sums of
\* all of them.
FirstOf(s) == CHOOSE x \in s : TRUE
SumBy(w, f, s) == IF s = {} THEN 0 ELSE w[FirstOf(s)] + f[s \ {FirstOf(s)}]
Sums(w, f) == f = [s \in SUBSET Threads |-> SumBy(w, f, s)]

\* What holds of some threads if it holds of every fewer of them holds of all.
LEMMA SizeInduction ==
    ASSUME NEW P, IsFiniteSet(Threads),
           \A s \in SUBSET Threads :
               (\A r \in SUBSET Threads : Cardinality(r) < Cardinality(s) => r \in P) => s \in P
    PROVE  SUBSET Threads \subseteq P
<1> DEFINE Q == {n \in Nat : \A s \in SUBSET Threads : Cardinality(s) < n => s \in P}
<1>1. \A s \in SUBSET Threads : Cardinality(s) \in Nat
  BY FS_Subset, FS_CardinalityType
<1>2. 0 \in Q
  BY <1>1
<1>3. ASSUME NEW n \in Nat, n \in Q PROVE n + 1 \in Q
  BY <1>1, <1>3
<1> HIDE DEF Q
<1>4. Nat \subseteq Q
  BY <1>2, <1>3, SetInduction
<1>5. ASSUME NEW s \in SUBSET Threads PROVE s \in P
  <2>1. Cardinality(s) + 1 \in Q /\ Cardinality(s) < Cardinality(s) + 1
    BY <1>1, <1>4
  <2> QED BY <2>1 DEF Q
<1> QED BY <1>5

LEMMA Smaller ==
    ASSUME IsFiniteSet(Threads), NEW s \in SUBSET Threads, NEW x \in s
    PROVE  /\ s \ {x} \in SUBSET Threads /\ Cardinality(s \ {x}) = Cardinality(s) - 1
           /\ Cardinality(s) \in Nat /\ Cardinality(s) # 0
BY FS_Subset, FS_CardinalityType, FS_RemoveElement, FS_EmptySet

LEMMA FirstIsOne ==
    ASSUME NEW s, s # {}
    PROVE  FirstOf(s) \in s
BY DEF FirstOf

\* There are sums: those of the sets of at most n threads, for any n.
LEMMA SumsExist ==
    ASSUME IsFiniteSet(Threads), NEW w
    PROVE  \E f : Sums(w, f)
<1> DEFINE Upto(f, n) == /\ f = [s \in SUBSET Threads |-> f[s]]
                         /\ \A s \in SUBSET Threads : Cardinality(s) <= n => f[s] = SumBy(w, f, s)
           P == {n \in Nat : \E f : Upto(f, n)}
<1>1. \A s \in SUBSET Threads : Cardinality(s) \in Nat /\ Cardinality(s) <= Cardinality(Threads)
  BY FS_Subset, FS_CardinalityType
<1>2. 0 \in P
  <2> DEFINE f == [s \in SUBSET Threads |-> 0]
  <2>1. \A s \in SUBSET Threads : Cardinality(s) <= 0 => s = {}
    BY <1>1, FS_EmptySet, FS_Subset
  <2>2. Upto(f, 0)
    BY <2>1 DEF SumBy
  <2> QED BY <2>2
<1>3. ASSUME NEW n \in Nat, n \in P PROVE n + 1 \in P
  <2>1. PICK f : Upto(f, n)
    BY <1>3
  <2> DEFINE g == [s \in SUBSET Threads |-> SumBy(w, f, s)]
  <2>2. ASSUME NEW s \in SUBSET Threads, Cardinality(s) <= n + 1 PROVE g[s] = SumBy(w, g, s)
    <3>1. CASE s = {}
      BY <3>1 DEF SumBy
    <3>2. CASE s # {}
      <4> DEFINE r == s \ {FirstOf(s)}
      <4>1. r \in SUBSET Threads /\ Cardinality(r) <= n
        BY <3>2, <2>2, <1>1, FirstIsOne, Smaller
      <4>2. g[r] = SumBy(w, f, r) /\ f[r] = SumBy(w, f, r)
        BY <4>1, <2>1
      <4>3. g[s] = SumBy(w, f, s)
        OBVIOUS
      <4> HIDE DEF g
      <4> QED BY <3>2, <4>2, <4>3 DEF SumBy
    <3> QED BY <3>1, <3>2
  <2>3. Upto(g, n + 1)
    <3>1. g = [s \in SUBSET Threads |-> g[s]]
      OBVIOUS
    <3> HIDE DEF g
    <3> QED BY <2>2, <3>1
  <2> HIDE DEF Upto
  <2> QED BY <2>3
<1> HIDE DEF P
<1>4. Cardinality(Threads) \in P
  BY <1>1, <1>2, <1>3, SetInduction, FS_CardinalityType
<1>5. PICK f : Upto(f, Cardinality(Threads))
  BY <1>4 DEF P
<1>6. f = [s \in SUBSET Threads |-> SumBy(w, f, s)]
  <2>1. \A s \in SUBSET Threads : f[s] = SumBy(w, f, s)
    BY <1>1, <1>5
  <2> QED BY <1>5, <2>1
<1> QED BY <1>6 DEF Sums

SumsOf(w, f) == IsFiniteSet(Threads) /\ w \in [Threads -> Nat] /\ Sums(w, f)

TakesOut(w, f) ==
    \A s \in SUBSET Threads : f[s] \in Nat /\ \A x \in s : f[s] = w[x] + f[s \ {x}]

\* Whichever thread is taken out of some.
LEMMA SumTakesOut ==
    ASSUME NEW w, NEW f, SumsOf(w, f)
    PROVE  TakesOut(w, f)
<1> USE DEF SumsOf, TakesOut
<1> DEFINE Good(s) == f[s] \in Nat /\ \A x \in s : f[s] = w[x] + f[s \ {x}]
           P == {s \in SUBSET Threads : Good(s)}
<1>1. \A s \in SUBSET Threads : f[s] = SumBy(w, f, s)
  <2> SUFFICES ASSUME NEW s \in SUBSET Threads PROVE f[s] = SumBy(w, f, s)
    OBVIOUS
  <2> QED BY DEF Sums
<1>2. ASSUME NEW s \in SUBSET Threads,
             \A r \in SUBSET Threads : Cardinality(r) < Cardinality(s) => r \in P
      PROVE  s \in P
  <2>1. CASE s = {}
    BY SMTT(60), <1>1, <2>1 DEF SumBy
  <2>2. CASE s # {}
    <3> DEFINE c == FirstOf(s)
               r == s \ {c}
    <3>1. c \in s /\ f[s] = w[c] + f[r]
      BY <1>1, <2>2, FirstIsOne DEF SumBy
    <3>2. r \in P
      BY <3>1, <1>2, Smaller
    <3>3. f[s] \in Nat
      BY <3>1, <3>2
    <3>4. ASSUME NEW x \in s, x # c PROVE f[s] = w[x] + f[s \ {x}]
      <4>1. s \ {x} \in P /\ x \in r /\ c \in s \ {x}
        BY <3>1, <3>4, <1>2, Smaller
      <4>2. f[r] = w[x] + f[r \ {x}] /\ f[s \ {x}] = w[c] + f[(s \ {x}) \ {c}]
        BY <3>2, <4>1
      <4>3. r \ {x} = (s \ {x}) \ {c}
        OBVIOUS
      <4>4. r \ {x} \in P
        BY <3>1, <4>1, <1>2, Smaller
      <4>5. w[x] \in Nat /\ w[c] \in Nat /\ f[r \ {x}] \in Nat
        BY <3>1, <4>4
      <4>6. f[(s \ {x}) \ {c}] = f[r \ {x}]
        BY <4>3, Zenon
      <4> HIDE DEF r, c
      <4>7. f[s] = w[c] + (w[x] + f[r \ {x}]) /\ f[s \ {x}] = w[c] + f[r \ {x}]
        BY <3>1, <4>2, <4>6
      <4> QED BY <4>5, <4>7
    <3> QED BY <3>1, <3>3, <3>4
  <2> QED BY <2>1, <2>2
<1> HIDE DEF P
<1>3. SUBSET Threads \subseteq P
  BY <1>2, SizeInduction
<1> QED BY <1>3 DEF P

\* The sum of some weights depends on no others.
LEMMA SumsAgree ==
    ASSUME IsFiniteSet(Threads), NEW v, NEW w, NEW f, NEW g, Sums(v, f), Sums(w, g),
           NEW a \in SUBSET Threads, \A x \in a : v[x] = w[x]
    PROVE  f[a] = g[a]
<1> DEFINE P == {s \in SUBSET Threads : (\A x \in s : v[x] = w[x]) => f[s] = g[s]}
<1>1. \A s \in SUBSET Threads : f[s] = SumBy(v, f, s) /\ g[s] = SumBy(w, g, s)
  <2> SUFFICES ASSUME NEW s \in SUBSET Threads PROVE f[s] = SumBy(v, f, s) /\ g[s] = SumBy(w, g, s)
    OBVIOUS
  <2> QED BY DEF Sums
<1>2. ASSUME NEW s \in SUBSET Threads,
             \A r \in SUBSET Threads : Cardinality(r) < Cardinality(s) => r \in P,
             \A x \in s : v[x] = w[x]
      PROVE  f[s] = g[s]
  <2>1. CASE s = {}
    BY <1>1, <2>1 DEF SumBy
  <2>2. CASE s # {}
    <3>1. FirstOf(s) \in s /\ s \ {FirstOf(s)} \in P
      BY <1>2, <2>2, FirstIsOne, Smaller
    <3> QED BY <1>1, <1>2, <2>2, <3>1 DEF SumBy
  <2> QED BY <2>1, <2>2
<1>3. \A s \in SUBSET Threads :
          (\A r \in SUBSET Threads : Cardinality(r) < Cardinality(s) => r \in P) => s \in P
  BY <1>2
<1> HIDE DEF P
<1>4. SUBSET Threads \subseteq P
  BY <1>3, SizeInduction
<1> QED BY <1>4 DEF P

LEMMA SumIsOne ==
    ASSUME IsFiniteSet(Threads), NEW w
    PROVE  \E f : Sums(w, f) /\ Sum(w) = f[Threads]
<1>1. Sums(w, CHOOSE f : Sums(w, f))
  BY SumsExist, Zenon
<1>2. Sum(w) = (CHOOSE f : Sums(w, f))[Threads]
  BY DEF Sum, MapThenSumSet, MapThenFoldSet, Sums, SumBy, FirstOf
<1> QED BY <1>1, <1>2

LEMMA SumOfNone ==
    ASSUME IsFiniteSet(Threads), NEW w, \A t \in Threads : w[t] = 0
    PROVE  Sum(w) = 0
<1>1. PICK f : Sums(w, f) /\ Sum(w) = f[Threads]
  BY SumIsOne
<1> DEFINE P == {s \in SUBSET Threads : f[s] = 0}
<1>2. \A s \in SUBSET Threads : f[s] = SumBy(w, f, s)
  <2> SUFFICES ASSUME NEW s \in SUBSET Threads PROVE f[s] = SumBy(w, f, s)
    OBVIOUS
  <2> QED BY <1>1 DEF Sums
<1>3. ASSUME NEW s \in SUBSET Threads,
             \A r \in SUBSET Threads : Cardinality(r) < Cardinality(s) => r \in P
      PROVE  s \in P
  <2>1. CASE s = {}
    BY <1>2, <2>1 DEF SumBy
  <2>2. CASE s # {}
    <3>1. FirstOf(s) \in s /\ s \ {FirstOf(s)} \in P
      BY <1>3, <2>2, FirstIsOne, Smaller
    <3> QED BY <1>2, <2>2, <3>1 DEF SumBy
  <2> QED BY <2>1, <2>2
<1> HIDE DEF P
<1>4. SUBSET Threads \subseteq P
  BY <1>3, SizeInduction
<1> QED BY <1>1, <1>4 DEF P

\* What the weights come to when one is another.
LEMMA SumChanges ==
    ASSUME IsFiniteSet(Threads), NEW v \in [Threads -> Nat], NEW w \in [Threads -> Nat], NEW t \in Threads,
           \A x \in Threads \ {t} : v[x] = w[x]
    PROVE  /\ Sum(w) \in Nat /\ w[t] <= Sum(w)
           /\ Sum(v) = Sum(w) - w[t] + v[t]
<1>1. PICK f : Sums(w, f) /\ Sum(w) = f[Threads]
  BY SumIsOne
<1>2. PICK g : Sums(v, g) /\ Sum(v) = g[Threads]
  BY SumIsOne
<1> DEFINE r == Threads \ {t}
<1>3. r \in SUBSET Threads /\ g[r] = f[r]
  BY <1>1, <1>2, SumsAgree
<1>4. f[Threads] = w[t] + f[r] /\ f[r] \in Nat /\ f[Threads] \in Nat
  <2>1. \A s \in SUBSET Threads : f[s] \in Nat /\ \A x \in s : f[s] = w[x] + f[s \ {x}]
    <3>1. SumsOf(w, f)
      BY <1>1 DEF SumsOf
    <3>2. TakesOut(w, f)
      BY <3>1, SumTakesOut
    <3> QED BY <3>2 DEF TakesOut
  <2> QED BY <1>3, <2>1
<1>5. g[Threads] = v[t] + g[r]
  <2>1. \A s \in SUBSET Threads : g[s] \in Nat /\ \A x \in s : g[s] = v[x] + g[s \ {x}]
    <3>1. SumsOf(v, g)
      BY <1>2 DEF SumsOf
    <3>2. TakesOut(v, g)
      BY <3>1, SumTakesOut
    <3> QED BY <3>2 DEF TakesOut
  <2> QED BY <2>1
<1> HIDE DEF r
<1>6. w[t] \in Nat /\ v[t] \in Nat
  OBVIOUS
<1> QED BY <1>1, <1>2, <1>3, <1>4, <1>5, <1>6

-----------------------------------------------------------------------------
(***************************************************************************)
(* The invariant.                                                          *)
(***************************************************************************)
Most == Max(Small)

LEMMA MostIsMost ==
    ASSUME HeapBudgetAssumption
    PROVE  Most \in Small /\ Most \in Nat /\ \A bytes \in Small : bytes <= Most
BY DEF HeapBudgetAssumption, Most, Max

\* Only what a thread has reserved weighs anything.
Weighing == \A t \in Threads :
    /\ weight[t] # 0 => stage[t] = "reserved"
    /\ stage[t] = "sampling" => size[t] \in Sizes

\* The threads that may be overtaken at the sampling point.
Late == {t \in Threads : stage[t] = "sampling" /\ size[t] \in Small}

\* Before the point, what has gone by is within what was drawn and what those
\* who are late yet may not add.
Distance ==
    IF countdown = 0 THEN UnchargedIsBounded
    ELSE free + countdown + Cardinality(Late) * Most <= drawn + (Cardinality(Threads) - 1) * Most

BudgetInv == HeapTypeOK /\ ChargeIsExact /\ Weighing /\ Distance

LEMMA BudgetTypes ==
    ASSUME HeapBudgetAssumption, BudgetInv
    PROVE  /\ countdown \in Nat /\ charged \in Nat /\ pending \in Nat /\ inUse \in Nat /\ dead \in Nat
           /\ found \in Nat /\ refusedInRow \in Nat /\ drawn \in Nat /\ free \in Nat
           /\ cycle \in BOOLEAN /\ weight \in [Threads -> Nat]
           /\ \A t \in Threads : refuse[t] \in BOOLEAN /\ weight[t] \in Nat /\ weight[t] <= pending
           /\ \A b \in Sizes : WeightOf(b) \in Nat
           /\ pending = Sum(weight) /\ charged = pending + inUse + dead + found
           /\ Sizes \subseteq Nat /\ Limit \in Nat
<1>1. \A b \in Sizes : WeightOf(b) \in Nat
  BY DEF HeapBudgetAssumption, WeightOf, Sizes
<1>2. weight \in [Threads -> Nat]
  BY <1>1 DEF BudgetInv, HeapTypeOK
<1>3. pending = Sum(weight)
  BY DEF BudgetInv, ChargeIsExact, Sum
<1>4. \A t \in Threads : weight[t] \in Nat /\ weight[t] <= pending
  <2> SUFFICES ASSUME NEW t \in Threads PROVE weight[t] \in Nat /\ weight[t] <= pending
    OBVIOUS
  <2> QED BY <1>2, <1>3, SumChanges DEF HeapBudgetAssumption
<1> QED BY <1>1, <1>2, <1>3, <1>4 DEF BudgetInv, HeapTypeOK, ChargeIsExact, Sizes, HeapBudgetAssumption

\* The distance when nothing but the charge changes.
LEMMA DistanceKept ==
    ASSUME Distance, UNCHANGED <<countdown, drawn, free>>,
           countdown # 0 => Late' = Late
    PROVE  Distance'
BY DEF Distance, UnchargedIsBounded

LEMMA LateCounts ==
    ASSUME HeapBudgetAssumption
    PROVE  /\ IsFiniteSet(Late) /\ Cardinality(Late) \in Nat /\ Cardinality(Threads) \in Nat \ {0}
           /\ Cardinality(Late) <= Cardinality(Threads)
BY FS_Subset, FS_CardinalityType, FS_EmptySet DEF HeapBudgetAssumption, Late

LEMMA InitBudgetInv ==
    ASSUME HeapBudgetAssumption, HeapInit
    PROVE  BudgetInv
<1>1. weight \in [Threads -> Nat] /\ \A t \in Threads : weight[t] = 0
  BY DEF HeapInit
<1>2. Sum(weight) = 0
  BY <1>1, SumOfNone DEF HeapBudgetAssumption
<1>3. Late = {}
  BY DEF HeapInit, Late
<1>4. Distance
  <2>1. Cardinality(Late) = 0 /\ Cardinality(Threads) - 1 \in Nat
    BY <1>3, LateCounts, FS_EmptySet
  <2>2. Cardinality(Late) * Most = 0 /\ (Cardinality(Threads) - 1) * Most \in Nat
    BY <2>1, MostIsMost
  <2> QED BY <2>1, <2>2 DEF HeapInit, Distance, HeapBudgetAssumption
<1>5. HeapTypeOK
  <2>1. cycle \in BOOLEAN /\ refuse \in [Threads -> BOOLEAN]
    BY DEF HeapInit
  <2>2. /\ countdown \in Nat /\ drawn \in Nat
        /\ {countdown, charged, pending, inUse, dead, found, refusedInRow, drawn, free} \subseteq Nat
    BY DEF HeapInit, HeapBudgetAssumption
  <2>3. /\ stage \in [Threads -> {"idle", "sampling", "reserved"}]
        /\ size \in [Threads -> Sizes \cup {0}]
        /\ weight \in [Threads -> {WeightOf(b) : b \in Sizes} \cup {0}]
    BY DEF HeapInit
  <2> QED BY <2>1, <2>2, <2>3 DEF HeapTypeOK
<1> QED BY <1>2, <1>4, <1>5 DEF BudgetInv, ChargeIsExact, Weighing, HeapInit, Sum

\* What a thread's place, and the charge, have to be.
Places ==
    /\ stage \in [Threads -> {"idle", "sampling", "reserved"}]
    /\ size \in [Threads -> Sizes \cup {0}] /\ refuse \in [Threads -> BOOLEAN]
    /\ weight \in [Threads -> {WeightOf(b) : b \in Sizes} \cup {0}]
    /\ Weighing

Charges ==
    /\ charged \in Nat /\ pending \in Nat /\ inUse \in Nat /\ dead \in Nat /\ found \in Nat
    /\ refusedInRow \in Nat /\ cycle \in BOOLEAN
    /\ charged = pending + inUse + dead + found

Distances == countdown \in Nat /\ drawn \in Nat /\ free \in Nat /\ Distance

LEMMA BudgetParts ==
    BudgetInv <=> Places /\ Charges /\ Distances /\ pending = Sum(weight)
BY DEF BudgetInv, HeapTypeOK, ChargeIsExact, Places, Charges, Distances, Sum

LEMMA BudgetPartsLater ==
    BudgetInv' <=> Places' /\ Charges' /\ Distances' /\ pending' = Sum(weight)'
BY DEF BudgetInv, HeapTypeOK, ChargeIsExact, Places, Charges, Distances, Sum

LEMMA SumLater == Sum(weight)' = Sum(weight')
BY DEF Sum, MapThenSumSet, MapThenFoldSet

LEMMA WeightsAreNumbers ==
    ASSUME HeapBudgetAssumption
    PROVE  /\ \A b \in Sizes : b \in Nat /\ WeightOf(b) \in Nat
           /\ \A f \in [Threads -> {WeightOf(b) : b \in Sizes} \cup {0}] : f \in [Threads -> Nat]
<1>1. \A b \in Sizes : b \in Nat /\ WeightOf(b) \in Nat
  BY DEF HeapBudgetAssumption, WeightOf, Sizes
<1> QED BY <1>1

\* What is reserved when one thread's weight is another.
LEMMA ReservedChanges ==
    ASSUME HeapBudgetAssumption, Places, Places', pending = Sum(weight), NEW t \in Threads,
           \A x \in Threads \ {t} : weight'[x] = weight[x],
           pending' = pending - weight[t] + weight'[t]
    PROVE  pending' = Sum(weight)'
<1>1. weight \in [Threads -> Nat] /\ weight' \in [Threads -> Nat]
  BY WeightsAreNumbers DEF Places
<1>2. Sum(weight)' = Sum(weight')
  BY SumLater
<1>3. Sum(weight') = Sum(weight) - weight[t] + weight'[t]
  BY <1>1, SumChanges DEF HeapBudgetAssumption
<1> QED BY <1>2, <1>3

LEMMA EndKeeps ==
    ASSUME HeapBudgetAssumption, Places, NEW t \in Threads, End(t)
    PROVE  /\ Places' /\ Late' = Late \ {t}
           /\ weight'[t] = 0 /\ \A x \in Threads \ {t} : weight'[x] = weight[x]
<1>1. /\ stage' = [stage EXCEPT ![t] = "idle"] /\ size' = [size EXCEPT ![t] = 0]
      /\ refuse' = [refuse EXCEPT ![t] = FALSE] /\ weight' = [weight EXCEPT ![t] = 0]
  BY DEF End
<1>2. /\ stage' \in [Threads -> {"idle", "sampling", "reserved"}]
      /\ size' \in [Threads -> Sizes \cup {0}] /\ refuse' \in [Threads -> BOOLEAN]
      /\ weight' \in [Threads -> {WeightOf(b) : b \in Sizes} \cup {0}]
  BY <1>1 DEF Places
<1>3. stage'[t] = "idle" /\ weight'[t] = 0 /\ \A x \in Threads \ {t} : weight'[x] = weight[x] /\ stage'[x] = stage[x] /\ size'[x] = size[x]
  BY <1>1 DEF Places
<1>4. Weighing'
  BY <1>3 DEF Places, Weighing
<1>5. Late' = Late \ {t}
  BY <1>3 DEF Late
<1> QED BY <1>2, <1>3, <1>4, <1>5 DEF Places

LEMMA UnchargedKeeps ==
    ASSUME HeapBudgetAssumption, BudgetInv, NEW t \in Threads, NEW bytes \in Sizes, Uncharged(t, bytes)
    PROVE  BudgetInv'
<1>1. Places /\ Charges /\ Distances /\ pending = Sum(weight)
  BY BudgetParts
<1>2. Places' /\ Late' = Late /\ Sum(weight)' = Sum(weight)
  BY <1>1, SumLater DEF Uncharged, allocations, Places, Weighing, Late
<1>3. Charges'
  BY <1>1 DEF Uncharged, Charges, samples
<1>4. Distances'
  <2>1. /\ countdown \in Nat /\ bytes \in Nat /\ countdown > bytes
        /\ countdown' = countdown - bytes /\ free' = free + bytes /\ drawn' = drawn
        /\ drawn \in Nat /\ free \in Nat /\ Distance
    BY <1>1, WeightsAreNumbers DEF Uncharged, Distances
  <2> QED BY <1>2, <2>1 DEF Distances, Distance
<1> QED BY <1>1, <1>2, <1>3, <1>4, BudgetPartsLater DEF Uncharged

LEMMA ReachKeeps ==
    ASSUME HeapBudgetAssumption, BudgetInv, NEW t \in Threads, NEW bytes \in Sizes, NEW may \in BOOLEAN,
           Reach(t, bytes, may)
    PROVE  BudgetInv'
<1>1. Places /\ Charges /\ Distances /\ pending = Sum(weight)
  BY BudgetParts
<1>2. /\ stage[t] = "idle" /\ stage' = [stage EXCEPT ![t] = "sampling"]
      /\ size' = [size EXCEPT ![t] = bytes] /\ refuse' = [refuse EXCEPT ![t] = may] /\ weight' = weight
  BY DEF Reach, Begin
<1>3. Places'
  <2>1. /\ stage' \in [Threads -> {"idle", "sampling", "reserved"}]
        /\ size' \in [Threads -> Sizes \cup {0}] /\ refuse' \in [Threads -> BOOLEAN]
        /\ weight' \in [Threads -> {WeightOf(b) : b \in Sizes} \cup {0}]
    BY <1>1, <1>2 DEF Places
  <2>2. Weighing'
    BY <1>1, <1>2 DEF Places, Weighing
  <2> QED BY <2>1, <2>2 DEF Places
<1>4. Sum(weight)' = Sum(weight) /\ Charges'
  BY <1>1, <1>2, SumLater DEF Reach, Charges, samples
<1>5. Distances'
  <2>1. CASE bytes \in Large
    <3>1. Late' = Late
      BY <1>1, <1>2, <2>1 DEF Places, Late, HeapBudgetAssumption
    <3> QED BY <1>1, <2>1, <3>1, DistanceKept DEF Reach, Distances, HeapBudgetAssumption
  <2>2. CASE bytes \in Small
    <3>1. countdown' = 0 /\ drawn' = drawn /\ free' = free
      BY <2>2 DEF Reach, HeapBudgetAssumption
    <3>2. UnchargedIsBounded
      <4>1. Cardinality(Late) * Most >= 0
        BY LateCounts, MostIsMost
      <4>2. Cardinality(Late) * Most \in Nat /\ (Cardinality(Threads) - 1) * Most \in Nat
        BY LateCounts, MostIsMost
      <4> QED BY <1>1, <4>1, <4>2 DEF Distances, Distance, UnchargedIsBounded, Most
    <3> QED BY <1>1, <3>1, <3>2 DEF Distances, Distance, UnchargedIsBounded
  <2> QED BY <2>1, <2>2 DEF Sizes
<1> QED BY <1>1, <1>3, <1>4, <1>5, BudgetPartsLater DEF Reach

LEMMA OvertakenKeeps ==
    ASSUME HeapBudgetAssumption, BudgetInv, NEW t \in Threads, Overtaken(t)
    PROVE  BudgetInv'
<1>1. Places /\ Charges /\ Distances /\ pending = Sum(weight)
  BY BudgetParts
<1>2. /\ Places' /\ Late' = Late \ {t}
      /\ weight'[t] = 0 /\ \A x \in Threads \ {t} : weight'[x] = weight[x]
  BY <1>1, EndKeeps DEF Overtaken
<1>3. t \in Late /\ size[t] \in Small /\ weight[t] = 0 /\ countdown # 0
  BY <1>1, WeightsAreNumbers DEF Overtaken, Spent, Places, Weighing, Late, Sizes
<1>4. pending' = Sum(weight)'
  <2>1. pending' = pending - weight[t] + weight'[t]
    BY <1>1, <1>2, <1>3 DEF Overtaken, Charges
  <2> QED BY <1>1, <1>2, <2>1, ReservedChanges
<1>5. Charges'
  BY <1>1 DEF Overtaken, Charges, samples
<1>6. Distances'
  <2> DEFINE n == Cardinality(Late)
             room == (Cardinality(Threads) - 1) * Most
  <2>1. Cardinality(Late') = n - 1 /\ n \in Nat \ {0}
    BY <1>2, <1>3, LateCounts, FS_RemoveElement, FS_EmptySet
  <2>2. size[t] \in Nat /\ size[t] <= Most /\ Most \in Nat
    BY <1>3, MostIsMost DEF HeapBudgetAssumption
  <2>3. (n - 1) * Most = n * Most - Most /\ n * Most \in Nat /\ room \in Int
    BY <2>1, <2>2, LateCounts
  <2>4. free + countdown + n * Most <= drawn + room
    BY <1>1, <1>3 DEF Distances, Distance
  <2>5. /\ countdown' = countdown /\ drawn' = drawn /\ free' = free + size[t]
        /\ countdown \in Nat /\ drawn \in Nat /\ free \in Nat
    BY <1>1 DEF Overtaken, Distances
  <2>6. free' + countdown' + Cardinality(Late') * Most <= drawn' + room
    <3> HIDE DEF n, room
    <3> QED BY <2>1, <2>2, <2>3, <2>4, <2>5
  <2> QED BY <1>3, <2>2, <2>5, <2>6 DEF Distances, Distance
<1> QED BY <1>2, <1>4, <1>5, <1>6, BudgetPartsLater

\* A collection leaves the charge right.
LEMMA CollectKeeps ==
    ASSUME HeapBudgetAssumption, Charges, NEW w \in Nat, NEW left, NEW fits \in BOOLEAN, Collect(w, left, fits)
    PROVE  /\ left \in Nat /\ inUse' = inUse /\ dead' \in Nat /\ found' \in Nat /\ cycle' \in BOOLEAN
           /\ left = pending + inUse + dead' + found'
           /\ left <= charged
<1>1. \/ left = charged /\ UNCHANGED samples
      \/ left = Compacted /\ UNCHANGED <<inUse, dead>> /\ Looked
      \/ left = Collected /\ dead' = 0 /\ Looked /\ UNCHANGED inUse
  BY Zenon DEF Collect, samples
<1>2. CASE left = charged /\ UNCHANGED samples
  BY <1>2 DEF Charges, samples
<1> SUFFICES ASSUME Looked PROVE
        (\/ left = Compacted /\ UNCHANGED <<inUse, dead>>
         \/ left = Collected /\ dead' = 0 /\ UNCHANGED inUse) =>
            /\ left \in Nat /\ inUse' = inUse /\ dead' \in Nat /\ found' \in Nat /\ cycle' \in BOOLEAN
            /\ left = pending + inUse + dead' + found'
            /\ left <= charged
  BY <1>1, <1>2, Zenon
<1>3. found' = 0 /\ cycle' \in BOOLEAN
  BY Zenon DEF Looked
<1> QED BY <1>3 DEF Charges, Compacted, Collected

LEMMA ReserveKeeps ==
    ASSUME HeapBudgetAssumption, BudgetInv, NEW t \in Threads, NEW w, NEW before \in Nat,
           w = WeightOf(size[t]), stage[t] = "sampling", Spent(t), Reserve(t, w, before),
           inUse' \in Nat, dead' \in Nat, found' \in Nat, cycle' \in BOOLEAN, refusedInRow' \in Nat,
           before = pending + inUse' + dead' + found'
    PROVE  BudgetInv'
<1>1. Places /\ Charges /\ Distances /\ pending = Sum(weight)
  BY BudgetParts
<1>2. /\ stage' = [stage EXCEPT ![t] = "reserved"] /\ weight' = [weight EXCEPT ![t] = w]
      /\ size' = size /\ refuse' = refuse /\ charged' = before + w /\ pending' = pending + w
  BY DEF Reserve
<1>3. size[t] \in Sizes /\ w \in Nat /\ weight[t] = 0
  BY <1>1, WeightsAreNumbers DEF Places, Weighing
<1>4. Places'
  <2>1. /\ stage' \in [Threads -> {"idle", "sampling", "reserved"}]
        /\ size' \in [Threads -> Sizes \cup {0}] /\ refuse' \in [Threads -> BOOLEAN]
        /\ weight' \in [Threads -> {WeightOf(b) : b \in Sizes} \cup {0}]
    BY <1>1, <1>2, <1>3 DEF Places
  <2>2. Weighing'
    BY <1>1, <1>2 DEF Places, Weighing
  <2> QED BY <2>1, <2>2 DEF Places
<1>5. pending' = Sum(weight)'
  <2>1. weight'[t] = w /\ \A x \in Threads \ {t} : weight'[x] = weight[x]
    BY <1>1, <1>2 DEF Places
  <2>2. pending' = pending - weight[t] + weight'[t]
    BY <1>1, <1>2, <1>3, <2>1 DEF Charges
  <2> QED BY <1>1, <1>4, <2>1, <2>2, ReservedChanges
<1>6. Charges'
  BY <1>1, <1>2, <1>3 DEF Charges
<1>7. Late' = Late \ {t}
  BY <1>1, <1>2 DEF Places, Late
<1>8. Distances'
  <2>1. CASE size[t] \in Small /\ charged' <= Limit
    <3>1. countdown' \in 1 .. MaxDraw /\ drawn' = countdown' /\ free' = 0
      BY <2>1 DEF Reserve
    <3>2. countdown' \in Nat /\ countdown' # 0
      BY <3>1 DEF HeapBudgetAssumption
    <3>3. t \in Threads \ Late'
      BY <1>7
    <3>4. Cardinality(Late') <= Cardinality(Threads) - 1 /\ Cardinality(Late') \in Nat
      <4>1. Late' \in SUBSET (Threads \ {t})
        BY <1>7 DEF Late
      <4>2. IsFiniteSet(Threads \ {t}) /\ Cardinality(Threads \ {t}) = Cardinality(Threads) - 1
        BY FS_RemoveElement DEF HeapBudgetAssumption
      <4> QED BY <4>1, <4>2, FS_Subset, FS_CardinalityType
    <3>5. Cardinality(Late') * Most <= (Cardinality(Threads) - 1) * Most
      <4>1. \A m, n, k \in Nat : m <= n => m * k <= n * k
        OBVIOUS
      <4> DEFINE m == Cardinality(Late')
                 n == Cardinality(Threads) - 1
      <4>2. m \in Nat /\ n \in Nat /\ Most \in Nat /\ m <= n
        BY <3>4, LateCounts, MostIsMost
      <4> HIDE DEF m, n
      <4>3. m * Most <= n * Most
        BY <4>1, <4>2
      <4> QED BY <4>3 DEF m, n
    <3>6. Cardinality(Late') * Most \in Int /\ (Cardinality(Threads) - 1) * Most \in Int
      <4>1. \A i, k \in Int : i * k \in Int
        OBVIOUS
      <4> DEFINE m == Cardinality(Late')
                 n == Cardinality(Threads) - 1
      <4>2. m \in Int /\ n \in Int /\ Most \in Int
        BY <3>4, LateCounts, MostIsMost
      <4> HIDE DEF m, n
      <4>3. m * Most \in Int /\ n * Most \in Int
        BY <4>1, <4>2
      <4> QED BY <4>3 DEF m, n
    <3>7. free' + countdown' + Cardinality(Late') * Most <= drawn' + (Cardinality(Threads) - 1) * Most
      BY <3>1, <3>2, <3>5, <3>6
    <3> QED BY <3>1, <3>2, <3>7 DEF Distances, Distance
  <2>2. CASE ~(size[t] \in Small /\ charged' <= Limit)
    <3>1. UNCHANGED <<countdown, drawn, free>>
      BY <2>2 DEF Reserve
    <3>2. countdown # 0 => Late' = Late
      <4>1. SUFFICES ASSUME countdown # 0 PROVE t \notin Late
        BY <1>7
      <4> QED BY <4>1 DEF Spent, Late, HeapBudgetAssumption
    <3> QED BY <1>1, <3>1, <3>2, DistanceKept DEF Distances
  <2> QED BY <2>1, <2>2
<1> QED BY <1>4, <1>5, <1>6, <1>8, BudgetPartsLater

LEMMA AdmitKeeps ==
    ASSUME HeapBudgetAssumption, BudgetInv, NEW t \in Threads, Admit(t)
    PROVE  BudgetInv'
<1> DEFINE w == WeightOf(size[t])
<1>1. Places /\ Charges
  BY BudgetParts
<1>2. stage[t] = "sampling" /\ Spent(t) /\ w \in Nat
  BY <1>1, WeightsAreNumbers DEF Admit, Places, Weighing
<1>3. PICK left \in Nat :
          /\ Reserve(t, w, left) /\ inUse' = inUse /\ dead' \in Nat /\ found' \in Nat /\ cycle' \in BOOLEAN
          /\ refusedInRow' \in Nat /\ left = pending + inUse + dead' + found'
  <2>1. CASE ~refuse[t] /\ Reserve(t, w, charged) /\ UNCHANGED <<samples, refusedInRow>>
    BY <1>1, <2>1 DEF Charges, samples
  <2>2. CASE refusedInRow' = 0 /\ charged + w <= Limit /\ Reserve(t, w, charged) /\ UNCHANGED samples
    BY <1>1, <2>2 DEF Charges, samples
  <2>3. ASSUME refusedInRow' = 0, NEW left \in {charged, Compacted, Collected},
               Collect(w, left, TRUE) /\ Reserve(t, w, left)
        PROVE  left \in Nat /\ Reserve(t, w, left) /\ inUse' = inUse /\ dead' \in Nat /\ found' \in Nat
               /\ cycle' \in BOOLEAN /\ refusedInRow' \in Nat /\ left = pending + inUse + dead' + found'
    BY <1>1, <1>2, <2>3, CollectKeeps
  <2> QED BY <2>1, <2>2, <2>3 DEF Admit
<1> HIDE DEF w
<1>4. inUse' \in Nat
  BY <1>1, <1>3 DEF Charges
<1> QED BY <1>2, <1>3, <1>4, ReserveKeeps DEF w

LEMMA RefuseKeeps ==
    ASSUME HeapBudgetAssumption, BudgetInv, NEW t \in Threads, Refuse(t)
    PROVE  BudgetInv'
<1>1. Places /\ Charges /\ Distances /\ pending = Sum(weight)
  BY BudgetParts
<1>2. /\ Places' /\ Late' = Late \ {t}
      /\ weight'[t] = 0 /\ \A x \in Threads \ {t} : weight'[x] = weight[x]
  BY <1>1, EndKeeps DEF Refuse
<1>3. stage[t] = "sampling" /\ weight[t] = 0 /\ WeightOf(size[t]) \in Nat
  BY <1>1, WeightsAreNumbers DEF Refuse, Places, Weighing
<1>4. pending' = Sum(weight)'
  <2>1. pending' = pending - weight[t] + weight'[t]
    BY <1>1, <1>2, <1>3 DEF Refuse, Charges
  <2> QED BY <1>1, <1>2, <2>1, ReservedChanges
<1>5. Charges'
  <2>1. PICK left \in {charged, Compacted, Collected} : Collect(WeightOf(size[t]), left, FALSE) /\ charged' = left
    BY DEF Refuse
  <2>2. /\ left \in Nat /\ inUse' = inUse /\ dead' \in Nat /\ found' \in Nat /\ cycle' \in BOOLEAN
        /\ left = pending + inUse + dead' + found'
    BY <1>1, <1>3, <2>1, CollectKeeps
  <2>3. pending' = pending /\ refusedInRow' = refusedInRow + 1
    BY DEF Refuse
  <2> QED BY <1>1, <2>1, <2>2, <2>3 DEF Charges
<1>6. Distances'
  <2>1. countdown # 0 => Late' = Late
    BY <1>2 DEF Refuse, Spent, Late, HeapBudgetAssumption
  <2> QED BY <1>1, <2>1, DistanceKept DEF Refuse, Distances
<1> QED BY <1>2, <1>4, <1>5, <1>6, BudgetPartsLater

LEMMA RecordKeeps ==
    ASSUME HeapBudgetAssumption, BudgetInv, NEW t \in Threads, Record(t)
    PROVE  BudgetInv'
<1>1. Places /\ Charges /\ Distances /\ pending = Sum(weight)
  BY BudgetParts
<1>2. /\ Places' /\ Late' = Late \ {t}
      /\ weight'[t] = 0 /\ \A x \in Threads \ {t} : weight'[x] = weight[x]
  BY <1>1, EndKeeps DEF Record
<1>3. weight[t] \in Nat /\ weight[t] <= pending
  BY BudgetTypes
<1>4. pending' = Sum(weight)'
  <2>1. pending' = pending - weight[t] + weight'[t]
    BY <1>1, <1>2, <1>3 DEF Record, Charges
  <2> QED BY <1>1, <1>2, <2>1, ReservedChanges
<1>5. Charges'
  <2>1. /\ pending' = pending - weight[t] /\ inUse' = inUse + weight[t] /\ dead' = dead
        /\ refusedInRow' = refusedInRow
    BY DEF Record
  <2>2. CASE UNCHANGED <<charged, found, cycle>>
    BY <1>1, <1>3, <2>1, <2>2 DEF Charges
  <2>3. CASE charged' = pending' + inUse' + dead /\ Looked
    <3>1. found' = 0 /\ cycle' \in BOOLEAN
      BY <2>3, Zenon DEF Looked
    <3> QED BY <1>1, <1>3, <2>1, <2>3, <3>1 DEF Charges
  <2> QED BY <2>2, <2>3 DEF Record
<1>6. Distances'
  <2>1. Late' = Late
    BY <1>2 DEF Record, Late
  <2> QED BY <1>1, <2>1, DistanceKept DEF Record, Distances
<1> QED BY <1>2, <1>4, <1>5, <1>6, BudgetPartsLater

LEMMA DyingKeeps ==
    ASSUME HeapBudgetAssumption, BudgetInv, LetGo \/ GoCollects \/ UNCHANGED heapVars
    PROVE  BudgetInv'
<1>1. Places /\ Charges /\ Distances /\ pending = Sum(weight)
  BY BudgetParts
<1>2. UNCHANGED <<countdown, charged, pending, refusedInRow, stage, size, refuse, weight, drawn, free>>
  BY DEF LetGo, GoCollects, heapVars, allocations
<1>3. Charges'
  <2>1. CASE LetGo
    BY <1>1, <1>2, <2>1 DEF LetGo, Charges
  <2>2. CASE GoCollects
    BY <1>1, <1>2, <2>2 DEF GoCollects, Charges
  <2>3. CASE UNCHANGED heapVars
    BY <1>1, <2>3 DEF heapVars, samples, Charges
  <2> QED BY <2>1, <2>2, <2>3
<1>4. Places' /\ Late' = Late /\ pending' = Sum(weight)'
  BY <1>1, <1>2, SumLater DEF Places, Weighing, Late
<1>5. Distances'
  BY <1>1, <1>2, <1>4, DistanceKept DEF Distances
<1> QED BY <1>3, <1>4, <1>5, BudgetPartsLater

LEMMA NextKeepsBudgetInv ==
    ASSUME HeapBudgetAssumption, BudgetInv, [HeapNext]_heapVars
    PROVE  BudgetInv'
<1>1. ASSUME NEW t \in Threads, NEW bytes \in Sizes, NEW may \in BOOLEAN,
             Uncharged(t, bytes) \/ Reach(t, bytes, may)
      PROVE  BudgetInv'
  BY <1>1, UnchargedKeeps, ReachKeeps
<1>2. ASSUME NEW t \in Threads, Overtaken(t) \/ Admit(t) \/ Refuse(t) \/ Record(t)
      PROVE  BudgetInv'
  BY <1>2, OvertakenKeeps, AdmitKeeps, RefuseKeeps, RecordKeeps
<1>3. CASE LetGo \/ GoCollects \/ UNCHANGED heapVars
  BY <1>3, DyingKeeps
<1> QED BY <1>1, <1>2, <1>3 DEF HeapNext

LEMMA BudgetInvKeepsBudget == HeapBudgetAssumption /\ BudgetInv => BudgetIsKept
<1> SUFFICES ASSUME HeapBudgetAssumption, BudgetInv PROVE UnchargedIsBounded
  BY DEF BudgetIsKept, BudgetInv
<1>1. CASE countdown = 0
  BY <1>1 DEF BudgetInv, Distance
<1>2. CASE countdown # 0
  <2>1. Cardinality(Late) * Most \in Nat /\ (Cardinality(Threads) - 1) * Most \in Nat
    BY LateCounts, MostIsMost
  <2> QED BY <1>2, <2>1, BudgetTypes DEF BudgetInv, Distance, UnchargedIsBounded, Most
<1> QED BY <1>1, <1>2

\* What a refusal by the first of a row shows.
LEMMA RefusesTruly ==
    ASSUME HeapBudgetAssumption, BudgetInv, [HeapNext]_heapVars,
           NEW t \in Threads, refusedInRow = 0, refusedInRow' = 1, stage[t] # stage'[t]
    PROVE  Collected + WeightOf(size[t]) > Limit
<1>1. PICK x \in Threads : Refuse(x)
  <2>1. refusedInRow' # refusedInRow /\ refusedInRow' # 0
    OBVIOUS
  <2>2. ~LetGo /\ ~GoCollects /\ ~UNCHANGED heapVars
    BY <2>1 DEF LetGo, GoCollects, heapVars
  <2>3. ASSUME NEW x \in Threads
        PROVE  /\ \A bytes \in Sizes, may \in BOOLEAN : ~Uncharged(x, bytes) /\ ~Reach(x, bytes, may)
               /\ ~Overtaken(x) /\ ~Admit(x) /\ ~Record(x)
    BY <2>1 DEF Uncharged, Reach, Overtaken, Admit, Record
  <2> QED BY <2>2, <2>3, Zenon DEF HeapNext
<1>2. x = t
  BY <1>1 DEF Refuse, End, BudgetInv, HeapTypeOK
<1> DEFINE w == WeightOf(size[t])
<1>3. PICK left \in {charged, Compacted, Collected} : Collect(w, left, FALSE)
  BY <1>1, <1>2 DEF Refuse
<1>4. w \in Nat /\ pending \in Nat /\ inUse \in Nat /\ Limit \in Nat
  <2>1. Places /\ Charges
    BY BudgetParts
  <2> QED BY <2>1, <1>1, <1>2, WeightsAreNumbers DEF Refuse, Places, Weighing, Charges, HeapBudgetAssumption
<1> HIDE DEF w
<1>5. pending + w > Limit \/ ~(Collected + w <= Limit)
  <2>1. refusedInRow + 1 \in PowersOfTwo
    BY DEF PowersOfTwo
  <2> QED BY <1>3, <2>1, Zenon DEF Collect
<1> QED BY <1>4, <1>5 DEF Collected, w

-----------------------------------------------------------------------------
(***************************************************************************)
(* The theorems.                                                           *)
(***************************************************************************)

\* However many threads reach a sampling point at once and whatever is refused,
\* dies and is collected between: the charge is what is recorded and reserved,
\* and what goes by uncharged stays within a sampling distance and an
\* allocation for each thread but one (charge, sample, record).
THEOREM BudgetHolds ==
    ASSUME HeapBudgetAssumption
    PROVE  HeapSpec => []BudgetIsKept
<1>1. HeapInit => BudgetInv
  BY InitBudgetInv
<1>2. BudgetInv /\ [HeapNext]_heapVars => BudgetInv'
  BY NextKeepsBudgetInv
<1>3. BudgetInv => BudgetIsKept
  BY BudgetInvKeepsBudget
<1> QED BY <1>1, <1>2, <1>3, PTL DEF HeapSpec

\* The first refusal in a row is only of what does not fit beside the memory in
\* use: it collects first (collect).
THEOREM RefusalsAreTrue ==
    ASSUME HeapBudgetAssumption
    PROVE  HeapSpec => FirstRefusalIsTrue
<1>1. HeapInit => BudgetInv
  BY InitBudgetInv
<1>2. BudgetInv /\ [HeapNext]_heapVars => BudgetInv'
  BY NextKeepsBudgetInv
<1>3. BudgetInv /\ [HeapNext]_heapVars =>
          [\A t \in Threads : refusedInRow = 0 /\ refusedInRow' = 1 /\ stage[t] # stage'[t] =>
              Collected + WeightOf(size[t]) > Limit]_heapVars
  BY RefusesTruly
<1> QED BY <1>1, <1>2, <1>3, PTL DEF HeapSpec, FirstRefusalIsTrue

-----------------------------------------------------------------------------
(***************************************************************************)
(* Record enumerations. For any data, filter and comparator, and a store of *)
(* any size.                                                                *)
(*                                                                          *)
(* A selection is what the filter lets through, each once, in the order of  *)
(* Before: by rank, and records of one rank as the store lists them          *)
(* (Selected). That holds of the insertion as it goes over the store, by     *)
(* induction over how far it has come. Two selections taken around one       *)
(* change agree on the order of every record but the changed one, so the     *)
(* record a cursor goes by, its pivot, splits both in the same way; and the  *)
(* changed record is never the pivot unless the walk is followed no further. *)
(***************************************************************************)
\* Some numbers have a least, and some that are bounded a greatest.
LEMMA MinIsLeast ==
    ASSUME NEW T, T \subseteq Nat, T # {}
    PROVE  Min(T) \in T /\ \A m \in T : Min(T) <= m
<1>1. PICK n \in T : \A m \in T : ~(<<m, n>> \in Less)
  BY LessWF, WFMin, Zenon
<1>2. ASSUME NEW m \in T PROVE n <= m
  <2>1. SUFFICES ASSUME m < n PROVE FALSE
    OBVIOUS
  <2>2. <<m, n>> \in Less
    BY <2>1 DEF Less
  <2> QED BY <1>1, <2>2
<1> QED BY <1>2 DEF Min

LEMMA MaxIsGreatest ==
    ASSUME NEW n \in Nat, NEW T, T \subseteq 0..n, T # {}
    PROVE  Max(T) \in T /\ \A m \in T : Max(T) >= m
<1> DEFINE U == {n - m : m \in T}
<1>1. U \subseteq Nat /\ U # {}
  <2>1. \A m \in T : n - m \in Nat
    OBVIOUS
  <2> QED BY <2>1
<1>2. PICK u : u \in U /\ \A v \in U : u <= v
  <2> HIDE DEF U
  <2> QED BY <1>1, MinIsLeast
<1>3. PICK m \in T : u = n - m
  BY <1>2
<1>4. ASSUME NEW k \in T PROVE m >= k
  <2>1. n - k \in U
    OBVIOUS
  <2>2. m \in 0..n /\ k \in 0..n /\ u <= n - k
    BY <1>2, <2>1
  <2> QED BY <1>3, <2>2
<1> QED BY <1>4 DEF Max

\* Where a record comes before another in a selection.
Before(i, j, content) ==
    IF sorted /\ Rank[content[i]] # Rank[content[j]] THEN Rank[content[i]] < Rank[content[j]] ELSE i < j

Chosen(i, content) == i \in DOMAIN content /\ content[i] \in Matches

LEMMA BeforeOrders ==
    ASSUME RecordWalkAssumption, NEW n \in Nat, NEW content, DOMAIN content = 1..n
    PROVE  /\ \A i : Chosen(i, content) => ~Before(i, i, content)
           /\ \A i, j : Chosen(i, content) /\ Chosen(j, content) /\ i # j =>
                  (Before(i, j, content) <=> ~Before(j, i, content))
           /\ \A i, j, k : /\ Chosen(i, content) /\ Chosen(j, content) /\ Chosen(k, content)
                           /\ Before(i, j, content) /\ Before(j, k, content)
                           => Before(i, k, content)
<1>1. \A i : Chosen(i, content) => i \in Int /\ Rank[content[i]] \in Int
  BY DEF Chosen, RecordWalkAssumption
<1> QED BY <1>1 DEF Before

\* s is the selection of the first n records.
Selected(s, n, content) ==
    /\ s \in Seq(1..n)
    /\ \A i \in 1..n : content[i] \in Matches <=> \E k \in 1..Len(s) : s[k] = i
    /\ \A j, k \in 1..Len(s) : j < k => Before(s[j], s[k], content)

\* t is s with i after the first k of it.
IsInserted(t, T, s, i, k) ==
    /\ t \in Seq(T) /\ Len(t) = Len(s) + 1
    /\ \A j \in 1..k : t[j] = s[j]
    /\ t[k + 1] = i
    /\ \A j \in (k + 2)..(Len(s) + 1) : t[j] = s[j - 1]

LEMMA Inserted ==
    ASSUME NEW T, NEW s \in Seq(T), NEW i \in T, NEW k \in 0..Len(s)
    PROVE  IsInserted(InsertAt(s, k + 1, i), T, s, i, k)
<1> DEFINE a == SubSeq(s, 1, k)
           b == SubSeq(s, k + 1, Len(s))
           t == InsertAt(s, k + 1, i)
<1>1. /\ a \in Seq(T) /\ Len(a) = k /\ \A j \in 1..k : a[j] = s[j]
      /\ b \in Seq(T) /\ Len(b) = Len(s) - k /\ \A j \in 1..(Len(s) - k) : b[j] = s[k + j]
  OBVIOUS
<1>2. t = (a \o <<i>>) \o b
  <2>1. (k + 1) - 1 = k
    OBVIOUS
  <2> QED BY <2>1 DEF InsertAt
<1> HIDE DEF a, b, t
<1> DEFINE c == a \o <<i>>
<1>3. c \in Seq(T) /\ Len(c) = k + 1 /\ (\A j \in 1..k : c[j] = s[j]) /\ c[k + 1] = i
  BY <1>1
<1> HIDE DEF c
<1>4. /\ t \in Seq(T) /\ Len(t) = Len(s) + 1
      /\ \A j \in 1..(k + 1) : t[j] = c[j]
      /\ \A j \in (k + 2)..(Len(s) + 1) : t[j] = b[j - (k + 1)]
  BY <1>1, <1>2, <1>3 DEF c
<1>5. \A j \in (k + 2)..(Len(s) + 1) : b[j - (k + 1)] = s[j - 1]
  <2> TAKE j \in (k + 2)..(Len(s) + 1)
  <2>1. j - (k + 1) \in 1..(Len(s) - k) /\ k + (j - (k + 1)) = j - 1
    OBVIOUS
  <2> QED BY <1>1, <2>1
<1>6. \A j \in 1..k : t[j] = s[j]
  BY <1>3, <1>4
<1>7. t[k + 1] = i
  BY <1>3, <1>4
<1>8. \A j \in (k + 2)..(Len(s) + 1) : t[j] = s[j - 1]
  BY <1>4, <1>5
<1> QED BY <1>4, <1>6, <1>7, <1>8, Zenon DEF t, IsInserted

LEMMA PlacedIsSelected ==
    ASSUME RecordWalkAssumption, NEW n \in Nat, NEW content, NEW m \in Nat, DOMAIN content = 1..m, n < m,
           NEW s, Selected(s, n, content), content[n + 1] \in Matches
    PROVE  Selected(Placed(s, n + 1, content), n + 1, content)
<1> DEFINE i == n + 1
           T == {0} \cup {k \in DOMAIN s : ~Follows(s[k], i, content)}
           p == Max(T)
           t == Placed(s, i, content)
<1>1. s \in Seq(1..n) /\ Len(s) \in Nat /\ DOMAIN s = 1..Len(s) /\ s \in Seq(1..i)
  <2>1. 1..n \subseteq 1..i
    OBVIOUS
  <2> QED BY <2>1 DEF Selected
<1>2. p \in T /\ p \in 0..Len(s) /\ \A k \in T : k <= p
  <2>1. T \subseteq 0..Len(s) /\ T # {}
    BY <1>1
  <2> HIDE DEF T
  <2> QED BY <1>1, <2>1, MaxIsGreatest
<1>3. /\ t \in Seq(1..i) /\ Len(t) = Len(s) + 1
      /\ \A j \in 1..p : t[j] = s[j]
      /\ t[p + 1] = i
      /\ \A j \in (p + 2)..(Len(s) + 1) : t[j] = s[j - 1]
  <2>1. t = InsertAt(s, p + 1, i) /\ i \in 1..i
    BY DEF Placed
  <2> HIDE DEF p, t, T
  <2>2. IsInserted(t, 1..i, s, i, p)
    BY <1>1, <1>2, <2>1, Inserted
  <2> QED BY <2>2 DEF IsInserted
<1>4. \A j \in 1..Len(s) : s[j] \in 1..n /\ Chosen(s[j], content) /\ s[j] < i
  BY <1>1 DEF Selected, Chosen
<1>5. Chosen(i, content)
  BY DEF Chosen
<1>6. \A j \in 1..Len(s) : Before(s[j], i, content) <=> ~Follows(s[j], i, content)
  <2> TAKE j \in 1..Len(s)
  <2>1. Rank[content[s[j]]] \in Int /\ Rank[content[i]] \in Int
    BY <1>4, <1>5 DEF Chosen, RecordWalkAssumption
  <2> QED BY <1>4, <2>1 DEF Before, Follows
<1>7. \A j \in 1..p : Before(s[j], i, content)
  <2> TAKE j \in 1..p
  <2>1. p \in 1..Len(s) /\ Before(s[p], i, content) /\ j \in 1..Len(s)
    BY <1>1, <1>2, <1>6
  <2>2. CASE j = p
    BY <2>1, <2>2
  <2>3. CASE j < p
    <3>1. Before(s[j], s[p], content)
      BY <2>1, <2>3 DEF Selected
    <3> QED BY <3>1, <2>1, <1>4, <1>5, BeforeOrders
  <2> QED BY <1>2, <2>2, <2>3
<1>8. \A j \in (p + 1)..Len(s) : Before(i, s[j], content)
  <2> TAKE j \in (p + 1)..Len(s)
  <2>1. j \in 1..Len(s) /\ j \notin T
    BY SMTT(60), <1>1, <1>2
  <2>2. ~Before(s[j], i, content) /\ s[j] # i
    BY <1>1, <1>4, <1>6, <2>1
  <2> QED BY <1>4, <1>5, <2>1, <2>2, BeforeOrders
<1> HIDE DEF p, t, T
<1>9. ASSUME NEW j \in 1..Len(t), NEW k \in 1..Len(t), j < k PROVE Before(t[j], t[k], content)
  <2>1. CASE k <= p
    <3>1. t[j] = s[j] /\ t[k] = s[k] /\ j \in 1..Len(s) /\ k \in 1..Len(s)
      BY <1>1, <1>2, <1>3, <1>9, <2>1
    <3> QED BY <3>1, <1>9 DEF Selected
  <2>2. CASE k = p + 1
    <3>1. t[j] = s[j] /\ t[k] = i /\ j \in 1..p
      BY <1>1, <1>2, <1>3, <1>9, <2>2
    <3> QED BY <3>1, <1>7
  <2>3. CASE k > p + 1 /\ j <= p
    <3>1. t[j] = s[j] /\ t[k] = s[k - 1] /\ j \in 1..Len(s) /\ k - 1 \in 1..Len(s) /\ j < k - 1
      BY <1>1, <1>2, <1>3, <1>9, <2>3
    <3> QED BY <3>1 DEF Selected
  <2>4. CASE k > p + 1 /\ j = p + 1
    <3>1. t[j] = i /\ t[k] = s[k - 1] /\ k - 1 \in (p + 1)..Len(s)
      BY <1>1, <1>2, <1>3, <1>9, <2>4
    <3> QED BY <3>1, <1>8
  <2>5. CASE k > p + 1 /\ j > p + 1
    <3>1. t[j] = s[j - 1] /\ t[k] = s[k - 1] /\ j - 1 \in 1..Len(s) /\ k - 1 \in 1..Len(s) /\ j - 1 < k - 1
      BY <1>1, <1>2, <1>3, <1>9, <2>5
    <3> QED BY <3>1 DEF Selected
  <2> QED BY <1>2, <2>1, <2>2, <2>3, <2>4, <2>5
<1>10. ASSUME NEW r \in 1..i PROVE content[r] \in Matches <=> \E k \in 1..Len(t) : t[k] = r
  <2>1. CASE r = i
    <3>1. p + 1 \in 1..Len(t) /\ t[p + 1] = r
      BY <1>1, <1>2, <1>3, <2>1
    <3> QED BY <2>1, <3>1
  <2>2. CASE r \in 1..n
    <3>1. ASSUME NEW j \in 1..Len(s), s[j] = r PROVE \E k \in 1..Len(t) : t[k] = r
      <4>1. CASE j <= p
        <5>1. j \in 1..Len(t) /\ t[j] = r
          BY <1>1, <1>2, <1>3, <3>1, <4>1
        <5> QED BY <5>1
      <4>2. CASE j > p
        <5>1. j + 1 \in 1..Len(t) /\ j + 1 \in (p + 2)..(Len(s) + 1) /\ (j + 1) - 1 = j
          BY <1>1, <1>2, <1>3, <4>2
        <5>2. t[j + 1] = r
          BY <1>3, <3>1, <5>1
        <5> QED BY <5>1, <5>2
      <4> QED BY <1>2, <4>1, <4>2
    <3>2. ASSUME NEW k \in 1..Len(t), t[k] = r PROVE \E j \in 1..Len(s) : s[j] = r
      <4>1. CASE k <= p
        BY <1>1, <1>2, <1>3, <3>2, <4>1
      <4>2. CASE k > p + 1
        <5>1. k - 1 \in 1..Len(s) /\ s[k - 1] = r
          BY <1>1, <1>2, <1>3, <3>2, <4>2
        <5> QED BY <5>1
      <4>3. k # p + 1
        BY <1>3, <2>2, <3>2
      <4> QED BY <1>2, <4>1, <4>2, <4>3
    <3>3. content[r] \in Matches <=> \E j \in 1..Len(s) : s[j] = r
      BY <2>2 DEF Selected
    <3> QED BY <3>1, <3>2, <3>3, Zenon
  <2> QED BY <1>10, <2>1, <2>2
<1> QED BY <1>3, <1>9, <1>10 DEF Selected, t

LEMMA LeftOutIsSelected ==
    ASSUME NEW n \in Nat, NEW content, NEW s, Selected(s, n, content), content[n + 1] \notin Matches
    PROVE  Selected(s, n + 1, content)
<1>1. 1..n \subseteq 1..(n + 1) /\ s \in Seq(1..n) /\ \A k \in 1..Len(s) : s[k] \in 1..n
  BY DEF Selected
<1>2. s \in Seq(1..(n + 1))
  BY <1>1
<1> QED BY <1>1, <1>2 DEF Selected

LEMMA SelectionIsSelected ==
    ASSUME RecordWalkAssumption, NEW S, NEW content \in Seq(S)
    PROVE  Selected(Selection(content), Len(content), content)
<1> DEFINE Step1(f, n) == IF n = 0 THEN <<>>
                         ELSE IF content[n] \in Matches THEN Placed(f[n - 1], n, content)
                         ELSE f[n - 1]
           Built(f, n) == f = [k \in 0..n |-> Step1(f, k)]
<1>1. Len(content) \in Nat /\ DOMAIN content = 1..Len(content)
  OBVIOUS
<1>2. \E f : Built(f, Len(content))
  <2> DEFINE P == {n \in Nat : \E f : Built(f, n)}
  <2>1. 0 \in P
    <3> DEFINE f == [k \in 0..0 |-> <<>>]
    <3>1. Built(f, 0)
      OBVIOUS
    <3> QED BY <3>1
  <2>2. ASSUME NEW n \in Nat, n \in P PROVE n + 1 \in P
    <3>1. PICK f : Built(f, n)
      BY <2>2
    <3> DEFINE g == [k \in 0..(n + 1) |-> Step1(f, k)]
    <3>2. \A k \in 0..n : f[k] = Step1(f, k)
      <4> HIDE DEF Step1
      <4> QED BY <3>1
    <3>3. \A k \in 0..n : g[k] = Step1(f, k)
      <4> HIDE DEF Step1
      <4> QED OBVIOUS
    <3>4. \A k \in 0..(n + 1) : Step1(g, k) = Step1(f, k)
      <4> TAKE k \in 0..(n + 1)
      <4>1. CASE k = 0
        BY <4>1
      <4>2. CASE k - 1 \in 0..n
        <5>1. g[k - 1] = f[k - 1]
          BY <3>2, <3>3, <4>2
        <5> HIDE DEF g
        <5> QED BY <4>2, <5>1
      <4> QED BY <4>1, <4>2
    <3>5. Built(g, n + 1)
      <4> HIDE DEF Step1
      <4> QED BY <3>4
    <3>6. n + 1 \in Nat /\ \E e : Built(e, n + 1)
      <4> HIDE DEF g, Built
      <4> QED BY <3>5
    <3> HIDE DEF Built
    <3> QED BY <3>6
  <2> HIDE DEF P
  <2>3. Nat \subseteq P
    BY <2>1, <2>2, SetInduction
  <2> QED BY <1>1, <2>3 DEF P
<1> DEFINE selected == CHOOSE f : Built(f, Len(content))
<1>3. Selection(content) = selected[Len(content)]
  BY Zenon DEF Selection
<1>4. Built(selected, Len(content))
  BY <1>2, Zenon
<1> HIDE DEF selected
<1>5. \A k \in 0..Len(content) : selected[k] = Step1(selected, k)
  <2> HIDE DEF Step1
  <2> QED BY <1>4
<1> DEFINE Q == {n \in Nat : n <= Len(content) => Selected(selected[n], n, content)}
<1>6. 0 \in Q
  <2>1. selected[0] = <<>>
    BY <1>1, <1>5
  <2>2. Selected(<<>>, 0, content)
    BY DEF Selected
  <2> QED BY <2>1, <2>2
<1>7. ASSUME NEW n \in Nat, n \in Q PROVE n + 1 \in Q
  <2> SUFFICES ASSUME n < Len(content) PROVE Selected(selected[n + 1], n + 1, content)
    BY <1>1
  <2>1. Selected(selected[n], n, content)
    BY <1>1, <1>7
  <2>2. selected[n + 1] = IF content[n + 1] \in Matches THEN Placed(selected[n], n + 1, content) ELSE selected[n]
    <3>1. n + 1 \in 0..Len(content) /\ n + 1 # 0 /\ (n + 1) - 1 = n
      BY <1>1
    <3> QED BY <1>5, <3>1
  <2> QED BY <1>1, <2>1, <2>2, PlacedIsSelected, LeftOutIsSelected
<1> HIDE DEF Q
<1>8. Nat \subseteq Q
  BY <1>6, <1>7, SetInduction
<1> QED BY <1>1, <1>3, <1>8 DEF Q

LEMMA SelectedMembers ==
    ASSUME NEW n \in Nat, NEW content, NEW s, Selected(s, n, content), DOMAIN content = 1..n
    PROVE  /\ Len(s) \in Nat /\ DOMAIN s = 1..Len(s)
           /\ \A k \in 1..Len(s) : s[k] \in 1..n /\ Chosen(s[k], content)
           /\ \A i \in 1..n : Chosen(i, content) => \E k \in 1..Len(s) : s[k] = i
BY DEF Selected, Chosen

\* Where in a selection a record is says where it comes.
LEMMA PlacesOrder ==
    ASSUME RecordWalkAssumption, NEW n \in Nat, NEW content, DOMAIN content = 1..n, NEW s, Selected(s, n, content),
           NEW j \in 1..Len(s), NEW k \in 1..Len(s)
    PROVE  /\ j < k <=> Before(s[j], s[k], content)
           /\ j = k <=> s[j] = s[k]
<1>1. Chosen(s[j], content) /\ Chosen(s[k], content) /\ j \in Int /\ k \in Int
  BY SelectedMembers
<1>2. j < k => Before(s[j], s[k], content)
  BY DEF Selected
<1>3. k < j => Before(s[k], s[j], content)
  BY DEF Selected
<1>4. CASE j = k
  BY <1>1, <1>4, BeforeOrders
<1>5. CASE j < k
  <2>1. s[j] # s[k]
    BY <1>1, <1>2, <1>5, BeforeOrders
  <2> QED BY <1>1, <1>2, <1>5, <2>1
<1>6. CASE k < j
  <2>1. s[j] # s[k]
    BY <1>1, <1>3, <1>6, BeforeOrders
  <2>2. ~Before(s[j], s[k], content)
    BY <1>1, <1>3, <1>6, <2>1, BeforeOrders
  <2> QED BY <1>1, <1>6, <2>1, <2>2
<1> QED BY <1>1, <1>4, <1>5, <1>6

LEMMA IndexOfIs ==
    ASSUME NEW s, NEW k \in DOMAIN s
    PROVE  IndexOf(s[k], s) \in DOMAIN s /\ s[IndexOf(s[k], s)] = s[k]
BY DEF IndexOf

\* R is the selection of what the store holds after a change of record r, and
\* the cursor is not before all.
Reselected(R, r, after) ==
    /\ Len(records) \in Nat /\ DOMAIN records = 1..Len(records)
    /\ Len(after) \in Nat /\ DOMAIN after = 1..Len(after)
    /\ Len(after) = Len(records) \/ (Len(after) = Len(records) + 1 /\ r = Len(after))
    /\ r \in 1..Len(after)
    /\ \A x \in 1..Len(records) : x # r => after[x] = records[x]
    /\ Selected(ids, Len(records), records)
    /\ Selected(R, Len(after), after)
    /\ position \in Int /\ position # 0 /\ position <= Len(ids) /\ -position <= Len(ids) + 1

LEMMA ReselectedMembers ==
    ASSUME NEW R, NEW r, NEW after, Reselected(R, r, after)
    PROVE  /\ Len(ids) \in Nat /\ DOMAIN ids = 1..Len(ids)
           /\ Len(R) \in Nat /\ DOMAIN R = 1..Len(R)
           /\ \A k \in 1..Len(ids) : ids[k] \in 1..Len(records) /\ Chosen(ids[k], records)
           /\ \A k \in 1..Len(R) : R[k] \in 1..Len(after) /\ Chosen(R[k], after)
           /\ \A i \in 1..Len(records) : Chosen(i, records) => \E k \in 1..Len(ids) : ids[k] = i
           /\ \A i \in 1..Len(after) : Chosen(i, after) => \E k \in 1..Len(R) : R[k] = i
<1>1. /\ Len(records) \in Nat /\ DOMAIN records = 1..Len(records) /\ Selected(ids, Len(records), records)
      /\ Len(after) \in Nat /\ DOMAIN after = 1..Len(after) /\ Selected(R, Len(after), after)
  BY DEF Reselected
<1>2. /\ Len(ids) \in Nat /\ DOMAIN ids = 1..Len(ids)
      /\ \A k \in 1..Len(ids) : ids[k] \in 1..Len(records) /\ Chosen(ids[k], records)
      /\ \A i \in 1..Len(records) : Chosen(i, records) => \E k \in 1..Len(ids) : ids[k] = i
  BY <1>1, SelectedMembers
<1>3. /\ Len(R) \in Nat /\ DOMAIN R = 1..Len(R)
      /\ \A k \in 1..Len(R) : R[k] \in 1..Len(after) /\ Chosen(R[k], after)
      /\ \A i \in 1..Len(after) : Chosen(i, after) => \E k \in 1..Len(R) : R[k] = i
  BY <1>1, SelectedMembers
<1> QED BY <1>2, <1>3

\* The record at j of the selection is at a of the new one, and the comparator
\* has not put it elsewhere.
Stays(j, a, R, r) == j \in 1..Len(ids) /\ a \in 1..Len(R) /\ ids[j] = R[a] /\ (sorted => ids[j] # r)

Here(j, R) == j \in 1..Len(ids) /\ \E a \in 1..Len(R) : ids[j] = R[a]

LEMMA StaysInOrder ==
    ASSUME RecordWalkAssumption, NEW R, NEW r, NEW after, Reselected(R, r, after),
           NEW j, NEW k, NEW a, NEW b, Stays(j, a, R, r), Stays(k, b, R, r)
    PROVE  (j < k <=> a < b) /\ (j = k <=> a = b)
<1>1. /\ Len(records) \in Nat /\ DOMAIN records = 1..Len(records) /\ Selected(ids, Len(records), records)
      /\ Len(after) \in Nat /\ DOMAIN after = 1..Len(after) /\ Selected(R, Len(after), after)
      /\ j \in 1..Len(ids) /\ k \in 1..Len(ids) /\ a \in 1..Len(R) /\ b \in 1..Len(R)
      /\ ids[j] = R[a] /\ ids[k] = R[b] /\ (sorted => ids[j] # r /\ ids[k] # r)
  BY DEF Reselected, Stays
<1>2. /\ ids[j] \in 1..Len(records) /\ ids[k] \in 1..Len(records)
  BY <1>1, ReselectedMembers
<1>3. /\ j < k <=> Before(ids[j], ids[k], records)
      /\ j = k <=> ids[j] = ids[k]
  BY <1>1, PlacesOrder
<1>4. /\ a < b <=> Before(R[a], R[b], after)
      /\ a = b <=> R[a] = R[b]
  BY <1>1, PlacesOrder
<1>5. Before(ids[j], ids[k], records) <=> Before(ids[j], ids[k], after)
  <2>1. CASE sorted
    <3>1. records[ids[j]] = after[ids[j]] /\ records[ids[k]] = after[ids[k]]
      BY <1>1, <1>2, <2>1 DEF Reselected
    <3> QED BY <3>1 DEF Before
  <2>2. CASE ~sorted
    BY <2>2 DEF Before
  <2> QED BY <2>1, <2>2
<1> QED BY <1>1, <1>3, <1>4, <1>5

LEMMA OnlyItLeaves ==
    ASSUME NEW R, NEW r, NEW after, Reselected(R, r, after), NEW j \in 1..Len(ids), ~Here(j, R)
    PROVE  ids[j] = r
<1>1. SUFFICES ASSUME ids[j] # r PROVE Here(j, R)
  OBVIOUS
<1>2. ids[j] \in 1..Len(records) /\ Chosen(ids[j], records)
  BY ReselectedMembers
<1>3. ids[j] \in 1..Len(after) /\ after[ids[j]] = records[ids[j]] /\ DOMAIN after = 1..Len(after)
  <2>1. /\ Len(records) \in Nat /\ Len(after) \in Nat
        /\ Len(after) = Len(records) \/ (Len(after) = Len(records) + 1 /\ r = Len(after))
        /\ DOMAIN after = 1..Len(after)
    BY DEF Reselected
  <2>2. \A x \in 1..Len(records) : x # r => after[x] = records[x]
    BY Zenon DEF Reselected
  <2>3. after[ids[j]] = records[ids[j]]
    BY <1>1, <1>2, <2>2, Zenon
  <2>4. \A x \in 1..Len(records) : x \in 1..Len(after)
    <3>1. /\ Len(records) \in Nat /\ Len(after) \in Nat
          /\ Len(after) = Len(records) \/ Len(after) = Len(records) + 1
      BY <2>1, Zenon
    <3> DEFINE m == Len(records)
               n == Len(after)
    <3> HIDE DEF m, n
    <3>2. m \in Nat /\ n \in Nat /\ (n = m \/ n = m + 1)
      BY <3>1, Zenon DEF m, n
    <3>3. \A x \in 1..m : x \in 1..n
      BY <3>2
    <3> QED BY <3>3, Zenon DEF m, n
  <2>5. ids[j] \in 1..Len(records)
    BY <1>2
  <2>6. ids[j] \in 1..Len(after)
    BY <2>4, <2>5, Zenon
  <2> QED BY <2>1, <2>3, <2>6, Zenon
<1>4. Chosen(ids[j], after)
  BY <1>2, <1>3 DEF Chosen
<1>5. \E a \in 1..Len(R) : R[a] = ids[j]
  BY <1>3, <1>4, ReselectedMembers
<1> QED BY <1>5 DEF Here

\* The first of the records after the cursor, and the last of those before it.
FirstAfter == IF position > 0 THEN position + 1 ELSE -position
LastBefore == IF position > 0 THEN position - 1 ELSE -position - 1

\* Where the cursor goes, and by which record: pivot is its place in the old
\* selection and a that in the new one.
OnIt(R, q, pivot, a) == position > 0 /\ pivot = position /\ q = a
BeforeIt(R, q, pivot, a) ==
    /\ q = -a /\ (position > 0 => ~Here(position, R)) /\ pivot >= FirstAfter
    /\ \A j : Here(j, R) /\ j >= FirstAfter => j >= pivot
AfterIt(R, q, pivot, a) ==
    /\ q = -(a + 1) /\ (position > 0 => ~Here(position, R)) /\ pivot <= LastBefore
    /\ \A j : Here(j, R) => j < FirstAfter
    /\ \A j : Here(j, R) /\ j <= LastBefore => j <= pivot
ByIt(R, q, pivot, a) ==
    /\ pivot \in 1..Len(ids) /\ a \in 1..Len(R) /\ ids[pivot] = R[a]
    /\ OnIt(R, q, pivot, a) \/ BeforeIt(R, q, pivot, a) \/ AfterIt(R, q, pivot, a)
ByNone(R, q) == q = -(Len(R) + 1) /\ \A j : ~Here(j, R)

LEMMA FollowsTheCursor ==
    ASSUME RecordWalkAssumption, NEW R, NEW r, NEW after, Reselected(R, r, after)
    PROVE  ByNone(R, FollowCursor(R)) \/ \E pivot, a \in Nat : ByIt(R, FollowCursor(R), pivot, a)
<1> DEFINE q == FollowCursor(R)
           kept == {i \in DOMAIN ids : ids[i] \in ToSet(R)}
           ahead == {i \in kept : i >= FirstAfter}
           behind == {i \in kept : i <= LastBefore}
<1>1. /\ Len(ids) \in Nat /\ DOMAIN ids = 1..Len(ids) /\ Len(R) \in Nat /\ DOMAIN R = 1..Len(R)
      /\ position \in Int /\ position # 0 /\ position <= Len(ids) /\ -position <= Len(ids) + 1
  <2>1. Len(ids) \in Nat /\ DOMAIN ids = 1..Len(ids) /\ Len(R) \in Nat /\ DOMAIN R = 1..Len(R)
    BY ReselectedMembers
  <2>2. position \in Int /\ position # 0 /\ position <= Len(ids) /\ -position <= Len(ids) + 1
    BY DEF Reselected
  <2> QED BY <2>1, <2>2
<1>2. \A i : i \in kept <=> Here(i, R)
  BY <1>1 DEF ToSet, Here
<1>3. \A i \in kept : IndexOf(ids[i], R) \in 1..Len(R) /\ R[IndexOf(ids[i], R)] = ids[i]
  <2> TAKE i \in kept
  <2>1. PICK a \in 1..Len(R) : ids[i] = R[a]
    BY <1>2 DEF Here
  <2> QED BY <1>1, <2>1, IndexOfIs
<1>4. q = IF position > 0 /\ position \in kept THEN IndexOf(ids[position], R)
          ELSE IF ahead # {} THEN -IndexOf(ids[Min(ahead)], R)
          ELSE IF behind # {} THEN -(IndexOf(ids[Max(behind)], R) + 1)
          ELSE -(Len(R) + 1)
  <2>1. (IF position < Len(ids) THEN position ELSE Len(ids)) = IF position > 0 THEN position ELSE
            (IF position < Len(ids) THEN position ELSE Len(ids))
    BY <1>1
  <2>2. position > 0 => ids # <<>>
    BY <1>1
  <2> QED BY <1>1, <2>1, <2>2 DEF FollowCursor, Gap, Between, FirstAfter, LastBefore
<1> HIDE DEF q, kept
<1>5. ahead \subseteq 0..Len(ids) /\ behind \subseteq 0..Len(ids) /\ kept \subseteq 1..Len(ids)
  BY <1>1, <1>2 DEF Here
<1>6. CASE position > 0 /\ position \in kept
  <2>1. ByIt(R, q, position, IndexOf(ids[position], R)) /\ IndexOf(ids[position], R) \in Nat /\ position \in Nat
    BY <1>1, <1>3, <1>4, <1>6 DEF ByIt, OnIt
  <2> QED BY <2>1 DEF q
<1>7. CASE ~(position > 0 /\ position \in kept) /\ ahead # {}
  <2> DEFINE m == Min(ahead)
  <2>1. m \in ahead /\ \A i \in ahead : m <= i
    BY <1>5, <1>7, MinIsLeast
  <2>2. q = -IndexOf(ids[m], R)
    BY <1>4, <1>7
  <2> HIDE DEF m
  <2>3. IndexOf(ids[m], R) \in 1..Len(R) /\ R[IndexOf(ids[m], R)] = ids[m] /\ m \in 1..Len(ids)
    BY <1>3, <1>5, <2>1
  <2>4. BeforeIt(R, q, m, IndexOf(ids[m], R))
    BY <1>2, <1>7, <2>1, <2>2 DEF BeforeIt
  <2>5. ByIt(R, q, m, IndexOf(ids[m], R)) /\ IndexOf(ids[m], R) \in Nat /\ m \in Nat
    BY <1>1, <2>3, <2>4 DEF ByIt
  <2> QED BY <2>5 DEF q
<1>8. CASE ~(position > 0 /\ position \in kept) /\ ahead = {} /\ behind # {}
  <2> DEFINE m == Max(behind)
  <2>1. m \in behind /\ \A i \in behind : m >= i
    BY <1>1, <1>5, <1>8, MaxIsGreatest
  <2>2. q = -(IndexOf(ids[m], R) + 1)
    BY <1>4, <1>8
  <2> HIDE DEF m
  <2>3. IndexOf(ids[m], R) \in 1..Len(R) /\ R[IndexOf(ids[m], R)] = ids[m] /\ m \in 1..Len(ids)
    BY <1>3, <1>5, <2>1
  <2>4. ASSUME NEW j, Here(j, R) PROVE j < FirstAfter
    <3>1. j \in kept /\ j \in 1..Len(ids)
      BY <1>2, <2>4 DEF Here
    <3>2. FirstAfter \in Int
      BY <1>1 DEF FirstAfter
    <3> QED BY <1>8, <3>1, <3>2
  <2>5. AfterIt(R, q, m, IndexOf(ids[m], R))
    BY <1>1, <1>2, <1>5, <1>8, <2>1, <2>2, <2>4 DEF AfterIt
  <2>6. ByIt(R, q, m, IndexOf(ids[m], R)) /\ IndexOf(ids[m], R) \in Nat /\ m \in Nat
    BY <1>1, <2>3, <2>5 DEF ByIt
  <2> QED BY <2>6 DEF q
<1>9. CASE ~(position > 0 /\ position \in kept) /\ ahead = {} /\ behind = {}
  <2>1. q = -(Len(R) + 1)
    BY <1>4, <1>9
  <2>2. ASSUME NEW j, Here(j, R) PROVE FALSE
    <3>1. j \in kept /\ j \in 1..Len(ids) /\ (position > 0 => j # position)
      BY <1>2, <1>5, <1>9, <2>2
    <3>2. j >= FirstAfter \/ j <= LastBefore
      BY <1>1, <3>1 DEF FirstAfter, LastBefore
    <3> QED BY <1>9, <3>1, <3>2
  <2> QED BY <2>1, <2>2 DEF q, ByNone
<1> QED BY <1>6, <1>7, <1>8, <1>9

\* A record that the cursor goes by has not been put elsewhere, or the walk is
\* followed no further.
LEMMA PivotStays ==
    ASSUME NEW R, NEW r, NEW after, Reselected(R, r, after),
           NEW pivot \in Nat, NEW a \in Nat, ByIt(R, FollowCursor(R), pivot, a),
           ~(sorted /\ r \in ToSet(R) /\ By = r)
    PROVE  Stays(pivot, a, R, r)
<1>1. /\ Len(ids) \in Nat /\ DOMAIN R = 1..Len(R)
      /\ position \in Int /\ position # 0 /\ position <= Len(ids) /\ -position <= Len(ids) + 1
  <2>1. Len(ids) \in Nat /\ DOMAIN R = 1..Len(R)
    BY ReselectedMembers
  <2>2. position \in Int /\ position # 0 /\ position <= Len(ids) /\ -position <= Len(ids) + 1
    BY DEF Reselected
  <2> QED BY <2>1, <2>2
<1>2. pivot \in 1..Len(ids) /\ a \in 1..Len(R) /\ ids[pivot] = R[a]
  BY DEF ByIt
<1>3. SUFFICES ASSUME sorted, ids[pivot] = r PROVE FALSE
  BY <1>2 DEF Stays
<1>4. By # r
  <2>1. r \in ToSet(R)
    BY <1>1, <1>2, <1>3 DEF ToSet
  <2> QED BY <1>3, <2>1
<1>5. CASE position > 0
  <2>1. ids[position] # r /\ position \in 1..Len(ids)
    BY <1>1, <1>4, <1>5 DEF By
  <2>2. Here(position, R)
    BY <2>1, OnlyItLeaves
  <2> QED BY <1>1, <1>2, <1>3, <1>5, <2>1, <2>2 DEF ByIt, OnIt, BeforeIt, AfterIt
<1>6. CASE position < 0 /\ -position <= Len(ids)
  <2>1. By = ids[-position] /\ -position \in 1..Len(ids)
    BY <1>1, <1>6 DEF By, Gap
  <2>2. Here(-position, R)
    BY <1>4, <2>1, OnlyItLeaves
  <2>3. FirstAfter = -position /\ ~OnIt(R, FollowCursor(R), pivot, a)
    BY <1>1, <1>6 DEF FirstAfter, OnIt
  <2>4. ~AfterIt(R, FollowCursor(R), pivot, a)
    BY <1>1, <2>2, <2>3 DEF AfterIt
  <2>5. BeforeIt(R, FollowCursor(R), pivot, a)
    BY <2>3, <2>4 DEF ByIt
  <2>6. pivot >= -position /\ -position >= pivot
    BY <1>1, <2>2, <2>3, <2>5 DEF BeforeIt
  <2> QED BY <1>1, <1>2, <1>3, <1>4, <2>1, <2>6
<1>7. CASE position < 0 /\ -position > Len(ids)
  <2>1. By = ids[Len(ids)] /\ Len(ids) \in 1..Len(ids)
    BY <1>1, <1>2, <1>7 DEF By, Gap
  <2>2. Here(Len(ids), R)
    BY <1>4, <2>1, OnlyItLeaves
  <2>3. FirstAfter = -position /\ LastBefore = -position - 1 /\ ~OnIt(R, FollowCursor(R), pivot, a)
    BY <1>1, <1>7 DEF FirstAfter, LastBefore, OnIt
  <2>4. ~BeforeIt(R, FollowCursor(R), pivot, a)
    BY <1>1, <1>2, <1>7, <2>3 DEF BeforeIt
  <2>5. AfterIt(R, FollowCursor(R), pivot, a)
    BY <2>3, <2>4 DEF ByIt
  <2>6. Len(ids) <= pivot
    BY <1>1, <1>7, <2>2, <2>3, <2>5 DEF AfterIt
  <2> QED BY <1>1, <1>2, <1>3, <1>4, <2>1, <2>6
<1> QED BY <1>1, <1>5, <1>6, <1>7

\* The indices the steps take from a cursor at q, in a selection of n records.
NextFrom(q) == IF q < 0 THEN -q ELSE q + 1
PreviousFrom(q) == IF q > 0 THEN q - 1 ELSE -q - 1

\* What was ahead of the cursor is ahead of it still, and what was not is not.
LEMMA TheCursorKeepsItsPlace ==
    ASSUME RecordWalkAssumption, NEW R, NEW r, NEW after, Reselected(R, r, after),
           NEW pivot \in Nat, NEW a \in Nat, NEW q, q = FollowCursor(R), ByIt(R, q, pivot, a),
           Stays(pivot, a, R, r), NEW j, NEW b, Stays(j, b, R, r)
    PROVE  /\ j >= NextFrom(position) <=> b >= NextFrom(q)
           /\ j <= PreviousFrom(position) <=> b <= PreviousFrom(q)
<1>1. (j < pivot <=> b < a) /\ (j = pivot <=> b = a)
  BY StaysInOrder
<1>2. /\ Len(ids) \in Nat /\ Len(R) \in Nat /\ position \in Int /\ position # 0
      /\ j \in 1..Len(ids) /\ b \in 1..Len(R) /\ pivot \in 1..Len(ids) /\ a \in 1..Len(R)
  <2>1. Len(ids) \in Nat /\ Len(R) \in Nat
    BY ReselectedMembers
  <2>2. position \in Int /\ position # 0
    BY DEF Reselected
  <2> QED BY <2>1, <2>2 DEF Stays
<1>3. NextFrom(position) = FirstAfter /\ PreviousFrom(position) = LastBefore
  BY <1>2 DEF NextFrom, PreviousFrom, FirstAfter, LastBefore
<1>4. Here(j, R)
  BY DEF Here, Stays
<1>5. CASE OnIt(R, q, pivot, a)
  BY <1>1, <1>2, <1>5 DEF OnIt, NextFrom, PreviousFrom
<1>6. ASSUME position > 0 => ~Here(position, R) PROVE j <= LastBefore <=> ~(j >= FirstAfter)
  BY <1>2, <1>4, <1>6 DEF FirstAfter, LastBefore
<1>7. FirstAfter \in Int /\ LastBefore \in Int
  BY <1>2 DEF FirstAfter, LastBefore
<1>8. CASE BeforeIt(R, q, pivot, a)
  <2>1. /\ q = -a /\ (position > 0 => ~Here(position, R)) /\ pivot >= FirstAfter
        /\ (j >= FirstAfter => j >= pivot)
    BY <1>4, <1>8 DEF BeforeIt
  <2>2. j >= FirstAfter <=> b >= a
    BY <1>1, <1>2, <1>7, <2>1
  <2>3. NextFrom(q) = a /\ PreviousFrom(q) = a - 1
    BY <1>2, <2>1 DEF NextFrom, PreviousFrom
  <2>4. j <= LastBefore <=> b <= a - 1
    BY <1>2, <1>6, <2>1, <2>2
  <2> QED BY <1>3, <2>2, <2>3, <2>4
<1>9. CASE AfterIt(R, q, pivot, a)
  <2>1. /\ q = -(a + 1) /\ (position > 0 => ~Here(position, R)) /\ j < FirstAfter
        /\ (j <= LastBefore => j <= pivot)
    BY <1>4, <1>9 DEF AfterIt
  <2>2. j <= LastBefore /\ ~(j >= FirstAfter)
    BY <1>2, <1>6, <1>7, <2>1
  <2>3. NextFrom(q) = a + 1 /\ PreviousFrom(q) = a
    BY <1>2, <2>1 DEF NextFrom, PreviousFrom
  <2>4. b <= a
    BY <1>1, <1>2, <2>1, <2>2
  <2> QED BY <1>2, <1>3, <2>2, <2>3, <2>4
<1> QED BY <1>5, <1>8, <1>9 DEF ByIt

-----------------------------------------------------------------------------
(***************************************************************************)
(* The walk's invariant.                                                   *)
(***************************************************************************)

Walked ==
    \A j \in 1..Len(ids) :
        /\ direction = "next" => /\ ids[j] \in owed => j >= NextFrom(position)
                                 /\ ids[j] \in answered => ~(j >= NextFrom(position))
        /\ direction = "previous" => /\ ids[j] \in owed => j <= PreviousFrom(position)
                                     /\ ids[j] \in answered => ~(j <= PreviousFrom(position))

Placement == /\ Len(ids) \in Nat /\ DOMAIN ids = 1..Len(ids)
             /\ \A j, k \in 1..Len(ids) : ids[j] = ids[k] => j = k
             /\ position \in Int /\ position <= Len(ids) /\ -position <= Len(ids) + 1

Fresh == position = 0 <=> direction = "none"

WalkInv ==
    /\ records \in Seq(Data \cup {Nil})
    /\ sorted \in BOOLEAN /\ updated \in BOOLEAN /\ destroyed \in BOOLEAN
    /\ Placement /\ Fresh
    /\ position = 0 => answered = {} /\ owed = ToSet(ids)
    /\ updated /\ ~destroyed => Selected(ids, Len(records), records)
    /\ direction \in {"none", "next", "previous", "both"}
    /\ answered \subseteq ToSet(ids) /\ owed \subseteq ToSet(ids)
    /\ Walked

LEMMA WalkedMeansComplete == WalkInv => WalkIsComplete
<1> SUFFICES ASSUME WalkInv, direction \in {"next", "previous"}
             PROVE  owed \subseteq Ahead(direction) /\ answered \cap Ahead(direction) = {}
  BY DEF WalkIsComplete
<1>1. /\ Len(ids) \in Nat /\ DOMAIN ids = 1..Len(ids) /\ position \in Int /\ position # 0
      /\ position <= Len(ids) /\ -position <= Len(ids) + 1
      /\ owed \subseteq {ids[j] : j \in 1..Len(ids)}
  <2>1. position # 0 /\ position \in Int
    BY DEF WalkInv, Fresh, Placement
  <2>2. DOMAIN ids = 1..Len(ids) /\ owed \subseteq ToSet(ids)
    BY DEF WalkInv, Placement
  <2> QED BY <2>1, <2>2 DEF WalkInv, Placement, ToSet
<1>2. NextIndex = NextFrom(position) /\ PreviousIndex = PreviousFrom(position)
  BY <1>1 DEF NextIndex, PreviousIndex, NextFrom, PreviousFrom, Gap
<1>3. \A j \in 1..Len(ids) :
        /\ direction = "next" => /\ ids[j] \in owed => j >= NextIndex
                                 /\ ids[j] \in answered => ~(j >= NextIndex)
        /\ direction = "previous" => /\ ids[j] \in owed => j <= PreviousIndex
                                     /\ ids[j] \in answered => ~(j <= PreviousIndex)
  BY <1>1, <1>2 DEF WalkInv, Walked
<1>4. CASE direction = "next"
  BY <1>1, <1>3, <1>4 DEF Ahead
<1>5. CASE direction = "previous"
  BY <1>1, <1>3, <1>5 DEF Ahead
<1> QED BY <1>4, <1>5

LEMMA SelectedOnce ==
    ASSUME RecordWalkAssumption, NEW S, NEW content \in Seq(S), NEW s, Selected(s, Len(content), content)
    PROVE  /\ Len(s) \in Nat /\ DOMAIN s = 1..Len(s)
           /\ \A j, k \in 1..Len(s) : s[j] = s[k] => j = k
<1>1. Len(content) \in Nat /\ DOMAIN content = 1..Len(content)
  OBVIOUS
<1>2. Len(s) \in Nat /\ DOMAIN s = 1..Len(s)
  BY <1>1, SelectedMembers
<1>3. \A j, k \in 1..Len(s) : s[j] = s[k] => j = k
  BY <1>1, PlacesOrder
<1> QED BY <1>2, <1>3

LEMMA InitWalks == WalkInit => WalkInv
<1> SUFFICES ASSUME WalkInit PROVE WalkInv
  OBVIOUS
<1>1. ids = <<>> /\ Len(ids) = 0 /\ DOMAIN ids = 1..Len(ids) /\ ToSet(ids) = {}
  BY DEF WalkInit, ToSet
<1>2. records \in Seq(Data \cup {Nil}) /\ updated = FALSE /\ destroyed = FALSE
  BY DEF WalkInit
<1>3. Placement /\ Fresh /\ Walked
  BY <1>1 DEF WalkInit, Placement, Fresh, Walked
<1> QED BY <1>1, <1>2, <1>3 DEF WalkInit, WalkInv

\* A walk that starts over owes everything.
LEMMA StartsOver ==
    ASSUME RecordWalkAssumption, NEW S, NEW content \in Seq(S), Selected(ids', Len(content), content) \/ ids' = <<>>,
           position' = 0, Start(ids')
    PROVE  /\ Placement' /\ Fresh' /\ Walked'
           /\ answered' = {} /\ owed' = ToSet(ids') /\ direction' = "none"
<1>1. /\ Len(ids') \in Nat /\ DOMAIN ids' = 1..Len(ids')
      /\ \A j, k \in 1..Len(ids') : ids'[j] = ids'[k] => j = k
  BY SelectedOnce
<1> QED BY <1>1 DEF Start, Placement, Fresh, Walked

LEMMA StepWalks ==
    ASSUME WalkInv, NEW way \in {"next", "previous"}, NEW index,
           index = IF way = "next" THEN NextIndex ELSE PreviousIndex, Step(way, index)
    PROVE  WalkInv'
<1>1. /\ ~destroyed /\ index \in 1..Len(ids) /\ position' = index
      /\ direction' = IF direction \in {"none", way} THEN way ELSE "both"
      /\ answered' = answered \cup {ids[index]} /\ owed' = owed \ {ids[index]}
      /\ UNCHANGED <<sorted, records, ids, updated, destroyed>>
  BY DEF Step, Answer, WalkInv, Placement
<1>2. /\ Len(ids) \in Nat /\ DOMAIN ids = 1..Len(ids) /\ position \in Int
      /\ \A j, k \in 1..Len(ids) : ids[j] = ids[k] => j = k
      /\ position <= Len(ids) /\ -position <= Len(ids) + 1
  BY DEF WalkInv, Placement
<1>3. ids[index] \in ToSet(ids)
  BY <1>1, <1>2 DEF ToSet
<1>4. Placement' /\ Fresh' /\ position' # 0
  BY <1>1, <1>2 DEF Placement, Fresh, WalkInv
<1>5. direction' \in {way, "both"} /\ (direction' = way => direction \in {"none", way})
  BY <1>1
<1>6. ASSUME NEW j \in 1..Len(ids), direction' = way
      PROVE  /\ way = "next" => /\ ids[j] \in owed' => j >= NextFrom(index)
                                /\ ids[j] \in answered' => ~(j >= NextFrom(index))
             /\ way = "previous" => /\ ids[j] \in owed' => j <= PreviousFrom(index)
                                    /\ ids[j] \in answered' => ~(j <= PreviousFrom(index))
  <2>1. /\ ids[j] \in owed' => ids[j] \in owed /\ j # index
        /\ ids[j] \in answered' => ids[j] \in answered \/ j = index
    BY <1>1, <1>2
  <2>2. NextFrom(index) = index + 1 /\ PreviousFrom(index) = index - 1 /\ index \in Int
    BY <1>1, <1>2 DEF NextFrom, PreviousFrom
  <2>3. CASE position = 0
    <3>1. answered = {} /\ index = IF way = "next" THEN 1 ELSE Len(ids)
      BY <1>2, <2>3 DEF WalkInv, NextIndex, PreviousIndex
    <3>2. CASE way = "next"
      <4>1. j >= index
        BY <1>2, <3>1, <3>2
      <4> QED BY <1>2, <2>1, <2>2, <3>1, <3>2, <4>1
    <3>3. CASE way = "previous"
      <4>1. j <= index
        BY <1>2, <3>1, <3>3
      <4> QED BY <1>2, <2>1, <2>2, <3>1, <3>3, <4>1
    <3> QED BY <3>2, <3>3
  <2>4. CASE position # 0
    <3>1. direction = way
      BY <1>5, <1>6, <2>4 DEF WalkInv, Fresh
    <3>2. NextIndex = NextFrom(position) /\ PreviousIndex = PreviousFrom(position)
      <4>1. /\ Len(ids) \in Nat /\ position \in Int
            /\ position <= Len(ids) /\ -position <= Len(ids) + 1
        BY <1>2
      <4> QED BY <2>4, <4>1 DEF NextIndex, PreviousIndex, NextFrom, PreviousFrom, Gap
    <3>3. /\ way = "next" => /\ ids[j] \in owed => j >= index
                             /\ ids[j] \in answered => ~(j >= index)
          /\ way = "previous" => /\ ids[j] \in owed => j <= index
                                 /\ ids[j] \in answered => ~(j <= index)
      BY <3>1, <3>2 DEF WalkInv, Walked
    <3> QED BY <1>2, <2>1, <2>2, <3>3
  <2> QED BY <2>3, <2>4
<1>7. Walked'
  BY <1>1, <1>5, <1>6 DEF Walked
<1>8. answered' \subseteq ToSet(ids)' /\ owed' \subseteq ToSet(ids)'
  BY <1>1, <1>3 DEF WalkInv
<1>9. direction' \in {"none", "next", "previous", "both"}
  BY <1>5
<1>10. /\ (records \in Seq(Data \cup {Nil}))'
       /\ sorted' \in BOOLEAN /\ updated' \in BOOLEAN /\ destroyed' \in BOOLEAN
       /\ (updated /\ ~destroyed => Selected(ids, Len(records), records))'
  BY <1>1 DEF WalkInv, Selected, Before
<1> QED BY <1>4, <1>7, <1>8, <1>9, <1>10 DEF WalkInv

\* A change of the store, as the three calls make it.
IsChange(r, content) ==
    /\ content \in Seq(Data \cup {Nil}) /\ r \in 1..Len(content)
    /\ Len(content) = Len(records) \/ (Len(content) = Len(records) + 1 /\ r = Len(content))
    /\ \A x \in 1..Len(records) : x # r => content[x] = records[x]

LEMMA Changes ==
    ASSUME WalkInv, AddRecord \/ SetRecord \/ DeleteRecord
    PROVE  \E r, content : IsChange(r, content) /\ Change(r, content)
<1>1. records \in Seq(Data \cup {Nil}) /\ Len(records) \in Nat /\ DOMAIN records = 1..Len(records)
  BY DEF WalkInv
<1>2. CASE AddRecord
  <2>1. PICK d \in Data : Change(Len(records) + 1, Append(records, d))
    BY <1>2 DEF AddRecord
  <2>2. IsChange(Len(records) + 1, Append(records, d))
    BY <1>1 DEF IsChange
  <2> QED BY <2>1, <2>2
<1>3. CASE SetRecord \/ DeleteRecord
  <2>1. PICK r \in 1..Len(records), d \in Data \cup {Nil} : Change(r, [records EXCEPT ![r] = d])
    BY <1>1, <1>3 DEF SetRecord, DeleteRecord
  <2> DEFINE content == [records EXCEPT ![r] = d]
  <2>2. content \in Seq(Data \cup {Nil}) /\ Len(content) = Len(records) /\ \A x \in 1..Len(records) : x # r => content[x] = records[x]
    BY <1>1
  <2> HIDE DEF content
  <2>3. IsChange(r, content)
    BY <1>1, <2>2 DEF IsChange
  <2> USE DEF content
  <2> QED BY <2>1, <2>3
<1> QED BY <1>2, <1>3

LEMMA ChangeUnseenWalks ==
    ASSUME WalkInv, NEW r, NEW content, IsChange(r, content), Change(r, content), ~(updated /\ ~destroyed)
    PROVE  WalkInv'
<1>1. /\ records' \in Seq(Data \cup {Nil}) /\ ~(updated' /\ ~destroyed')
      /\ UNCHANGED <<ids, position, direction, answered, owed, sorted, updated, destroyed>>
  BY DEF Change, IsChange
<1>2. Placement' /\ Fresh' /\ Walked'
  BY <1>1 DEF WalkInv, Placement, Fresh, Walked
<1> QED BY <1>1, <1>2 DEF WalkInv

LEMMA ChangeWalks ==
    ASSUME RecordWalkAssumption, WalkInv, NEW r, NEW content, IsChange(r, content), Change(r, content),
           updated, ~destroyed
    PROVE  WalkInv'
<1> DEFINE R == ids'
           q == position'
<1>1. /\ records' = content /\ ids' = Selection(content) /\ position' = FollowCursor(ids') /\ Follow(r, ids')
      /\ UNCHANGED <<sorted, updated, destroyed>>
  BY DEF Change
<1>2. /\ content \in Seq(Data \cup {Nil}) /\ r \in 1..Len(content) /\ records \in Seq(Data \cup {Nil})
      /\ Len(content) \in Nat /\ DOMAIN content = 1..Len(content)
      /\ Len(records) \in Nat /\ DOMAIN records = 1..Len(records)
  BY DEF IsChange, WalkInv
<1>3. Selected(R, Len(content), content)
  BY <1>1, <1>2, SelectionIsSelected
<1>4. /\ Len(R) \in Nat /\ DOMAIN R = 1..Len(R)
      /\ \A j, k \in 1..Len(R) : R[j] = R[k] => j = k
  BY <1>2, <1>3, SelectedOnce
<1>5. (updated /\ ~destroyed => Selected(ids, Len(records), records))'
  <2>1. Selected(R, Len(content), content) <=> Selected(ids, Len(records), records)'
    <3>1. \A x, y : Before(x, y, content) <=> Before(x, y, records)'
      BY <1>1 DEF Before
    <3>2. records' = content
      BY <1>1
    <3> QED BY <3>1, <3>2, Zenon DEF Selected
  <2> QED BY <1>3, <2>1
<1>6. /\ (records \in Seq(Data \cup {Nil}))'
      /\ sorted' \in BOOLEAN /\ updated' \in BOOLEAN /\ destroyed' \in BOOLEAN
  BY <1>1, <1>2 DEF WalkInv
<1>7. CASE position = 0
  <2>1. position' = 0 /\ Start(ids')
    BY <1>1, <1>7 DEF FollowCursor, Follow
  <2>2. /\ Placement' /\ Fresh' /\ Walked'
        /\ answered' = {} /\ owed' = ToSet(ids') /\ direction' = "none"
    BY <1>2, <1>3, <2>1, StartsOver
  <2> QED BY <1>5, <1>6, <2>1, <2>2 DEF WalkInv, ToSet
<1>8. CASE position # 0
  <2>1. Reselected(R, r, content)
    BY <1>2, <1>3, <1>8 DEF Reselected, IsChange, WalkInv, Placement
  <2> DEFINE sortedAnew == sorted /\ r \in ToSet(R)
  <2>2. /\ direction' = IF sortedAnew /\ By = r THEN "both" ELSE direction
        /\ answered' = (answered \cap ToSet(R)) \ (IF sortedAnew THEN {r} ELSE {})
        /\ owed' = ((owed \cap ToSet(R)) \ (IF sortedAnew THEN {r} ELSE {}))
                   \cup (IF ~sorted /\ direction = "next" /\ ids # <<>>
                         THEN ({r} \ DOMAIN records) \cap ToSet(R) ELSE {})
    BY <1>1, <1>8 DEF Follow
  <2>3. direction \in {"next", "previous", "both"}
    BY <1>8 DEF WalkInv, Fresh
  <2>4. direction' \in {direction, "both"} /\ (direction' # "both" => ~(sortedAnew /\ By = r))
    BY <2>2, <2>3
  <2>5. /\ answered \subseteq {ids[j] : j \in 1..Len(ids)} /\ owed \subseteq {ids[j] : j \in 1..Len(ids)}
        /\ ToSet(R) = {R[b] : b \in 1..Len(R)}
    BY <1>4 DEF WalkInv, Placement, ToSet
  \* A record of the walk that is still in the selection stays.
  <2>6. ASSUME NEW b \in 1..Len(R), R[b] \in answered' \/ (R[b] \in owed' /\ R[b] \in owed)
        PROVE  \E j : Stays(j, b, R, r) /\ (R[b] \in answered' => ids[j] \in answered)
                                        /\ (R[b] \in owed' /\ R[b] \in owed => ids[j] \in owed)
    <3>1. /\ (R[b] \in answered' => R[b] \in answered) /\ (R[b] \in answered' /\ sortedAnew => R[b] # r)
          /\ R[b] \in ToSet(R)
      BY <2>2, <2>5
    <3>2. R[b] \in owed' /\ R[b] \in owed /\ sortedAnew => R[b] # r
      BY <2>2
    <3>3. PICK j \in 1..Len(ids) : ids[j] = R[b]
      BY <2>5, <2>6, <3>1
    <3>4. Stays(j, b, R, r)
      BY <2>6, <3>1, <3>2, <3>3 DEF Stays
    <3> QED BY <3>1, <3>3, <3>4
  \* A new record is the last, and nothing has left.
  <2>7. ASSUME NEW b \in 1..Len(R), R[b] \in owed', R[b] \notin owed
        PROVE  /\ R[b] = r /\ ~sorted /\ direction = "next" /\ ids # <<>> /\ r = Len(records) + 1
    <3>1. R[b] = r /\ ~sorted /\ direction = "next" /\ ids # <<>> /\ r \notin 1..Len(records)
      BY <1>2, <2>2, <2>7
    <3> QED BY <1>2, <3>1 DEF IsChange
  <2>8. Fresh' /\ Placement' /\ Walked'
    <3>1. CASE ByNone(R, q)
      <4>1. q = -(Len(R) + 1)
        BY <3>1 DEF ByNone
      <4>2. ASSUME NEW b \in 1..Len(R) PROVE R[b] \notin answered' /\ R[b] \notin owed'
        <5>1. R[b] \notin answered' /\ ~(R[b] \in owed' /\ R[b] \in owed)
          BY <2>6, <3>1 DEF ByNone, Stays, Here
        <5>2. SUFFICES ASSUME R[b] \in owed', R[b] \notin owed PROVE FALSE
          BY <5>1
        <5>3. ids # <<>> /\ r = Len(records) + 1
          BY <2>7, <5>2
        <5>4. 1 \in 1..Len(ids) /\ ids[1] \in 1..Len(records)
          <6>1. ids \in Seq(1..Len(records))
            BY <2>1 DEF Reselected, Selected
          <6> QED BY <5>3, <6>1
        <5>5. ids[1] = r
          BY <2>1, <3>1, <5>4, OnlyItLeaves DEF ByNone
        <5> QED BY <1>2, <5>3, <5>4, <5>5
      <4>3. Walked'
        BY <4>2 DEF Walked
      <4>4. Fresh'
        BY <1>4, <2>3, <2>4, <4>1 DEF Fresh
      <4>5. Placement'
        BY <1>4, <4>1 DEF Placement
      <4> QED BY <4>3, <4>4, <4>5
    <3>2. ASSUME NEW pivot \in Nat, NEW a \in Nat, ByIt(R, q, pivot, a) PROVE Fresh' /\ Placement' /\ Walked'
      <4>1. /\ pivot \in 1..Len(ids) /\ a \in 1..Len(R) /\ ids[pivot] = R[a]
            /\ q = a \/ q = -a \/ q = -(a + 1)
        BY <3>2 DEF ByIt, OnIt, BeforeIt, AfterIt
      <4> HIDE DEF q
      <4>2. q \in Int /\ q # 0 /\ q <= Len(R) /\ -q <= Len(R) + 1 /\ NextFrom(q) \in Int /\ NextFrom(q) <= a + 1
        BY <1>4, <4>1 DEF NextFrom
      <4> USE DEF q
      <4>3. Fresh'
        BY <2>3, <2>4, <4>2 DEF Fresh
      <4>4. Placement'
        BY <1>4, <4>2 DEF Placement
      <4>5. CASE direction' = "both"
        BY <4>3, <4>4, <4>5 DEF Walked
      <4>6. CASE direction' # "both"
        <5>1. Stays(pivot, a, R, r) /\ direction' = direction
          BY <1>1, <2>1, <2>4, <3>2, <4>6, PivotStays
        <5>2. ASSUME NEW b \in 1..Len(R)
              PROVE  /\ direction = "next" => /\ R[b] \in owed' => b >= NextFrom(q)
                                              /\ R[b] \in answered' => ~(b >= NextFrom(q))
                     /\ direction = "previous" => /\ R[b] \in owed' => b <= PreviousFrom(q)
                                                  /\ R[b] \in answered' => ~(b <= PreviousFrom(q))
          <6>1. CASE R[b] \in answered' \/ (R[b] \in owed' /\ R[b] \in owed)
            <7>1. PICK j : /\ Stays(j, b, R, r) /\ (R[b] \in answered' => ids[j] \in answered)
                           /\ (R[b] \in owed' /\ R[b] \in owed => ids[j] \in owed)
              BY <2>6, <6>1
            <7>2. /\ j >= NextFrom(position) <=> b >= NextFrom(q)
                  /\ j <= PreviousFrom(position) <=> b <= PreviousFrom(q)
              BY <1>1, <2>1, <3>2, <5>1, <7>1, TheCursorKeepsItsPlace
            <7>3. j \in 1..Len(ids) /\ ids[j] = R[b]
              BY <7>1 DEF Stays
            <7>4. R[b] \in owed' => ids[j] \in owed
              <8>1. SUFFICES ASSUME R[b] \in owed', R[b] \notin owed PROVE FALSE
                BY <7>1
              <8>2. R[b] = r /\ r = Len(records) + 1
                BY <2>7, <8>1
              <8>3. R[b] \in 1..Len(records)
                BY <2>1, <7>3, ReselectedMembers
              <8> QED BY <1>2, <8>2, <8>3
            <7>5. /\ direction = "next" => /\ ids[j] \in owed => j >= NextFrom(position)
                                           /\ ids[j] \in answered => ~(j >= NextFrom(position))
                  /\ direction = "previous" => /\ ids[j] \in owed => j <= PreviousFrom(position)
                                               /\ ids[j] \in answered => ~(j <= PreviousFrom(position))
              BY <7>3 DEF WalkInv, Walked
            <7> QED BY <7>1, <7>2, <7>4, <7>5
          <6>2. CASE R[b] \notin answered' /\ R[b] \in owed' /\ R[b] \notin owed
            <7>1. R[b] = r /\ ~sorted /\ direction = "next" /\ r = Len(records) + 1
              BY <2>7, <6>2
            <7>2. R[a] \in 1..Len(records)
              BY <2>1, <4>1, ReselectedMembers
            <7>3. Before(R[a], R[b], content)
              BY <1>2, <7>1, <7>2 DEF Before
            <7>4. a < b
              BY <1>2, <1>3, <4>1, <7>3, PlacesOrder
            <7>5. b >= NextFrom(q)
              <8> HIDE DEF q
              <8> QED BY <1>4, <4>1, <4>2, <7>4
            <7> QED BY <6>2, <7>1, <7>5
          <6>3. CASE R[b] \notin answered' /\ R[b] \notin owed'
            BY <6>3
          <6> QED BY <6>1, <6>2, <6>3
        <5>3. Walked'
          BY <5>1, <5>2 DEF Walked
        <5> QED BY <4>3, <4>4, <5>3
      <4> QED BY <4>3, <4>4, <4>5, <4>6
    <3>3. q = FollowCursor(R)
      BY <1>1
    <3> QED BY <2>1, <3>1, <3>2, <3>3, FollowsTheCursor
  <2>9. answered' \subseteq ToSet(R) /\ owed' \subseteq ToSet(R)
    BY <2>2
  <2>10. position' # 0 /\ direction' \in {"none", "next", "previous", "both"}
    BY <2>3, <2>4, <2>8 DEF Fresh
  <2> QED BY <1>5, <1>6, <2>8, <2>9, <2>10 DEF WalkInv, ToSet
<1> QED BY <1>7, <1>8

LEMMA OtherCallsWalk ==
    ASSUME RecordWalkAssumption, WalkInv,
           Reset \/ Rebuild(updated) \/ KeepUpdated \/ LeaveUpdates \/ Destroy
    PROVE  WalkInv'
<1>1. records \in Seq(Data \cup {Nil}) /\ records' = records /\ sorted' = sorted /\ updated \in BOOLEAN /\ destroyed \in BOOLEAN
  BY DEF WalkInv, Reset, Rebuild, KeepUpdated, LeaveUpdates, Destroy
<1>2. /\ (records \in Seq(Data \cup {Nil}))'
      /\ sorted' \in BOOLEAN /\ updated' \in BOOLEAN /\ destroyed' \in BOOLEAN
  BY <1>1 DEF WalkInv, Reset, Rebuild, KeepUpdated, LeaveUpdates, Destroy
<1>3. CASE LeaveUpdates
  <2>1. UNCHANGED <<ids, position, direction, answered, owed>> /\ ~updated'
    BY <1>3 DEF LeaveUpdates
  <2>2. Placement' /\ Fresh' /\ Walked'
    BY <2>1 DEF WalkInv, Placement, Fresh, Walked
  <2> QED BY <1>2, <2>1, <2>2 DEF WalkInv
<1>4. CASE Reset
  <2>1. position' = 0 /\ Start(ids') /\ UNCHANGED <<sorted, records, ids, updated, destroyed>>
    BY <1>4 DEF Reset
  <2>2. answered' = {} /\ owed' = ToSet(ids') /\ direction' = "none"
    BY <2>1 DEF Start
  <2>3. Placement' /\ Fresh' /\ Walked'
    BY <2>1, <2>2 DEF WalkInv, Placement, Fresh, Walked
  <2>4. (updated /\ ~destroyed => Selected(ids, Len(records), records))'
    <3>1. (updated /\ ~destroyed) = (updated' /\ ~destroyed')
      BY <2>1
    <3>2. Selected(ids, Len(records), records)' <=> Selected(ids, Len(records), records)
      BY <2>1 DEF Selected, Before
    <3>3. updated /\ ~destroyed => Selected(ids, Len(records), records)
      BY DEF WalkInv
    <3> QED BY <3>1, <3>2, <3>3, Zenon
  <2> QED BY <1>2, <2>2, <2>3, <2>4 DEF WalkInv, ToSet
<1>5. CASE Rebuild(updated) \/ KeepUpdated \/ Destroy
  <2>1. /\ position' = 0 /\ Start(ids')
        /\ ids' = Selection(records) \/ (ids' = <<>> /\ destroyed')
    BY <1>5 DEF Rebuild, KeepUpdated, Destroy
  <2>2. Selected(ids', Len(records), records) \/ (ids' = <<>> /\ destroyed')
    BY <1>1, <2>1, SelectionIsSelected
  <2>3. /\ Placement' /\ Fresh' /\ Walked'
        /\ answered' = {} /\ owed' = ToSet(ids') /\ direction' = "none"
    BY <1>1, <2>1, <2>2, StartsOver
  <2>4. (updated /\ ~destroyed => Selected(ids, Len(records), records))'
    <3>1. CASE destroyed'
      BY <3>1
    <3>2. CASE ~destroyed'
      <4>1. Selected(ids', Len(records), records)
        BY <2>2, <3>2
      <4> QED BY <1>1, <4>1 DEF Selected, Before
    <3> QED BY <3>1, <3>2
  <2> QED BY <1>2, <2>3, <2>4 DEF WalkInv, ToSet
<1> QED BY <1>3, <1>4, <1>5

LEMMA NothingWalks == WalkInv /\ UNCHANGED walkVars => WalkInv'
<1> SUFFICES ASSUME WalkInv, UNCHANGED walkVars PROVE WalkInv'
  OBVIOUS
<1>1. UNCHANGED <<sorted, records, ids, position, updated, destroyed, direction, answered, owed>>
  BY DEF walkVars, enumeration
<1>2. (updated /\ ~destroyed => Selected(ids, Len(records), records))'
  BY <1>1 DEF WalkInv, Selected, Before
<1>3. Placement' /\ Fresh' /\ Walked'
  BY <1>1 DEF WalkInv, Placement, Fresh, Walked
<1> QED BY <1>1, <1>2, <1>3 DEF WalkInv

\* However a title changes its records as it walks them one way, over a store of
\* any size and under any filter and comparator: what the walk owes is ahead of
\* its cursor and what it answered is not (followCursor, recordSetChanged).
THEOREM WalksAreComplete ==
    ASSUME RecordWalkAssumption
    PROVE  WalkSpec => []WalkIsComplete
<1>1. WalkInit => WalkInv
  BY InitWalks
<1>2. WalkInv /\ [WalkNext]_walkVars => WalkInv'
  <2> SUFFICES ASSUME WalkInv, [WalkNext]_walkVars PROVE WalkInv'
    OBVIOUS
  <2>1. CASE AddRecord \/ SetRecord \/ DeleteRecord
    BY <2>1, Changes, ChangeWalks, ChangeUnseenWalks
  <2>2. CASE NextRecord
    BY <2>2, StepWalks DEF NextRecord
  <2>3. CASE PreviousRecord
    BY <2>3, StepWalks DEF PreviousRecord
  <2>4. CASE Reset \/ Rebuild(updated) \/ KeepUpdated \/ LeaveUpdates \/ Destroy
    BY <2>4, OtherCallsWalk
  <2>5. CASE UNCHANGED walkVars
    BY <2>5, NothingWalks
  <2> QED BY <2>1, <2>2, <2>3, <2>4, <2>5 DEF WalkNext
<1>3. WalkInv => WalkIsComplete
  BY WalkedMeansComplete
<1> QED BY <1>1, <1>2, <1>3, PTL DEF WalkSpec
=============================================================================

------------------------------- MODULE SaveOwner -------------------------------
(***************************************************************************)
(* A title's saves move from the directory an earlier release named to the  *)
(* one its owner names now (internal/backend/saveowner.go), over whatever an *)
(* earlier build's quick load left under the old name (SaveReplace, which    *)
(* this extends: its folders are those of the old name, its latest is the    *)
(* generation there). Both directories are claimed throughout, so nothing    *)
(* else writes during a move; it may stop, or fail, between any two renames, *)
(* and a Host that could not move goes on under the current owner.           *)
(***************************************************************************)
EXTENDS SaveReplace

CONSTANT Slots      \* the quick saves a title may have

VARIABLES
    upgraded,       \* this release has begun a start of the title
    mover,          \* MigrateSaveOwner: "idle", "settle", "move", or "failed"
    slots,          \* the quick saves kept under the old name
    target,         \* the save folder of the current owner
    targetSlots, targetPrevious,    \* its quick saves and its set-aside generation
    moved,          \* the generation that was moved
    forked          \* a title has saved under the current owner before any move

ownerVars == <<upgraded, mover, slots, target, targetSlots, targetPrevious, moved, forked>>

OwnerInit ==
    /\ Init
    /\ upgraded = FALSE /\ mover = "idle" /\ slots = {}
    /\ target = None /\ targetSlots = {} /\ targetPrevious = None
    /\ moved = None /\ forked = FALSE

\* earlierSaveOwnerPresent: a quick load stopped between its renames leaves no
\* folder, but the record and the folder it set aside.
EarlierSaveOwnerPresent == There(live) \/ (intent # "no" /\ There(previous))

\* SaveOwnerDirectory: where the saves are read from before a move.
SaveOwnerDirectory ==
    IF ~There(target) /\ EarlierSaveOwnerPresent THEN "earlier" ELSE "current"

-----------------------------------------------------------------------------

\* An earlier release takes a quick save under the old name.
TakeSlot(s) ==
    /\ ~upgraded /\ pc = "idle" /\ intent = "no"
    /\ slots' = slots \cup {s}
    /\ UNCHANGED <<vars, upgraded, mover, target, targetSlots, targetPrevious, moved, forked>>

BeginMove ==
    /\ mover = "idle" /\ pc = "idle" /\ EarlierSaveOwnerPresent
    /\ upgraded' = TRUE
    /\ ~There(target) /\ mover' = "settle"
    /\ UNCHANGED <<vars, slots, target, targetSlots, targetPrevious, moved, forked>>

\* Faulty: the folders move as a stopped load left them.
WithoutSettling ==
    /\ mover = "settle" /\ pc = "idle" /\ mover' = "move"
    /\ UNCHANGED <<vars, upgraded, slots, target, targetSlots, targetPrevious, moved, forked>>

\* The stopped load is settled by the steps of SaveReplace.
SettledThere ==
    /\ mover = "settle" /\ pc = "idle" /\ (refused \/ intent = "no")
    /\ mover' = IF refused THEN "failed" ELSE IF There(live) THEN "move" ELSE "idle"
    /\ UNCHANGED <<vars, upgraded, slots, target, targetSlots, targetPrevious, moved, forked>>

\* A quick save the current owner has stays where it is.
MoveSlot(s) ==
    /\ mover = "move" /\ s \in slots \ targetSlots
    /\ slots' = slots \ {s} /\ targetSlots' = targetSlots \cup {s}
    /\ UNCHANGED <<vars, upgraded, mover, target, targetPrevious, moved, forked>>

MovePrevious ==
    /\ mover = "move" /\ There(previous) /\ ~There(targetPrevious)
    /\ targetPrevious' = previous /\ previous' = None /\ displaced' = None
    /\ UNCHANGED <<live, next, intent, pc, loading, refused, made, latest,
                   upgraded, mover, slots, target, targetSlots, moved, forked>>

\* What has not moved, but for what the current owner has of its own.
EntriesLeft ==
    (slots \ targetSlots) \cup
    (IF There(previous) /\ ~There(targetPrevious) THEN {"previous"} ELSE {})

MoveSaves ==
    /\ mover = "move" /\ EntriesLeft = {} /\ There(live)
    /\ target' = live /\ live' = None
    /\ moved' = latest /\ latest' = None
    /\ mover' = "idle"
    /\ UNCHANGED <<next, previous, intent, pc, loading, refused, made, displaced,
                   upgraded, slots, targetSlots, targetPrevious, forked>>

\* A claim is held elsewhere, or a step fails; the Host logs it and goes on.
MoveFails ==
    /\ \/ mover = "idle" /\ EarlierSaveOwnerPresent /\ ~There(target)
       \/ mover \in {"settle", "move"}
    /\ pc = "idle"
    /\ mover' = "failed" /\ upgraded' = TRUE
    /\ UNCHANGED <<vars, slots, target, targetSlots, targetPrevious, moved, forked>>

\* The title runs under the current owner after a move that failed: it takes a
\* quick save there,
TakeSlotAnyway(s) ==
    /\ mover = "failed"
    /\ targetSlots' = targetSlots \cup {s}
    /\ UNCHANGED <<vars, upgraded, mover, slots, target, targetPrevious, moved, forked>>

\* or saves, from which time the old saves stay where they are.
SaveAnyway(g) ==
    /\ mover = "failed" /\ g \notin made
    /\ target' = g /\ forked' = TRUE /\ made' = made \cup {g}
    /\ UNCHANGED <<live, next, previous, intent, pc, loading, refused, latest, displaced,
                   upgraded, mover, slots, targetSlots, targetPrevious, moved>>

\* The process stops, in a move or after it.
StopMove ==
    /\ mover # "idle" /\ mover' = "idle"
    /\ pc' = "idle" /\ loading' = None
    /\ UNCHANGED <<live, next, previous, intent, refused, made, latest, displaced,
                   upgraded, slots, target, targetSlots, targetPrevious, moved, forked>>

-----------------------------------------------------------------------------

\* An earlier release runs, under the old name.
EarlierRelease == ~upgraded /\ Next /\ UNCHANGED ownerVars

\* This one settles the old name's folders, in a move or when it looks there.
Settling ==
    /\ upgraded /\ mover \in {"idle", "settle"}
    /\ BeginRecovery \/ Settle \/ ClearIntent \/ CleanStaging
    /\ UNCHANGED ownerVars

StopSettling == upgraded /\ mover = "idle" /\ Stop /\ UNCHANGED ownerVars

OwnerNext ==
    \/ EarlierRelease \/ Settling \/ StopSettling
    \/ \E s \in Slots : TakeSlot(s) \/ MoveSlot(s) \/ TakeSlotAnyway(s)
    \/ BeginMove \/ SettledThere \/ MovePrevious \/ MoveSaves \/ MoveFails \/ StopMove
    \/ \E g \in Generations : SaveAnyway(g)

OwnerSpec == OwnerInit /\ [][OwnerNext]_<<vars, ownerVars>>

-----------------------------------------------------------------------------
(***************************************************************************)
(* Properties.                                                             *)
(***************************************************************************)

\* What the store under the old name reads once it has settled.
Recovered == IF ~There(live) /\ intent = "old" THEN previous ELSE live

\* The directory SaveOwnerDirectory answers has the latest generation. A title
\* that saved under the current owner after a failed move has its own there.
LookFindsTheSaves ==
    ~refused /\ ~forked =>
        /\ SaveOwnerDirectory = "current" => latest = None /\ target = moved
        /\ SaveOwnerDirectory = "earlier" => Recovered = latest

\* No quick save and no set-aside generation is left under a name nothing will
\* move again, unless the current owner has its own.
NothingStaysBehind ==
    moved # None => slots \subseteq targetSlots /\ (There(previous) => There(targetPrevious))

\* Wherever a stopped load, its recovery or a move stops or fails, and however
\* often, a title's saves are under a name it is looked for under, and the rest
\* of what was kept with them has gone before ("finishes the move",
\* MigrateSaveOwner).
MovesAreWhole == LookFindsTheSaves /\ NothingStaysBehind

=============================================================================

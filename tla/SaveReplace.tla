------------------------------ MODULE SaveReplace ------------------------------
(***************************************************************************)
(* What an earlier build's quick load leaves beside a save folder, and how  *)
(* this build settles it (internal/backend/save_replace.go). The earlier     *)
(* writer is gone from the code; its steps are the ones                      *)
(* save_recovery_leftovers_test.go lists, each of which may be the last of    *)
(* its process. A folder's saves as a whole are a generation.                *)
(***************************************************************************)
EXTENDS Naturals

CONSTANTS
    Generations,    \* bound: the generations a run has, each made once
    None,           \* no folder
    Partial         \* a folder being filled or being removed

ASSUME GenerationsAssumption == None \notin Generations /\ Partial \notin Generations

VARIABLES
    live, next, previous,   \* the folders
    intent,                 \* the record: "no", "fresh" (0), or "old" (1)
    pc,                     \* the step the running process is at
    loading,                \* the slot's saves the earlier build loads
    refused,                \* a recovery found what it cannot settle
    made,                   \* the generations there have been
    latest,                 \* the generation the title goes on from
    displaced               \* the one a finished swap set aside

vars == <<live, next, previous, intent, pc, loading, refused, made, latest, displaced>>

Folders == Generations \cup {None, Partial}

EarlierSteps == {"empty", "fill", "drop", "record", "away", "in", "forget"}
RecoverySteps == {"settle", "clear", "clean"}

TypeOK ==
    /\ live \in Generations \cup {None}     \* never a partial folder
    /\ next \in Folders /\ previous \in Folders
    /\ intent \in {"no", "fresh", "old"}
    /\ pc \in {"idle"} \cup EarlierSteps \cup RecoverySteps
    /\ loading \in Generations \cup {None}
    /\ refused \in BOOLEAN
    /\ made \subseteq Generations
    /\ latest \in Generations \cup {None}
    /\ displaced \in Generations \cup {None}

Init ==
    /\ live = None /\ next = None /\ previous = None /\ intent = "no"
    /\ pc = "idle" /\ loading = None /\ refused = FALSE
    /\ made = {} /\ latest = None /\ displaced = None

-----------------------------------------------------------------------------
(***************************************************************************)
(* The earlier build's quick load.                                         *)
(***************************************************************************)

BeginLoad(g) ==
    /\ pc = "idle" /\ intent = "no" /\ g \notin made
    /\ pc' = "empty" /\ loading' = g /\ made' = made \cup {g}
    /\ UNCHANGED <<live, next, previous, intent, refused, latest, displaced>>

\* Removing a folder may stop half way; filling one, too.
EmptyStaging ==
    /\ pc = "empty"
    /\ \/ next' = Partial /\ pc' = "empty"
       \/ next' = None /\ pc' = "fill"
    /\ UNCHANGED <<live, previous, intent, loading, refused, made, latest, displaced>>

FillStaging ==
    /\ pc = "fill"
    /\ \/ next' = Partial /\ pc' = "fill"
       \/ next' = loading /\ pc' = "drop"
    /\ UNCHANGED <<live, previous, intent, loading, refused, made, latest, displaced>>

\* The "previous" of an older load goes.
DropPrevious ==
    /\ pc = "drop"
    /\ \/ previous # None /\ previous' = Partial /\ pc' = "drop"
       \/ previous' = None /\ pc' = "record"
    /\ displaced' = None
    /\ UNCHANGED <<live, next, intent, loading, refused, made, latest>>

RecordIntent ==
    /\ pc = "record"
    /\ intent' = IF live = None THEN "fresh" ELSE "old"
    /\ pc' = "away"
    /\ UNCHANGED <<live, next, previous, loading, refused, made, latest, displaced>>

\* Faulty: the live folder is removed to make room.
RemoveLive ==
    /\ pc = "away"
    /\ live' = None /\ pc' = "in"
    /\ UNCHANGED <<next, previous, intent, loading, refused, made, latest, displaced>>

MoveAway ==
    /\ pc = "away"
    /\ IF intent = "old" THEN previous' = live /\ live' = None ELSE UNCHANGED <<previous, live>>
    /\ pc' = "in"
    /\ UNCHANGED <<next, intent, loading, refused, made, latest, displaced>>

MoveIn ==
    /\ pc = "in"
    /\ live' = next /\ next' = None
    /\ latest' = loading /\ displaced' = latest
    /\ pc' = "forget"
    /\ UNCHANGED <<previous, intent, loading, refused, made>>

ForgetIntent ==
    /\ pc = "forget"
    /\ intent' = "no" /\ pc' = "idle" /\ loading' = None
    /\ UNCHANGED <<live, next, previous, refused, made, latest, displaced>>

-----------------------------------------------------------------------------
(***************************************************************************)
(* This build: recoverSaveReplacement, under the directory lock, before any *)
(* operation on the saves.                                                 *)
(***************************************************************************)

BeginRecovery ==
    /\ pc = "idle" /\ intent # "no" /\ ~refused
    /\ pc' = "settle"
    /\ UNCHANGED <<live, next, previous, intent, loading, refused, made, latest, displaced>>

HadOld == intent = "old"
There(folder) == folder # None

HalfSwapped == There(next) /\ HadOld /\ ~There(live) /\ There(previous)
Prepared    == There(next) /\ (There(live) <=> HadOld) /\ ~There(previous)
Swapped     == ~There(next) /\ There(live) /\ (There(previous) <=> HadOld)

\* Faulty: the staging goes before the record.
SettledStagingFirst == pc' = "clear" /\ next' = None

\* The record goes before the staging; the other order leaves, if it stops, a
\* record that no case describes.
Settled == pc' = "clear" /\ UNCHANGED next

\* Faulty: it goes on with the load instead of back.
RolledForward == next

RolledBack == previous

Settle ==
    /\ pc = "settle"
    /\ CASE HalfSwapped -> /\ live' = RolledBack /\ previous' = None
                           /\ Settled /\ UNCHANGED refused
         [] Prepared \/ Swapped -> Settled /\ UNCHANGED <<live, previous, refused>>
         [] OTHER -> /\ refused' = TRUE /\ pc' = "idle"
                     /\ UNCHANGED <<live, previous, next>>
    /\ UNCHANGED <<intent, loading, made, latest, displaced>>

\* Faulty: the backup is cleared with the record.
ClearIntentAndPrevious ==
    /\ pc = "clear"
    /\ intent' = "no" /\ previous' = None /\ pc' = "idle"
    /\ UNCHANGED <<live, next, loading, refused, made, latest, displaced>>

ClearIntent ==
    /\ pc = "clear"
    /\ intent' = "no"
    /\ pc' = IF There(next) THEN "clean" ELSE "idle"
    /\ UNCHANGED <<live, next, previous, loading, refused, made, latest, displaced>>

\* A removal that fails is ignored.
CleanStaging ==
    /\ pc = "clean"
    /\ next' \in {None, Partial, next} /\ pc' = "idle"
    /\ UNCHANGED <<live, previous, intent, loading, refused, made, latest, displaced>>

\* The title saves, once nothing is left to settle.
Play(g) ==
    /\ pc = "idle" /\ intent = "no" /\ g \notin made
    /\ live' = g /\ latest' = g /\ made' = made \cup {g}
    /\ UNCHANGED <<next, previous, intent, pc, loading, refused, displaced>>

\* The process stops between two steps; a prepared load is then undone.
Stop ==
    /\ pc # "idle"
    /\ pc' = "idle" /\ loading' = None
    /\ UNCHANGED <<live, next, previous, intent, refused, made, latest, displaced>>

-----------------------------------------------------------------------------

EarlierBuild ==
    \/ \E g \in Generations : BeginLoad(g)
    \/ EmptyStaging \/ FillStaging \/ DropPrevious \/ RecordIntent \/ MoveAway \/ MoveIn
    \/ ForgetIntent

ThisBuild ==
    \/ BeginRecovery \/ Settle \/ ClearIntent \/ CleanStaging
    \/ \E g \in Generations : Play(g)

Next == EarlierBuild \/ ThisBuild \/ Stop

Spec == Init /\ [][Next]_vars

-----------------------------------------------------------------------------
(***************************************************************************)
(* Properties.                                                             *)
(***************************************************************************)

\* No sequence of stopped loads and stopped recoveries leads to a state the
\* recovery refuses: its default case would lock the title out of its saves.
NeverRefused == ~refused

\* Once nothing is left to settle, the live folder is the generation the title
\* goes on from: the old one unless the swap was complete, and all of it.
LiveIsTheLatest == intent = "no" /\ pc \in {"idle", "empty", "fill", "drop", "record"} => live = latest

\* What recoverSaveReplacement promises of an earlier build's quick load, stopped
\* anywhere and as often as it takes: it is never refused, and it settles on the
\* generation the title goes on from.
RecoveryIsRight == NeverRefused /\ LiveIsTheLatest

\* The generation a finished swap set aside stays beside the live folder until
\* the next load drops it: no recovery removes or moves it.
DisplacedIsKept == displaced # None => previous = displaced

\* The saves the title goes on from are on disk at every step, under the live
\* name or as "previous", so no stop loses them.
LatestIsOnDisk == latest # None => latest \in {live, previous}

=============================================================================

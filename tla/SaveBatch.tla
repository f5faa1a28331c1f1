----------------------------- MODULE SaveBatch -----------------------------
(* A batch of saves and a restore of a backup, in one save directory          *)
(* (internal/backend/save_batch.go and WriteSaveTree of savepack.go). Both     *)
(* change several files, neither is atomic, and the process may stop between  *)
(* any two of their file operations, each of which may also fail.             *)
(*                                                                            *)
(* The directory's lock lets one operation in at a time (module SaveLock), so *)
(* the state is the directory and the one operation that runs. A key stands   *)
(* for its file (module SaveNames says why it may), and keys are numbered in  *)
(* the order the batch sorts them in. One file is replaced by a flushed       *)
(* temporary file and a rename (writeSaveFile), which is one step here.       *)
EXTENDS Naturals, FiniteSets

CONSTANTS Keys,      \* the saves' keys, numbered in sort.Strings' order
          Values,    \* what a save may hold
          None,      \* no file
          Batches,   \* the names MkdirTemp may give a batch's directory
          MaxOps     \* a bound: how many operations are begun

ASSUME BatchAssumption ==
    Keys \subseteq Nat /\ IsFiniteSet(Keys) /\ None \notin Values /\ MaxOps \in Nat

VARIABLES
    live,      \* the file of each key
    there,     \* the batch directories on the disk
    new, old,  \* what each batch directory stages, and keeps for an undo
    pc,        \* where the operation that holds the lock is
    entries,   \* what it was asked to write
    dir,       \* a batch's directory
    existed,   \* a batch: what each key held when it was staged
    staged,    \* a batch: the keys that are staged
    placed,    \* the keys written so far, and in an undo those still to put back
    retained,  \* the keys whose file an undo could not put back (keepRecovery when any)
    answer,    \* what the last operation answered
    before,    \* history: the files when the last operation began
    settled,   \* history: what each key holds for whoever asked for the writes
    ops        \* how many operations were begun

operation == <<pc, entries, dir, existed, staged, placed, retained>>
vars == <<live, there, new, old, operation, answer, before, settled, ops>>

Files == [Keys -> Values \cup {None}]
NoFiles == [k \in Keys |-> None]
Has(f) == {k \in Keys : f[k] # None}
First(k, S) == k \in S /\ \A j \in S : k <= j
Last(k, S) == k \in S /\ \A j \in S : j <= k

\* One set of files written over another: a batch's entries over the live files.
Over(f, g) == [k \in Keys |-> IF f[k] # None THEN f[k] ELSE g[k]]

FilesOK ==
    /\ live \in Files /\ before \in Files /\ settled \in Files
    /\ entries \in Files /\ existed \in Files
    /\ new \in [Batches -> Files] /\ old \in [Batches -> Files]
    /\ there \subseteq Batches
    /\ \A b \in Batches \ there : new[b] = NoFiles /\ old[b] = NoFiles

ControlOK ==
    /\ pc \in {"idle", "making", "staging", "copying", "undoing", "removing", "writing", "pruning"}
    /\ dir \in Batches \cup {None}
    /\ staged \subseteq Keys /\ placed \subseteq Keys /\ retained \subseteq Keys
    /\ answer \in {"none", "stored", "failed", "retained", "restored", "partial", "unpruned", "stopped"}
    /\ ops \in 0 .. MaxOps

TypeOK == FilesOK /\ ControlOK

Init ==
    /\ live \in Files /\ before = live /\ settled = live
    /\ entries = NoFiles /\ existed = NoFiles
    /\ there = {} /\ new = [b \in Batches |-> NoFiles] /\ old = [b \in Batches |-> NoFiles]
    /\ pc = "idle" /\ dir = None /\ staged = {} /\ placed = {} /\ retained = {}
    /\ answer = "none" /\ ops = 0

-----------------------------------------------------------------------------
(* An operation that starts under the lock, with what it was given.           *)

Begin(e, at) ==
    /\ pc = "idle" /\ ops < MaxOps
    /\ ops' = ops + 1
    /\ pc' = at /\ entries' = e /\ dir' = None /\ existed' = NoFiles
    /\ staged' = {} /\ placed' = {} /\ retained' = {}
    /\ answer' = "none" /\ before' = live

\* What the operation answers as it gives the lock up.
Answered(a) == pc' = "idle" /\ answer' = a

(* StoreSave, and StoreSaves of one entry: one file, replaced by a rename.    *)
StoreOne(k, v) ==
    /\ pc = "idle" /\ ops < MaxOps
    /\ ops' = ops + 1
    /\ live' = [live EXCEPT ![k] = v] /\ settled' = [settled EXCEPT ![k] = v]
    /\ before' = live /\ answer' = "none"
    /\ UNCHANGED <<there, new, old, operation>>

-----------------------------------------------------------------------------
(* storeSaves: every entry is staged in a directory of the batch's own, with  *)
(* a copy of the file it will replace, before any live file is touched.       *)

BeginBatch(e) ==
    /\ Cardinality(Has(e)) > 1
    /\ Begin(e, "making")
    /\ UNCHANGED <<live, there, new, old, settled>>

MakeDirectory(b) ==
    /\ pc = "making" /\ b \notin there
    /\ there' = there \cup {b} /\ dir' = b /\ pc' = "staging"
    /\ UNCHANGED <<live, new, old, entries, existed, staged, placed, retained, answer, before, settled, ops>>

FailToMake ==
    /\ pc = "making"
    /\ Answered("failed")
    /\ UNCHANGED <<live, there, new, old, entries, dir, existed, staged, placed, retained, before, settled, ops>>

\* The next key to stage, when there is one, and whether all are.
Unstaged == Has(entries) \ staged
AllStaged == pc = "staging" /\ Unstaged = {}

\* The key's file is read, and what will replace it is written.
StageNew(k) ==
    /\ pc = "staging" /\ First(k, Unstaged)
    /\ existed' = [existed EXCEPT ![k] = live[k]]
    /\ new' = [new EXCEPT ![dir][k] = entries[k]]
    /\ IF live[k] = None
         THEN staged' = staged \cup {k} /\ pc' = pc
         ELSE pc' = "copying" /\ staged' = staged
    /\ UNCHANGED <<live, there, old, entries, dir, placed, retained, answer, before, settled, ops>>

\* The copy an undo needs.
StageOld(k) ==
    /\ pc = "copying" /\ First(k, Unstaged)
    /\ old' = [old EXCEPT ![dir][k] = existed[k]]
    /\ staged' = staged \cup {k} /\ pc' = "staging"
    /\ UNCHANGED <<live, there, new, entries, dir, existed, placed, retained, answer, before, settled, ops>>

FailStaging ==
    /\ pc \in {"staging", "copying"} /\ Unstaged # {}
    /\ pc' = "removing" /\ answer' = "failed"
    /\ UNCHANGED <<live, there, new, old, entries, dir, existed, staged, placed, retained, before, settled, ops>>

\* One staged file takes its live name. After the last, the batch is stored.
Commit(k) ==
    /\ AllStaged /\ First(k, Has(entries) \ placed)
    /\ live' = [live EXCEPT ![k] = new[dir][k]]
    /\ new' = [new EXCEPT ![dir][k] = None]
    /\ placed' = placed \cup {k}
    /\ IF placed' = Has(entries)
         THEN pc' = "removing" /\ answer' = "stored" /\ settled' = Over(entries, settled)
         ELSE UNCHANGED <<pc, answer, settled>>
    /\ UNCHANGED <<there, old, entries, dir, existed, staged, retained, before, ops>>

FailCommit ==
    /\ AllStaged
    /\ pc' = "undoing" /\ answer' = "failed"
    /\ UNCHANGED <<live, there, new, old, entries, dir, existed, staged, placed, retained, before, settled, ops>>

\* Faulty: a file the batch made is left in place, since there is no copy to put back.
UndoKeepsMade(k) ==
    /\ pc = "undoing" /\ Last(k, placed)
    /\ IF existed[k] # None
         THEN live' = [live EXCEPT ![k] = old[dir][k]] /\ old' = [old EXCEPT ![dir][k] = None]
         ELSE UNCHANGED <<live, old>>
    /\ placed' = placed \ {k}
    /\ UNCHANGED <<there, new, pc, entries, dir, existed, staged, retained, answer, before, settled, ops>>

\* The files already placed are put back, the last first: the copy of one that
\* was there is renamed over it, and one that was not is removed.
Undo(k) ==
    /\ pc = "undoing" /\ Last(k, placed)
    /\ IF existed[k] # None
         THEN live' = [live EXCEPT ![k] = old[dir][k]] /\ old' = [old EXCEPT ![dir][k] = None]
         ELSE live' = [live EXCEPT ![k] = None] /\ old' = old
    /\ placed' = placed \ {k}
    /\ UNCHANGED <<there, new, pc, entries, dir, existed, staged, retained, answer, before, settled, ops>>

UndoFails(k) ==
    /\ pc = "undoing" /\ Last(k, placed)
    /\ retained' = retained \cup {k} /\ placed' = placed \ {k}
    /\ UNCHANGED <<live, there, new, old, pc, entries, dir, existed, staged, answer, before, settled, ops>>

\* Faulty: the directory is removed although a file could not be put back.
EndUndoRemovesRecovery ==
    /\ pc = "undoing" /\ placed = {}
    /\ pc' = "removing" /\ answer' = IF retained # {} THEN "retained" ELSE answer
    /\ UNCHANGED <<live, there, new, old, entries, dir, existed, staged, placed, retained, before, settled, ops>>

EndUndo ==
    /\ pc = "undoing" /\ placed = {}
    /\ IF retained # {} THEN Answered("retained") ELSE pc' = "removing" /\ answer' = answer
    /\ UNCHANGED <<live, there, new, old, entries, dir, existed, staged, placed, retained, before, settled, ops>>

\* The deferred os.RemoveAll of the batch's directory, file by file. Its error
\* is not read: whatever it could not remove stays.
RemoveFile(k) ==
    /\ pc = "removing"
    /\ \/ new[dir][k] # None /\ new' = [new EXCEPT ![dir][k] = None] /\ old' = old
       \/ old[dir][k] # None /\ old' = [old EXCEPT ![dir][k] = None] /\ new' = new
    /\ UNCHANGED <<live, there, operation, answer, before, settled, ops>>

EndRemove ==
    /\ pc = "removing"
    /\ there' \in {there, IF Has(new[dir]) = {} /\ Has(old[dir]) = {} THEN there \ {dir} ELSE there}
    /\ pc' = "idle"
    /\ UNCHANGED <<live, new, old, entries, dir, existed, staged, placed, retained, answer, before, settled, ops>>

-----------------------------------------------------------------------------
(* WriteSaveTree: a backup's entries are written one by one, and only then    *)
(* the files the backup does not name are removed, a batch's left-over files  *)
(* among them: a walk of the tree sees them as files like any other.          *)

BeginRestore(e) ==
    /\ Begin(e, "writing")
    /\ UNCHANGED <<live, there, new, old, settled>>

WriteEntry(k) ==
    /\ pc = "writing" /\ First(k, Has(entries) \ placed)
    /\ live' = [live EXCEPT ![k] = entries[k]]
    /\ settled' = [settled EXCEPT ![k] = entries[k]]
    /\ placed' = placed \cup {k}
    /\ UNCHANGED <<there, new, old, pc, entries, dir, existed, staged, retained, answer, before, ops>>

FailWrite ==
    /\ pc = "writing" /\ Has(entries) # placed
    /\ Answered("partial")
    /\ UNCHANGED <<live, there, new, old, entries, dir, existed, staged, placed, retained, before, settled, ops>>

\* Faulty: what the backup does not name is removed before its entries are written.
BeginPruneFirst ==
    /\ pc = "writing"
    /\ pc' = "pruning" /\ settled' = entries
    /\ UNCHANGED <<live, there, new, old, entries, dir, existed, staged, placed, retained, answer, before, ops>>

BeginPrune ==
    /\ pc = "writing" /\ placed = Has(entries)
    /\ pc' = "pruning" /\ settled' = entries
    /\ UNCHANGED <<live, there, new, old, entries, dir, existed, staged, placed, retained, answer, before, ops>>

PruneSave(k) ==
    /\ pc = "pruning" /\ k \in Has(live) \ placed
    /\ live' = [live EXCEPT ![k] = None]
    /\ UNCHANGED <<there, new, old, operation, answer, before, settled, ops>>

PruneRecovery(b, k) ==
    /\ pc = "pruning"
    /\ \/ new[b][k] # None /\ new' = [new EXCEPT ![b][k] = None] /\ old' = old
       \/ old[b][k] # None /\ old' = [old EXCEPT ![b][k] = None] /\ new' = new
    /\ UNCHANGED <<live, there, operation, answer, before, settled, ops>>

\* The files in the batch directories, which a listing and a backup answer too.
Recovery == {b \in Batches : Has(new[b]) # {} \/ Has(old[b]) # {}}

\* Faulty: the walk passes over every dotted directory.
EndPruneSkipsDotted ==
    /\ pc = "pruning" /\ Has(live) \subseteq placed
    /\ Answered("restored")
    /\ UNCHANGED <<live, there, new, old, entries, dir, existed, staged, placed, retained, before, settled, ops>>

EndPrune ==
    /\ pc = "pruning" /\ Has(live) \subseteq placed /\ Recovery = {}
    /\ there' = {} /\ Answered("restored")
    /\ UNCHANGED <<live, new, old, entries, dir, existed, staged, placed, retained, before, settled, ops>>

FailPrune ==
    /\ pc = "pruning" /\ ~ (Has(live) \subseteq placed /\ Recovery = {})
    /\ Answered("unpruned")
    /\ UNCHANGED <<live, there, new, old, entries, dir, existed, staged, placed, retained, before, settled, ops>>

-----------------------------------------------------------------------------
(* The process stops, and gives the lock up with everything else it held.     *)
Stop ==
    /\ pc # "idle"
    /\ Answered("stopped")
    /\ UNCHANGED <<live, there, new, old, entries, dir, existed, staged, placed, retained, before, settled, ops>>

BatchStep ==
    \/ \E e \in Files : BeginBatch(e)
    \/ \E b \in Batches : MakeDirectory(b)
    \/ FailToMake
    \/ \E k \in Keys : StageNew(k)
    \/ \E k \in Keys : StageOld(k)
    \/ FailStaging
    \/ \E k \in Keys : Commit(k)
    \/ FailCommit
    \/ \E k \in Keys : Undo(k)
    \/ \E k \in Keys : UndoFails(k)
    \/ EndUndo
    \/ \E k \in Keys : RemoveFile(k)
    \/ EndRemove

RestoreStep ==
    \/ \E e \in Files : BeginRestore(e)
    \/ \E k \in Keys : WriteEntry(k)
    \/ FailWrite
    \/ BeginPrune
    \/ \E k \in Keys : PruneSave(k)
    \/ \E b \in Batches, k \in Keys : PruneRecovery(b, k)
    \/ EndPrune
    \/ FailPrune

Next ==
    \/ \E k \in Keys, v \in Values : StoreOne(k, v)
    \/ BatchStep
    \/ RestoreStep
    \/ Stop

Spec == Init /\ [][Next]_vars

-----------------------------------------------------------------------------
(* PROPERTIES *)

\* What a batch answers is what became of it (save_batch.go:10-13): stored, every
\* entry is live; failed, no live file changed, whichever step failed and however
\* many files were already placed; retained, each file is the earlier one or the
\* new one, and the earlier save of a file that is the new one is still in the
\* directory the error names.
BatchAnswers ==
    pc = "idle" =>
      /\ answer = "stored" => live = Over(entries, before)
      /\ answer = "failed" => live = before
      /\ answer = "retained" =>
           \A k \in Keys :
             live[k] # before[k] => live[k] = entries[k] /\ before[k] \in {None, old[dir][k]}

\* What a restore answers is what became of it (savepack.go:487-497): restored, the
\* directory is exactly the backup, with nothing a batch left behind beside it;
\* partial, every file is a whole one, the earlier or the backup's; unpruned, every
\* entry of the backup is live.
RestoreAnswers ==
    pc = "idle" =>
      /\ answer = "restored" => live = entries /\ Recovery = {}
      /\ answer = "partial" => \A k \in Keys : live[k] \in {before[k], Over(entries, before)[k]}
      /\ answer = "unpruned" => live = Over(entries, live)

\* Whatever failed on the way, an operation answers its caller what it did.
AnswersAreTrue == BatchAnswers /\ RestoreAnswers

\* A save whose replacement was never answered as stored is not lost, wherever the
\* process stopped and whichever file operation failed, and over any number of
\* operations since: it is live, or some batch's directory keeps a copy of it
\* (save_batch.go:133-135). Only a restore, which replaces everything, ends that.
NothingIsLost ==
    \A k \in Has(settled) :
        live[k] = settled[k] \/ \E b \in there : old[b][k] = settled[k]

\* A key stops having a save only by the undo of a batch that made it, or by a
\* restore that has written every entry of its backup already ("a restore that
\* fails partway has added files and taken none away", savepack.go:558-559).
SavesAreTakenLast ==
    [][\A k \in Has(live) : live'[k] = None =>
           \/ pc = "undoing" /\ before[k] = None
           \/ pc = "pruning" /\ live = Over(entries, live) /\ entries[k] = None]_vars
=============================================================================

-------------------------- MODULE SaveBatchProofs --------------------------
(* For any keys, values and number of operations: a save whose replacement    *)
(* was never answered as stored is live or kept in a batch's directory, and a *)
(* batch and a restore answer what became of the files.                       *)
(*                                                                            *)
(* While a batch runs, the argument is about the files as they were when it   *)
(* began: what they did not hold already, a directory other than the batch's  *)
(* own keeps, so neither an undo nor the removal of its directory can take a  *)
(* last copy. What the batch itself replaced, its own directory keeps until   *)
(* every file is placed or put back.                                          *)
EXTENDS SaveBatch, TLAPS

\* The saves are in the files f, or kept in one of the directories D.
Kept(f, D) == \A k \in Has(settled) : f[k] = settled[k] \/ \E b \in D : old[b][k] = settled[k]

\* What a replaced file held is in the batch's directory.
CopyOf(k) == before[k] # None => old[dir][k] = before[k]
Replaced(k) == k \in Has(entries) /\ live[k] = entries[k] /\ CopyOf(k)

\* The steps of a batch that has a directory and is not answered yet.
InBatch == pc \in {"staging", "copying", "undoing"}

Making == pc = "making" => live = before /\ staged = {} /\ placed = {} /\ retained = {}

Running ==
    InBatch => dir \in there /\ Kept(before, there \ {dir})

Staging ==
    pc \in {"staging", "copying"} =>
      /\ retained = {}
      /\ placed \subseteq staged /\ staged \subseteq Has(entries)
      /\ placed # {} => staged = Has(entries)
      /\ \A k \in Keys \ placed : live[k] = before[k]
      /\ \A k \in placed : live[k] = entries[k]
      /\ \A k \in staged : existed[k] = before[k] /\ CopyOf(k)
      /\ \A k \in staged \ placed : new[dir][k] = entries[k]

Copying ==
    pc = "copying" =>
      \A k \in Keys : First(k, Unstaged) => existed[k] = before[k] /\ new[dir][k] = entries[k]

Undoing ==
    pc = "undoing" =>
      /\ answer = "failed"
      /\ \A k \in placed : existed[k] = before[k] /\ Replaced(k)
      /\ \A k \in Keys \ placed : live[k] = before[k] \/ (k \in retained /\ Replaced(k))

Removing ==
    pc = "removing" =>
      /\ dir \in there /\ Kept(live, there \ {dir})
      /\ answer \in {"stored", "failed"}
      /\ answer = "stored" => live = Over(entries, before)
      /\ answer = "failed" => live = before

Restoring ==
    /\ pc = "writing" =>
         /\ placed \subseteq Has(entries)
         /\ \A k \in placed : live[k] = entries[k]
         /\ \A k \in Keys \ placed : live[k] = before[k]
    /\ pc = "pruning" =>
         /\ placed = Has(entries) /\ settled = entries
         /\ \A k \in placed : live[k] = entries[k]

Shape == Making /\ Running /\ Staging /\ Copying /\ Undoing /\ Removing /\ Restoring

BatchInv == TypeOK /\ Shape /\ NothingIsLost /\ BatchAnswers /\ RestoreAnswers

-----------------------------------------------------------------------------
(* While a batch runs, nothing is lost because nothing was when it began.     *)
LEMMA RunningLosesNothing ==
  TypeOK /\ Shape /\ InBatch => NothingIsLost
  <1> SUFFICES ASSUME TypeOK, Shape, InBatch, NEW k \in Has(settled)
               PROVE  live[k] = settled[k] \/ \E b \in there : old[b][k] = settled[k]
    BY DEF NothingIsLost
  <1>1. k \in Keys /\ dir \in there
    BY DEF Has, Shape, Running
  <1>2. before[k] = settled[k] \/ \E b \in there : old[b][k] = settled[k]
    BY DEF Shape, Running, Kept
  <1>3. live[k] = before[k] \/ CopyOf(k)
    BY <1>1 DEF Shape, Staging, Undoing, Replaced, InBatch
  <1>4. settled[k] # None
    BY DEF Has
  <1> QED
    BY <1>1, <1>2, <1>3, <1>4 DEF CopyOf

LEMMA NoFilesAreFiles == NoFiles \in Files
  BY DEF NoFiles, Files

\* One file of one directory goes, and no other.
LEMMA OneFileGoes ==
  ASSUME NEW held \in [Batches -> Files], NEW b \in Batches, NEW k \in Keys,
         NEW left, left = [held EXCEPT ![b][k] = None]
  PROVE  /\ left \in [Batches -> Files]
         /\ \A c \in Batches \ {b} : left[c] = held[c]
         /\ \A j \in Keys \ {k} : left[b][j] = held[b][j]
         /\ left[b][k] = None
  <1>1. held[b] \in Files
    OBVIOUS
  <1>2. [held[b] EXCEPT ![k] = None] \in Files
    BY <1>1 DEF Files
  <1>3. left = [held EXCEPT ![b] = [held[b] EXCEPT ![k] = None]]
    OBVIOUS
  <1>4. left \in [Batches -> Files]
    BY <1>2, <1>3
  <1> QED
    BY <1>1, <1>3, <1>4 DEF Files

LEMMA InitBatchInv == Init => BatchInv
  <1> SUFFICES ASSUME Init PROVE BatchInv
    OBVIOUS
  <1>1. TypeOK
    <2>1. FilesOK
      BY NoFilesAreFiles DEF Init, FilesOK
    <2>2. ControlOK
      BY BatchAssumption DEF Init, ControlOK
    <2> QED
      BY <2>1, <2>2 DEF TypeOK, FilesOK, ControlOK
  <1>2. NothingIsLost
    BY DEF Init, NothingIsLost
  <1> QED
    BY <1>1, <1>2 DEF Init, BatchInv, Shape, Making, Running, InBatch, Staging, Copying, Undoing,
         Removing, Restoring, BatchAnswers, RestoreAnswers

LEMMA StoreOneKeepsInv ==
  ASSUME BatchInv, NEW key \in Keys, NEW v \in Values, StoreOne(key, v)
  PROVE  BatchInv'
  <1> USE DEF BatchInv, StoreOne, operation
  <1>1. TypeOK'
    <2>1. FilesOK'
      BY DEF TypeOK, FilesOK, Files
    <2>2. ControlOK'
      BY BatchAssumption DEF TypeOK, ControlOK
    <2> QED
      BY <2>1, <2>2 DEF TypeOK
  <1>2. NothingIsLost'
    BY DEF NothingIsLost, TypeOK, FilesOK, ControlOK, Files, Has
  <1> QED
    BY <1>1, <1>2 DEF Shape, Making, Running, InBatch, Staging, Copying, Undoing,
         Removing, Restoring, BatchAnswers, RestoreAnswers

LEMMA BeginKeepsInv ==
  ASSUME BatchInv, NEW e \in Files, BeginBatch(e) \/ BeginRestore(e)
  PROVE  BatchInv'
  <1> USE DEF BatchInv, BeginBatch, BeginRestore, Begin
  <1>1. TypeOK'
    <2>1. FilesOK'
      BY NoFilesAreFiles DEF TypeOK, FilesOK
    <2>2. ControlOK'
      BY BatchAssumption DEF TypeOK, ControlOK
    <2> QED
      BY <2>1, <2>2 DEF TypeOK, FilesOK, ControlOK
  <1>2. NothingIsLost'
    BY DEF NothingIsLost, Has
  <1> QED
    BY <1>1, <1>2 DEF Shape, Making, Running, InBatch, Staging, Copying, Undoing,
         Removing, Restoring, BatchAnswers, RestoreAnswers

\* Every step that gives the lock up without changing a file.
LEMMA StopKeepsInv ==
  ASSUME BatchInv, FailToMake \/ FailWrite \/ FailPrune \/ Stop
  PROVE  BatchInv'
  <1> USE DEF BatchInv, FailToMake, FailWrite, FailPrune, Stop, Answered
  <1>1. TypeOK'
    BY DEF TypeOK, FilesOK, ControlOK
  <1>2. NothingIsLost'
    BY DEF NothingIsLost, Has
  <1>3. Shape'
    BY DEF Shape, Making, Running, InBatch, Staging, Copying, Undoing, Removing, Restoring
  <1>4. BatchAnswers'
    BY DEF BatchAnswers, Shape, Making
  <1>5. RestoreAnswers'
    <2>1. CASE FailWrite
      BY <2>1 DEF RestoreAnswers, Shape, Restoring, Over, Has, TypeOK, FilesOK, ControlOK, Files
    <2>2. CASE FailPrune
      <3>1. live = Over(entries, live)
        BY <2>2 DEF Shape, Restoring, Over, Has, TypeOK, FilesOK, ControlOK, Files
      <3> QED
        BY <2>2, <3>1 DEF RestoreAnswers, Over
    <2>3. CASE FailToMake \/ Stop
      BY <2>3 DEF RestoreAnswers
    <2> QED
      BY <2>1, <2>2, <2>3
  <1> QED
    BY <1>1, <1>2, <1>3, <1>4, <1>5

\* The batch's directory is new, so no copy it keeps is in it.
LEMMA MakeDirectoryKeepsInv ==
  ASSUME BatchInv, NEW b \in Batches, MakeDirectory(b)
  PROVE  BatchInv'
  <1> USE DEF BatchInv, MakeDirectory
  <1>1. TypeOK'
    BY DEF TypeOK, FilesOK, ControlOK
  <1>2. NothingIsLost'
    BY DEF NothingIsLost, Has
  <1>3. Kept(before, there)
    BY DEF Shape, Making, NothingIsLost, Kept
  <1>4. Running'
    BY <1>3 DEF Running, InBatch, Kept, Has, TypeOK, FilesOK, ControlOK
  <1>5. Staging'
    BY DEF Shape, Making, Staging
  <1> QED
    BY <1>1, <1>2, <1>4, <1>5 DEF Shape, Making, Copying, Undoing,
         Removing, Restoring, BatchAnswers, RestoreAnswers

\* Staging writes in the batch's own directory only.
LEMMA StageKeepsInv ==
  ASSUME BatchInv, NEW key \in Keys, StageNew(key) \/ StageOld(key)
  PROVE  BatchInv'
  <1> USE DEF BatchInv
  <1>0. /\ dir \in Batches /\ dir \in there /\ pc \in {"staging", "copying"}
        /\ key \in Has(entries) \ staged
    BY DEF TypeOK, FilesOK, ControlOK, Shape, Running, InBatch, StageNew, StageOld, First, Unstaged
  <1>1. TypeOK'
    <2>1. entries[key] \in Values \cup {None} /\ live[key] \in Values \cup {None}
          /\ existed[key] \in Values \cup {None}
      BY DEF TypeOK, FilesOK, ControlOK, Files
    <2>2. FilesOK'
      <3>1. new' \in [Batches -> Files] /\ old' \in [Batches -> Files] /\ existed' \in Files
        <4>1. CASE StageNew(key)
          BY <1>0, <2>1, <4>1 DEF TypeOK, FilesOK, Files, StageNew
        <4>2. CASE StageOld(key)
          BY <1>0, <2>1, <4>2 DEF TypeOK, FilesOK, Files, StageOld
        <4> QED
          BY <4>1, <4>2
      <3>2. \A b \in Batches \ {dir} : new'[b] = new[b] /\ old'[b] = old[b]
        BY <1>0 DEF TypeOK, FilesOK, StageNew, StageOld
      <3>3. UNCHANGED <<live, before, settled, entries, there>>
        BY DEF StageNew, StageOld
      <3> QED
        BY <1>0, <3>1, <3>2, <3>3 DEF TypeOK, FilesOK
    <2>3. ControlOK'
      BY <1>0 DEF TypeOK, ControlOK, StageNew, StageOld
    <2> QED
      BY <2>2, <2>3 DEF TypeOK
  <1>2. \A b \in Batches \ {dir} : old'[b] = old[b]
    BY <1>0 DEF StageNew, StageOld, TypeOK, FilesOK, ControlOK
  <1>3. Running'
    BY <1>0, <1>2 DEF Running, InBatch, Shape, Kept, Has, StageNew, StageOld, TypeOK, FilesOK, ControlOK
  <1>4. placed = {}
    BY <1>0 DEF Shape, Staging
  <1>5. live[key] = before[key]
    BY <1>0, <1>4 DEF Shape, Staging
  <1>6. Staging'
    <2>1. existed' \in Files /\ new \in [Batches -> Files] /\ old \in [Batches -> Files]
      BY <1>1 DEF TypeOK, FilesOK
    <2>2. \A k \in Keys \ {key} : /\ existed'[k] = existed[k]
                                  /\ new'[dir][k] = new[dir][k] /\ old'[dir][k] = old[dir][k]
      BY <1>0, <2>1 DEF StageNew, StageOld, Files
    <2>3. staged \subseteq Keys \ {key} /\ staged \subseteq Has(entries)
      BY <1>0 DEF TypeOK, ControlOK, Shape, Staging
    <2>4. CASE StageNew(key)
      BY <1>0, <1>4, <1>5, <2>1, <2>2, <2>3, <2>4 DEF StageNew, Staging, Shape, CopyOf, TypeOK, FilesOK, Files
    <2>5. CASE StageOld(key)
      BY <1>0, <1>4, <2>1, <2>2, <2>3, <2>5 DEF StageOld, Staging, Copying, Shape, CopyOf, TypeOK, FilesOK, Files
    <2> QED
      BY <2>4, <2>5
  <1>7. Copying'
    <2>1. ASSUME NEW k \in Keys, StageNew(key), pc' = "copying", First(k, Unstaged)'
          PROVE  k = key
      BY <2>1, BatchAssumption DEF StageNew, First, Unstaged, Has
    <2> QED
      BY <1>0, <1>5, <2>1 DEF Copying, StageNew, StageOld, TypeOK, FilesOK, ControlOK, Files
  <1>8. Shape'
    BY <1>0, <1>3, <1>6, <1>7 DEF Shape, Making, Undoing, Removing, Restoring, StageNew, StageOld
  <1>9. pc' \in {"staging", "copying"} /\ InBatch'
    BY <1>0 DEF StageNew, StageOld, InBatch
  <1>10. NothingIsLost'
    BY <1>1, <1>8, <1>9, RunningLosesNothing, PTL
  <1> QED
    BY <1>1, <1>8, <1>9, <1>10 DEF BatchAnswers, RestoreAnswers

\* A file takes its live name; the last one is the batch's answer.
LEMMA CommitKeepsInv ==
  ASSUME BatchInv, NEW key \in Keys, Commit(key)
  PROVE  BatchInv'
  <1> USE DEF BatchInv, Commit
  <1>0. /\ dir \in Batches /\ dir \in there /\ pc = "staging" /\ staged = Has(entries)
        /\ key \in Has(entries) \ placed /\ new[dir][key] = entries[key]
        /\ placed \subseteq Has(entries) /\ retained = {}
    BY DEF TypeOK, FilesOK, ControlOK, Shape, Running, InBatch, Staging, First, AllStaged, Unstaged
  <1>1. TypeOK'
    <2>1. new' \in [Batches -> Files] /\ live' \in Files /\ Over(entries, settled) \in Files
      BY <1>0 DEF TypeOK, FilesOK, Files, Over
    <2>2. \A b \in Batches \ {dir} : new'[b] = new[b]
      BY <1>0 DEF TypeOK, FilesOK
    <2>3. FilesOK'
      BY <1>0, <2>1, <2>2 DEF TypeOK, FilesOK
    <2>4. ControlOK'
      BY <1>0 DEF TypeOK, ControlOK
    <2> QED
      BY <2>3, <2>4 DEF TypeOK
  <1>2. /\ \A k \in Keys \ {key} : live'[k] = live[k] /\ new'[dir][k] = new[dir][k]
        /\ live'[key] = entries[key]
    BY <1>0 DEF TypeOK, FilesOK, Files
  <1>3. CASE placed' = Has(entries)
    <2>1. live' = Over(entries, before)
      <3>1. live' \in Files /\ Over(entries, before) \in Files
        BY <1>1 DEF TypeOK, FilesOK, Files, Over
      <3>2. ASSUME NEW k \in Keys
            PROVE  live'[k] = Over(entries, before)[k]
        BY <1>0, <1>2, <1>3 DEF Shape, Staging, Over, Has
      <3> QED
        BY <3>1, <3>2 DEF Files
    <2>2. Kept(live, there \ {dir})'
      <3> SUFFICES ASSUME NEW k \in Has(settled')
                   PROVE  live'[k] = settled'[k] \/ \E b \in there \ {dir} : old[b][k] = settled'[k]
        BY DEF Kept
      <3>1. k \in Keys /\ settled'[k] = Over(entries, settled)[k]
        BY <1>3 DEF Has
      <3>2. CASE k \in Has(entries)
        BY <2>1, <3>1, <3>2 DEF Over, Has
      <3>3. CASE k \notin Has(entries)
        <4>1. settled'[k] = settled[k] /\ live'[k] = before[k] /\ k \in Has(settled)
          BY <2>1, <3>1, <3>3 DEF Over, Has
        <4> QED
          BY <1>0, <4>1 DEF Shape, Running, InBatch, Kept
      <3> QED
        BY <3>2, <3>3
    <2>3. Removing'
      BY <1>0, <1>3, <2>1, <2>2 DEF Removing
    <2>4. Shape'
      BY <1>3, <2>3 DEF Shape, Making, Running, InBatch, Staging, Copying, Undoing, Restoring
    <2>5. NothingIsLost'
      BY <2>2 DEF Kept, NothingIsLost
    <2> QED
      BY <1>1, <1>3, <2>4, <2>5 DEF BatchAnswers, RestoreAnswers
  <1>4. CASE placed' # Has(entries)
    <2>1. Running'
      BY <1>0, <1>4 DEF Shape, Running, InBatch, Kept, Has
    <2>2. Staging'
      BY <1>0, <1>2, <1>4 DEF Shape, Staging, CopyOf, Has
    <2>3. Shape'
      BY <1>0, <1>4, <2>1, <2>2 DEF Shape, Making, Copying, Undoing, Removing, Restoring
    <2>4. InBatch'
      BY <1>0, <1>4 DEF InBatch
    <2>5. NothingIsLost'
      BY <1>1, <2>3, <2>4, RunningLosesNothing, PTL
    <2> QED
      BY <1>0, <1>1, <1>4, <2>3, <2>5 DEF BatchAnswers, RestoreAnswers
  <1> QED
    BY <1>3, <1>4

\* A step of the batch fails: what is placed is put back, or nothing is placed yet.
LEMMA FailKeepsInv ==
  ASSUME BatchInv, FailStaging \/ FailCommit
  PROVE  BatchInv'
  <1> USE DEF BatchInv, FailStaging, FailCommit
  <1>1. TypeOK'
    BY DEF TypeOK, FilesOK, ControlOK
  <1>2. NothingIsLost'
    BY DEF NothingIsLost, Has
  <1>3. dir \in there /\ Kept(before, there \ {dir})
    BY DEF Shape, Running, InBatch, AllStaged
  <1>4. ASSUME FailStaging PROVE live = before /\ placed = {}
    <2>1. placed = {}
      BY <1>4 DEF Shape, Staging, Unstaged
    <2>2. \A k \in Keys : live[k] = before[k]
      BY <1>4, <2>1 DEF Shape, Staging
    <2> QED
      BY <2>1, <2>2 DEF TypeOK, FilesOK, Files
  <1>5. Removing'
    BY <1>3, <1>4 DEF Removing, Kept, Has
  <1>6. Running'
    BY <1>3 DEF Running, InBatch, Kept, Has
  <1>7. Undoing'
    <2> SUFFICES ASSUME FailCommit PROVE Undoing'
      BY DEF Undoing
    <2>1. \A k \in placed : existed[k] = before[k] /\ Replaced(k)
      BY DEF Shape, Staging, AllStaged, Replaced
    <2>2. \A k \in Keys \ placed : live[k] = before[k]
      BY DEF Shape, Staging, AllStaged
    <2> QED
      BY <2>1, <2>2 DEF Undoing, Replaced, CopyOf, Has
  <1>8. Shape'
    BY <1>5, <1>6, <1>7 DEF Shape, Making, Staging, Copying, Restoring
  <1> QED
    BY <1>1, <1>2, <1>8 DEF BatchAnswers, RestoreAnswers

\* A file is put back, the batch's own is removed, or neither can be done.
LEMMA UndoKeepsInv ==
  ASSUME BatchInv, NEW key \in Keys, Undo(key) \/ UndoFails(key)
  PROVE  BatchInv'
  <1> USE DEF BatchInv
  <1>0. /\ pc = "undoing" /\ key \in placed /\ dir \in Batches /\ dir \in there
        /\ answer = "failed" /\ existed[key] = before[key] /\ Replaced(key)
        /\ placed' = placed \ {key} /\ key \notin placed'
    BY DEF Undo, UndoFails, Last, TypeOK, FilesOK, Shape, Running, InBatch, Undoing
  <1>1. /\ live' \in Files /\ old' \in [Batches -> Files]
        /\ \A b \in Batches \ {dir} : old'[b] = old[b]
        /\ \A k \in Keys \ {key} : live'[k] = live[k] /\ old'[dir][k] = old[dir][k]
    <2>1. CASE Undo(key)
      <3>1. CASE existed[key] # None
        <4>1. live' = [live EXCEPT ![key] = old[dir][key]] /\ old' = [old EXCEPT ![dir][key] = None]
          BY <2>1, <3>1 DEF Undo
        <4>2. old \in [Batches -> Files] /\ live \in Files /\ old[dir][key] \in Values \cup {None}
          BY <1>0 DEF TypeOK, FilesOK, Files
        <4>3. live' \in Files /\ \A k \in Keys \ {key} : live'[k] = live[k]
          BY <4>1, <4>2 DEF Files
        <4>4. old' = [old EXCEPT ![dir][key] = None] /\ old \in [Batches -> Files] /\ dir \in Batches
          BY <1>0, <4>1, <4>2
        <4>5. old' = [old EXCEPT ![dir] = [old[dir] EXCEPT ![key] = None]]
              /\ [old[dir] EXCEPT ![key] = None] \in Files
          BY <4>4 DEF Files
        <4>6. /\ old' \in [Batches -> Files] /\ \A b \in Batches \ {dir} : old'[b] = old[b]
              /\ \A k \in Keys \ {key} : old'[dir][k] = old[dir][k]
          BY <4>4, <4>5 DEF Files
        <4> QED
          BY <4>3, <4>6
      <3>2. CASE existed[key] = None
        BY <1>0, <2>1, <3>2 DEF Undo, TypeOK, FilesOK, Files
      <3> QED
        BY <3>1, <3>2
    <2>2. CASE UndoFails(key)
      BY <2>2 DEF UndoFails, TypeOK, FilesOK
    <2> QED
      BY <2>1, <2>2
  <1>2. TypeOK'
    <2>1. FilesOK'
      BY <1>0, <1>1 DEF Undo, UndoFails, TypeOK, FilesOK
    <2>2. ControlOK'
      BY <1>0 DEF Undo, UndoFails, TypeOK, ControlOK
    <2> QED
      BY <2>1, <2>2 DEF TypeOK
  <1>3. Running'
    BY <1>0, <1>1 DEF Undo, UndoFails, Shape, Running, InBatch, Kept, Has, TypeOK, FilesOK
  <1>4. Undoing'
    <2>1. \A k \in placed' : existed'[k] = before'[k] /\ Replaced(k)'
      BY <1>0, <1>1 DEF Undo, UndoFails, Shape, Undoing, Replaced, CopyOf, Has, TypeOK, ControlOK
    <2>2. \A k \in Keys \ placed : k # key => live'[k] = before'[k] \/ (k \in retained' /\ Replaced(k)')
      BY <1>0, <1>1 DEF Undo, UndoFails, Shape, Undoing, Replaced, CopyOf, Has
    <2>3. live'[key] = before'[key] \/ (key \in retained' /\ Replaced(key)')
      <3>1. CASE Undo(key)
        BY <1>0, <3>1 DEF Undo, Replaced, CopyOf, TypeOK, FilesOK, Files
      <3>2. CASE UndoFails(key)
        BY <1>0, <3>2 DEF UndoFails, Replaced, CopyOf, Has
      <3> QED
        BY <3>1, <3>2
    <2> QED
      BY <1>0, <2>1, <2>2, <2>3 DEF Undo, UndoFails, Undoing
  <1>5. Shape'
    BY <1>0, <1>3, <1>4 DEF Undo, UndoFails, Shape, Making, Staging, Copying, Removing, Restoring
  <1>6. InBatch' /\ pc' = "undoing"
    BY <1>0 DEF Undo, UndoFails, InBatch
  <1>7. NothingIsLost'
    BY <1>2, <1>5, <1>6, RunningLosesNothing, PTL
  <1> QED
    BY <1>2, <1>5, <1>6, <1>7 DEF BatchAnswers, RestoreAnswers

LEMMA EndUndoKeepsInv ==
  ASSUME BatchInv, EndUndo
  PROVE  BatchInv'
  <1> USE DEF BatchInv, EndUndo, Answered
  <1>0. /\ dir \in there /\ Kept(before, there \ {dir}) /\ answer = "failed"
        /\ \A k \in Keys : live[k] = before[k] \/ (k \in retained /\ Replaced(k))
    BY DEF Shape, Running, InBatch, Undoing
  <1>1. TypeOK'
    BY <1>0 DEF TypeOK, FilesOK, ControlOK
  <1>2. NothingIsLost'
    BY DEF NothingIsLost, Has
  <1>3. ASSUME retained = {} PROVE live = before
    BY <1>0, <1>3 DEF TypeOK, FilesOK, Files
  <1>4. Removing'
    BY <1>0, <1>3 DEF Removing, Kept, Has
  <1>5. Shape'
    BY <1>4 DEF Shape, Making, Running, InBatch, Staging, Copying, Undoing, Restoring
  <1>6. BatchAnswers'
    BY <1>0 DEF BatchAnswers, Replaced, CopyOf
  <1> QED
    BY <1>0, <1>1, <1>2, <1>5, <1>6 DEF RestoreAnswers

\* Removing the batch's directory takes no last copy.
LEMMA RemoveKeepsInv ==
  ASSUME BatchInv, (\E key \in Keys : RemoveFile(key)) \/ EndRemove
  PROVE  BatchInv'
  <1> USE DEF BatchInv
  <1>0. pc = "removing" /\ dir \in Batches /\ dir \in there /\ Removing
    BY DEF RemoveFile, EndRemove, TypeOK, FilesOK, Shape, Removing
  <1>1. ASSUME NEW key \in Keys, RemoveFile(key)
        PROVE  BatchInv'
    <2>1. /\ new' \in [Batches -> Files] /\ old' \in [Batches -> Files]
          /\ \A b \in Batches \ {dir} : new'[b] = new[b] /\ old'[b] = old[b]
      <3>1. new \in [Batches -> Files] /\ old \in [Batches -> Files]
        BY DEF TypeOK, FilesOK
      <3>2. \/ new' = [new EXCEPT ![dir][key] = None] /\ old' = old
            \/ old' = [old EXCEPT ![dir][key] = None] /\ new' = new
        BY <1>1 DEF RemoveFile
      <3>3. CASE new' = [new EXCEPT ![dir][key] = None] /\ old' = old
        BY <1>0, <3>1, <3>3, OneFileGoes
      <3>4. CASE old' = [old EXCEPT ![dir][key] = None] /\ new' = new
        BY <1>0, <3>1, <3>4, OneFileGoes
      <3> QED
        BY <3>2, <3>3, <3>4
    <2>2. UNCHANGED <<live, before, settled, entries, existed, there, dir, pc, staged, placed, retained, answer, ops>>
      BY <1>1 DEF RemoveFile, operation
    <2>3. TypeOK'
      <3>1. FilesOK'
        BY <1>0, <2>1, <2>2 DEF TypeOK, FilesOK
      <3>2. ControlOK'
        BY <2>2 DEF TypeOK, ControlOK
      <3> QED
        BY <3>1, <3>2 DEF TypeOK
    <2>4. Kept(live, there \ {dir})'
      BY <1>0, <2>1, <2>2 DEF Removing, Kept, Has, TypeOK, FilesOK
    <2>5. Shape'
      BY <1>0, <2>2, <2>4 DEF Shape, Making, Running, InBatch, Staging, Copying, Undoing, Removing, Restoring
    <2>6. NothingIsLost'
      BY <2>4 DEF Kept, NothingIsLost
    <2> QED
      BY <1>0, <2>2, <2>3, <2>5, <2>6 DEF BatchAnswers, RestoreAnswers
  <1>2. CASE EndRemove
    <2>1. TypeOK'
      <3>1. ASSUME there' # there PROVE new[dir] = NoFiles /\ old[dir] = NoFiles
        BY <1>0, <1>2, <3>1 DEF EndRemove, TypeOK, FilesOK, Files, NoFiles, Has
      <3>2. there' \subseteq there /\ there \ {dir} \subseteq there'
        BY <1>2 DEF EndRemove
      <3>3. FilesOK'
        BY <1>2, <3>1, <3>2 DEF EndRemove, TypeOK, FilesOK
      <3>4. ControlOK'
        BY <1>2 DEF EndRemove, TypeOK, ControlOK
      <3> QED
        BY <3>3, <3>4 DEF TypeOK
    <2>2. NothingIsLost'
      BY <1>0, <1>2 DEF EndRemove, Removing, Kept, NothingIsLost, Has
    <2>3. Shape'
      BY <1>2 DEF EndRemove, Shape, Making, Running, InBatch, Staging, Copying, Undoing, Removing, Restoring
    <2>4. BatchAnswers'
      BY <1>0, <1>2 DEF EndRemove, Removing, BatchAnswers, Over
    <2> QED
      BY <1>0, <1>2, <2>1, <2>2, <2>3, <2>4 DEF EndRemove, Removing, RestoreAnswers
  <1> QED
    BY <1>1, <1>2

\* A restore writes its entries, and what it writes is what is asked for.
LEMMA WriteKeepsInv ==
  ASSUME BatchInv, (\E key \in Keys : WriteEntry(key)) \/ BeginPrune
  PROVE  BatchInv'
  <1> USE DEF BatchInv
  <1>1. ASSUME NEW key \in Keys, WriteEntry(key)
        PROVE  BatchInv'
    <2>0. pc = "writing" /\ key \in Has(entries) \ placed /\ Restoring /\ entries[key] \in Values \cup {None}
      BY <1>1 DEF WriteEntry, First, Shape, TypeOK, FilesOK, Files
    <2>1. /\ live' \in Files /\ settled' \in Files
          /\ live'[key] = entries[key] /\ settled'[key] = entries[key]
          /\ \A k \in Keys \ {key} : live'[k] = live[k] /\ settled'[k] = settled[k]
      BY <1>1, <2>0 DEF WriteEntry, TypeOK, FilesOK, Files
    <2>2. TypeOK'
      <3>1. FilesOK'
        BY <1>1, <2>1 DEF WriteEntry, TypeOK, FilesOK
      <3>2. ControlOK'
        BY <1>1 DEF WriteEntry, TypeOK, ControlOK
      <3> QED
        BY <3>1, <3>2 DEF TypeOK
    <2>3. NothingIsLost'
      BY <1>1, <2>1 DEF WriteEntry, NothingIsLost, Has
    <2>4. Restoring'
      BY <1>1, <2>0, <2>1 DEF WriteEntry, Restoring, Has
    <2> QED
      BY <1>1, <2>0, <2>2, <2>3, <2>4 DEF WriteEntry, Shape, Making, Running, InBatch, Staging, Copying,
           Undoing, Removing, BatchAnswers, RestoreAnswers
  <1>2. CASE BeginPrune
    <2>1. TypeOK'
      BY <1>2 DEF BeginPrune, TypeOK, FilesOK, ControlOK
    <2>2. \A k \in Has(entries) : live[k] = entries[k]
      BY <1>2 DEF BeginPrune, Shape, Restoring
    <2>3. NothingIsLost'
      BY <1>2, <2>2 DEF BeginPrune, NothingIsLost, Has
    <2> QED
      BY <1>2, <2>1, <2>2, <2>3 DEF BeginPrune, Shape, Restoring, Making, Running, InBatch, Staging, Copying,
           Undoing, Removing, Has, BatchAnswers, RestoreAnswers
  <1> QED
    BY <1>1, <1>2

\* What a restore prunes is nothing it was asked to write.
LEMMA PruneKeepsInv ==
  ASSUME BatchInv,
         (\E key \in Keys : PruneSave(key)) \/ (\E b \in Batches, key \in Keys : PruneRecovery(b, key)) \/ EndPrune
  PROVE  BatchInv'
  <1> USE DEF BatchInv
  <1>0. /\ pc = "pruning" /\ placed = Has(entries) /\ settled = entries
        /\ \A k \in placed : live[k] = entries[k]
    BY DEF PruneSave, PruneRecovery, EndPrune, Shape, Restoring
  <1>1. ASSUME NEW key \in Keys, PruneSave(key)
        PROVE  BatchInv'
    <2>1. live' \in Files /\ \A k \in placed : live'[k] = entries[k]
      BY <1>0, <1>1 DEF PruneSave, TypeOK, FilesOK, Files
    <2>2. UNCHANGED <<there, new, old, pc, entries, dir, existed, staged, placed, retained, answer, before, settled, ops>>
      BY <1>1 DEF PruneSave, operation
    <2>3. TypeOK'
      BY <2>1, <2>2 DEF TypeOK, FilesOK, ControlOK
    <2>4. NothingIsLost'
      BY <1>0, <2>1, <2>2 DEF NothingIsLost, Has
    <2> QED
      BY <1>0, <2>1, <2>2, <2>3, <2>4 DEF Shape, Restoring, Making, Running, InBatch, Staging, Copying,
           Undoing, Removing, Has, BatchAnswers, RestoreAnswers
  <1>2. ASSUME NEW b \in Batches, NEW key \in Keys, PruneRecovery(b, key)
        PROVE  BatchInv'
    <2>1. UNCHANGED <<live, there, pc, entries, dir, existed, staged, placed, retained, answer, before, settled, ops>>
      BY <1>2 DEF PruneRecovery, operation
    <2>2. TypeOK'
      <3>1. new \in [Batches -> Files] /\ old \in [Batches -> Files]
        BY DEF TypeOK, FilesOK
      <3>2. \/ new' = [new EXCEPT ![b][key] = None] /\ old' = old
            \/ old' = [old EXCEPT ![b][key] = None] /\ new' = new
        BY <1>2 DEF PruneRecovery
      <3>3. /\ new' \in [Batches -> Files] /\ old' \in [Batches -> Files]
            /\ \A c \in Batches \ {b} : new'[c] = new[c] /\ old'[c] = old[c]
        <4>1. CASE new' = [new EXCEPT ![b][key] = None] /\ old' = old
          BY <3>1, <4>1, OneFileGoes
        <4>2. CASE old' = [old EXCEPT ![b][key] = None] /\ new' = new
          BY <3>1, <4>2, OneFileGoes
        <4> QED
          BY <3>2, <4>1, <4>2
      <3>4. b \in there
        BY <1>2 DEF PruneRecovery, TypeOK, FilesOK, NoFiles
      <3>5. FilesOK'
        BY <2>1, <3>3, <3>4 DEF TypeOK, FilesOK
      <3>6. ControlOK'
        BY <2>1 DEF TypeOK, ControlOK
      <3> QED
        BY <3>5, <3>6 DEF TypeOK
    <2>3. NothingIsLost'
      BY <1>0, <2>1 DEF NothingIsLost, Has
    <2> QED
      BY <1>0, <2>1, <2>2, <2>3 DEF Shape, Restoring, Making, Running, InBatch, Staging, Copying,
           Undoing, Removing, Has, BatchAnswers, RestoreAnswers
  <1>3. CASE EndPrune
    <2> USE <1>3 DEF EndPrune, Answered
    <2>1. \A b \in Batches : new[b] = NoFiles /\ old[b] = NoFiles
      BY DEF Recovery, Has, TypeOK, FilesOK, Files, NoFiles
    <2>2. live = entries
      <3>1. \A k \in Keys : live[k] = entries[k]
        BY <1>0 DEF Has
      <3> QED
        BY <3>1 DEF TypeOK, FilesOK, Files
    <2>3. TypeOK'
      BY <2>1 DEF TypeOK, FilesOK, ControlOK
    <2>4. NothingIsLost'
      BY <1>0, <2>2 DEF NothingIsLost
    <2>5. RestoreAnswers'
      BY <2>2 DEF RestoreAnswers, Recovery, Has
    <2> QED
      BY <2>3, <2>4, <2>5 DEF Shape, Restoring, Making, Running, InBatch, Staging, Copying,
           Undoing, Removing, BatchAnswers
  <1> QED
    BY <1>1, <1>2, <1>3

-----------------------------------------------------------------------------
LEMMA NextKeepsInv == BatchInv /\ [Next]_vars => BatchInv'
  <1> SUFFICES ASSUME BatchInv, [Next]_vars PROVE BatchInv'
    OBVIOUS
  <1>1. ASSUME NEW k \in Keys, NEW v \in Values, StoreOne(k, v) PROVE BatchInv'
    BY <1>1, StoreOneKeepsInv
  <1>2. CASE BatchStep
    BY <1>2, BeginKeepsInv, StopKeepsInv, MakeDirectoryKeepsInv, StageKeepsInv, CommitKeepsInv, FailKeepsInv,
       UndoKeepsInv, EndUndoKeepsInv, RemoveKeepsInv DEF BatchStep
  <1>3. CASE RestoreStep
    BY <1>3, BeginKeepsInv, StopKeepsInv, WriteKeepsInv, PruneKeepsInv DEF RestoreStep
  <1>4. CASE Stop
    BY <1>4, StopKeepsInv
  <1>5. CASE UNCHANGED vars
    BY <1>5 DEF vars, operation, BatchInv, TypeOK, FilesOK, ControlOK, Shape, Making, Running, InBatch, Staging,
         Copying, Undoing, Removing, Restoring, Kept, CopyOf, Replaced, First, Unstaged, Has, Over, Recovery,
         NothingIsLost, BatchAnswers, RestoreAnswers
  <1> QED
    BY <1>1, <1>2, <1>3, <1>4, <1>5 DEF Next

LEMMA AlwaysBatchInv == Spec => []BatchInv
  BY InitBatchInv, NextKeepsInv, PTL DEF Spec

\* A save whose replacement was not answered as stored is live or kept, wherever
\* the process stopped and whatever failed (NothingIsLost).
THEOREM SavesAreKept == Spec => []NothingIsLost
  BY AlwaysBatchInv, PTL DEF BatchInv

\* A batch that failed changed nothing, one that answered has placed everything,
\* and one that could not put a file back keeps what it held; a finished restore is
\* exactly its backup, and a failed one has only whole files (AnswersAreTrue).
THEOREM OperationsAnswerTruly == Spec => []AnswersAreTrue
  <1>1. BatchInv => AnswersAreTrue
    BY DEF BatchInv, AnswersAreTrue
  <1> QED
    BY <1>1, AlwaysBatchInv, PTL

\* What a step that takes a save must be, for a key (SavesAreTakenLast).
TakenLast(k) ==
    live'[k] = None =>
      \/ pc = "undoing" /\ before[k] = None
      \/ pc = "pruning" /\ live = Over(entries, live) /\ entries[k] = None

LEMMA StepsTakeLast ==
  ASSUME BatchInv, [Next]_vars, NEW k \in Has(live)
  PROVE  TakenLast(k)
  <1>0. k \in Keys /\ live[k] # None /\ live \in Files
    BY DEF Has, BatchInv, TypeOK, FilesOK
  <1>1. CASE live' = live
    BY <1>0, <1>1 DEF TakenLast
  <1>2. ASSUME NEW key \in Keys, NEW v \in Values, StoreOne(key, v) PROVE TakenLast(k)
    BY <1>0, <1>2, BatchAssumption DEF StoreOne, Files, TakenLast
  <1>3. ASSUME NEW key \in Keys, Commit(key) PROVE TakenLast(k)
    <2>1. key \in Has(entries) /\ live' = [live EXCEPT ![key] = entries[key]]
      BY <1>3 DEF Commit, AllStaged, Unstaged, First, BatchInv, TypeOK, ControlOK, Shape, Staging
    <2> QED
      BY <1>0, <2>1 DEF Files, Has, TakenLast
  <1>4. ASSUME NEW key \in Keys, Undo(key) PROVE TakenLast(k)
    <2>1. pc = "undoing" /\ key \in placed /\ existed[key] = before[key] /\ CopyOf(key)
      BY <1>4 DEF Undo, Last, BatchInv, Shape, Undoing, Replaced
    <2> QED
      BY <1>0, <1>4, <2>1 DEF Undo, CopyOf, Files, TakenLast
  <1>5. ASSUME NEW key \in Keys, WriteEntry(key) PROVE TakenLast(k)
    BY <1>0, <1>5 DEF WriteEntry, First, Has, Files, TakenLast
  <1>6. ASSUME NEW key \in Keys, PruneSave(key) PROVE TakenLast(k)
    <2>1. pc = "pruning" /\ placed = Has(entries) /\ \A j \in placed : live[j] = entries[j]
      BY <1>6 DEF PruneSave, BatchInv, Shape, Restoring
    <2>2. live = Over(entries, live)
      BY <1>0, <2>1 DEF Over, Has, Files
    <2> QED
      BY <1>0, <1>6, <2>1, <2>2 DEF PruneSave, Has, Files, TakenLast
  <1> QED
    BY <1>1, <1>2, <1>3, <1>4, <1>5, <1>6
       DEF Next, BatchStep, RestoreStep, vars, BeginBatch, BeginRestore, Begin, MakeDirectory, FailToMake, StageNew,
           StageOld, FailStaging, FailCommit, UndoFails, EndUndo, RemoveFile, EndRemove, FailWrite, BeginPrune,
           PruneRecovery, EndPrune, FailPrune, Stop

\* A save goes only with the batch that made it, or once every entry of a restore
\* is written (SavesAreTakenLast).
THEOREM SavesGoLast == Spec => SavesAreTakenLast
  <1>1. BatchInv /\ [Next]_vars => \A k \in Has(live) : TakenLast(k)
    <2> SUFFICES ASSUME BatchInv, [Next]_vars, NEW k \in Has(live) PROVE TakenLast(k)
      OBVIOUS
    <2> QED
      BY StepsTakeLast
  <1>2. BatchInv /\ [Next]_vars => [\A k \in Has(live) : TakenLast(k)]_vars
    BY <1>1
  <1> QED
    BY <1>2, AlwaysBatchInv, PTL DEF Spec, SavesAreTakenLast, TakenLast
=============================================================================

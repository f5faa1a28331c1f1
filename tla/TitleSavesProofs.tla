--------------------------- MODULE TitleSavesProofs ---------------------------
(***************************************************************************)
(* What a title has saved is kept: in the files of a KTF title of an earlier*)
(* build, and in the record stores of an SKT title.                         *)
(***************************************************************************)
EXTENDS NativeFiles, RecordStore, SequenceTheorems, TLAPS

-----------------------------------------------------------------------------
(***************************************************************************)
(* For any files, objects and contents: what a file of an earlier KTF title *)
(* holds changes by the title's calls alone.                                *)
(*                                                                         *)
(* The session's own copy and the store agree but for what is pending; an   *)
(* object agrees with its file, one that emptied it at least as far as it   *)
(* goes; and a quick save names only files that are in the store, so that a *)
(* load, which stores what is pending first, finds what the title wrote.    *)
(***************************************************************************)
\* What the title wrote is on its way to the store, or there.
Tracked ==
    \A k \in Keys :
        /\ k \in unsaved \cup refused => written[k] # Absent
        /\ written[k] # Absent /\ k \notin unsaved \cup refused => store[k] = written[k]

\* One object of a file at a time, open or kept by a quick save.
Alone ==
    \A o, p \in Objects :
        /\ files[o] # Absent /\ files[p] # Absent /\ files[o].key = files[p].key => o = p
        /\ slot # Absent =>
            (slot[o] # Absent /\ slot[p] # Absent /\ slot[o].key = slot[p].key => o = p)

Begins(s, t) == Len(s) <= Len(t) /\ \A i \in 1..Len(s) : s[i] = t[i]

\* An object holds what its file does; one whose open emptied it holds the
\* beginning, for a load may find more in the store than it had written.
Agrees(f, whole) ==
    /\ whole # Absent
    /\ IF f.truncated THEN Begins(f.data, whole) ELSE f.data = whole

FilesMatch == \A o \in Objects : files[o] # Absent => Agrees(files[o], Contents(files[o].key))

\* A quick save's files are in the store.
SlotIsStored ==
    slot # Absent => \A o \in Objects : slot[o] # Absent => Stored(store, slot[o].key) # Absent

\* Between two sessions there is only the store.
Dormant == ~running => files = NoFiles /\ written = Unwritten /\ unsaved = {} /\ refused = {}

FilesInv == FilesTypeOK /\ Tracked /\ Alone /\ FilesMatch /\ SlotIsStored /\ Dormant

-----------------------------------------------------------------------------
(***************************************************************************)
(* Sequences of cells.                                                     *)
(***************************************************************************)
Values == Bytes \cup {Zero} \cup Shipped

LEMMA CellsAre ==
    ASSUME NativeFilesAssumption, NEW s \in Cells
    PROVE  s \in Seq(Values) /\ Len(s) \in 0..MaxCells /\ DOMAIN s = 1..Len(s)
  <1>1. PICK n \in 0..MaxCells : s \in [1..n -> Values]
    BY DEF Cells, Values
  <1>2. n \in Nat
    BY <1>1 DEF NativeFilesAssumption
  <1>3. s \in Seq(Values) /\ Len(s) = n
    BY <1>1, <1>2
  <1>4. QED
    BY <1>1, <1>3

LEMMA AreCells ==
    ASSUME NativeFilesAssumption, NEW s \in Seq(Values), Len(s) <= MaxCells
    PROVE  s \in Cells
  <1>1. Len(s) \in 0..MaxCells /\ s \in [1..Len(s) -> Values]
    BY LenProperties DEF NativeFilesAssumption
  <1>2. QED
    BY <1>1 DEF Cells, Values

LEMMA NoCells ==
    ASSUME NativeFilesAssumption
    PROVE  <<>> \in Cells /\ Len(<<>>) = 0
  <1>1. <<>> \in Seq(Values) /\ Len(<<>>) = 0
    BY EmptySeq
  <1>2. 0 <= MaxCells
    BY DEF NativeFilesAssumption
  <1>3. QED
    BY <1>1, <1>2, AreCells

\* A cell is filled, and the rest stays; a gap is filled with zeros.
LEMMA WritesOneCell ==
    ASSUME NativeFilesAssumption, NEW s \in Cells, NEW p \in Nat, p < MaxCells, NEW d \in Bytes
    PROVE  /\ WriteCell(s, p, d) \in Cells
           /\ Len(WriteCell(s, p, d)) = IF p < Len(s) THEN Len(s) ELSE p + 1
           /\ \A i \in 1..Len(WriteCell(s, p, d)) : i # p + 1 =>
                  WriteCell(s, p, d)[i] = IF i <= Len(s) THEN s[i] ELSE Zero
  <1> DEFINE n == IF p < Len(s) THEN Len(s) ELSE p + 1
             w == [i \in 1..n |-> IF i = p + 1 THEN d ELSE IF i <= Len(s) THEN s[i] ELSE Zero]
  <1>1. s \in Seq(Values) /\ Len(s) \in Nat /\ Len(s) <= MaxCells
    BY CellsAre DEF NativeFilesAssumption
  <1>2. n \in Nat /\ n <= MaxCells
    BY <1>1 DEF NativeFilesAssumption
  <1>3. \A i \in 1..n : w[i] \in Values
    BY <1>1, <1>2, ElementOfSeq DEF Values
  <1>4. w \in [1..n -> Values]
    BY <1>3
  <1>5. w \in Seq(Values) /\ Len(w) = n
    BY <1>2, <1>4
  <1>6. w \in Cells
    BY <1>2, <1>5, AreCells
  <1>7. WriteCell(s, p, d) = w
    BY DEF WriteCell
  <1>8. QED
    BY <1>2, <1>5, <1>6, <1>7

LEMMA CutsCells ==
    ASSUME NativeFilesAssumption, NEW s \in Cells, NEW n \in Nat, Len(s) > n
    PROVE  SubSeq(s, 1, n) \in Cells /\ Begins(SubSeq(s, 1, n), s)
  <1>1. s \in Seq(Values) /\ Len(s) \in Nat /\ Len(s) <= MaxCells /\ MaxCells \in Nat
    BY CellsAre DEF NativeFilesAssumption
  <1>2. \A i \in 1..n : i \in 1..Len(s) /\ s[i] \in Values
    BY <1>1, ElementOfSeq
  <1>3. /\ SubSeq(s, 1, n) \in Seq(Values) /\ Len(SubSeq(s, 1, n)) = n
        /\ \A i \in 1..n : SubSeq(s, 1, n)[i] = s[i]
    BY <1>1, <1>2, SubSeqProperties
  <1>4. SubSeq(s, 1, n) \in Cells
    <2> DEFINE q == SubSeq(s, 1, n)
    <2>1. q \in Seq(Values) /\ Len(q) <= MaxCells
      BY <1>1, <1>3
    <2> HIDE DEF q
    <2>2. q \in Cells
      BY <2>1, AreCells
    <2>3. QED
      BY <2>2 DEF q
  <1>5. QED
    BY <1>1, <1>3, <1>4 DEF Begins

LEMMA BeginsItself ==
    ASSUME NativeFilesAssumption, NEW s \in Cells
    PROVE  Begins(s, s)
  BY CellsAre DEF Begins, NativeFilesAssumption

-----------------------------------------------------------------------------
(***************************************************************************)
(* What a lookup finds.                                                    *)
(***************************************************************************)
LEMMA LookupsFind ==
    ASSUME NativeFilesAssumption, NEW saves \in [Keys -> Cells \cup {Absent}], NEW k \in Keys
    PROVE  Stored(saves, k) \in Cells \cup {Absent}
  BY DEF Stored, NativeFilesAssumption

\* Storing what is pending, or some of it, hides nothing.
LEMMA StoringKeeps ==
    ASSUME NativeFilesAssumption, FilesTypeOK, Tracked, NEW S \in SUBSET (unsaved \cup refused),
           store' = Taken(S, store, written)
    PROVE  /\ store' \in [Keys -> Cells \cup {Absent}]
           /\ \A k \in Keys : store'[k] = IF k \in S THEN written[k] ELSE store[k]
           /\ \A k \in Keys : Stored(store, k) # Absent => Stored(store', k) # Absent
           /\ UNCHANGED written => \A k \in Keys : Contents(k)' = Contents(k)
  <1>1. \A k \in Keys : store'[k] = IF k \in S THEN written[k] ELSE store[k]
    BY DEF Taken
  <1>2. store' \in [Keys -> Cells \cup {Absent}]
    BY DEF Taken, FilesTypeOK
  <1>3. \A k \in S : k \in Keys /\ written[k] # Absent
    BY DEF Tracked, FilesTypeOK
  <1>4. QED
    BY <1>1, <1>2, <1>3 DEF Stored, Contents

\* With all of it stored the store answers what the session did.
LEMMA StoredIsWritten ==
    ASSUME NativeFilesAssumption, FilesTypeOK, Tracked, StorePending({}), NEW k \in Keys
    PROVE  Stored(store', k) = Contents(k) /\ (written[k] # Absent => store'[k] = written[k])
  <1>1. store'[k] = IF k \in unsaved \cup refused THEN written[k] ELSE store[k]
    BY StoringKeeps DEF StorePending
  <1>2. QED
    BY <1>1 DEF Stored, Contents, Tracked

-----------------------------------------------------------------------------
(***************************************************************************)
(* The title's calls.                                                      *)
(***************************************************************************)
\* What a step must keep, and what it may change.
Changes ==
    running' \/ ~running \/ CloseSession({}) =>
        \A k \in Keys : Contents(k)' = Contents(k) \/ Emptied(k) \/ \E o \in Objects : WrittenThrough(o, k)

FilesKept == FilesInv' /\ Changes

LEMMA ContentsAre ==
    ASSUME NativeFilesAssumption, FilesTypeOK, NEW k \in Keys
    PROVE  Contents(k) \in Cells \cup {Absent}
  BY LookupsFind DEF Contents, FilesTypeOK

\* An open that changes no file, and one that empties or makes one.
LEMMA OpenFoundKeeps ==
    ASSUME NativeFilesAssumption, FilesInv, NEW o \in Objects, NEW k \in Keys, NEW mode \in Modes,
           OpenFound(o, k, mode)
    PROVE  FilesKept
  <1> USE DEF FilesInv, OpenFound, MayOpen
  <1>1. Contents(k) \in Cells
    BY ContentsAre
  <1>2. Opened(k, Contents(k), mode) \in OpenFile
    BY <1>1 DEF Opened, OpenFile
  <1>3. \A l \in Keys : Contents(l)' = Contents(l)
    BY DEF Contents, Stored
  <1>4. FilesTypeOK'
    BY <1>2 DEF FilesTypeOK, unstored
  <1>5. Tracked' /\ SlotIsStored' /\ Dormant'
    BY DEF Tracked, SlotIsStored, Dormant, unstored, Stored
  <1>6. Alone'
    BY <1>2 DEF Alone, FilesTypeOK, Opened
  <1>7. FilesMatch'
    BY <1>1, <1>2, <1>3, BeginsItself DEF FilesMatch, Agrees, FilesTypeOK, OpenFile, Opened
  <1>8. QED
    BY <1>3, <1>4, <1>5, <1>6, <1>7 DEF FilesKept, Changes

\* The file becomes empty, or is made empty; an object opened for it is empty.
LEMMA EmptyOpenKeeps ==
    ASSUME NativeFilesAssumption, FilesInv, NEW o \in Objects, NEW k \in Keys, NEW mode \in Modes,
           MayOpen(o, k), files' = [files EXCEPT ![o] = Opened(k, <<>>, mode)],
           written' = [written EXCEPT ![k] = <<>>],
           store' \in {store, [store EXCEPT ![k] = <<>>]},
           unsaved' \subseteq unsaved \cup {k}, refused' \subseteq refused \cup {k},
           unsaved \ {k} \subseteq unsaved', refused \ {k} \subseteq refused',
           store'[k] = <<>> \/ k \in unsaved' \cup refused',
           UNCHANGED <<running, slot, writes>>, Contents(k) = Absent \/ mode = "truncate"
    PROVE  FilesKept
  <1> USE DEF FilesInv, MayOpen
  <1>1. <<>> \in Cells
    BY NoCells
  <1>2. Opened(k, <<>>, mode) \in OpenFile
    BY <1>1 DEF Opened, OpenFile
  <1>3. written'[k] = <<>> /\ \A l \in Keys \ {k} : written'[l] = written[l] /\ store'[l] = store[l]
    BY DEF FilesTypeOK
  <1>4. Contents(k)' = <<>> /\ \A l \in Keys \ {k} : Contents(l)' = Contents(l)
    BY <1>1, <1>3 DEF Contents, Stored, NativeFilesAssumption
  <1>5. FilesTypeOK'
    BY <1>1, <1>2 DEF FilesTypeOK
  <1>6. Tracked'
    BY <1>1, <1>3 DEF Tracked, FilesTypeOK, NativeFilesAssumption
  <1>7. SlotIsStored'
    BY <1>1 DEF SlotIsStored, FilesTypeOK, RecordedFile, Stored, NativeFilesAssumption
  <1>8. Dormant'
    BY DEF Dormant
  <1>9. Alone'
    BY <1>2 DEF Alone, FilesTypeOK, Opened
  <1>10. FilesMatch'
    <2>1. Agrees(Opened(k, <<>>, mode), <<>>)
      BY <1>1, BeginsItself DEF Agrees, Opened, NativeFilesAssumption
    <2>2. \A p \in Objects \ {o} : files'[p] = files[p] /\ (files[p] # Absent => files[p].key \in Keys \ {k})
      BY DEF FilesTypeOK, OpenFile
    <2>3. files'[o] = Opened(k, <<>>, mode) /\ files'[o].key = k
      BY DEF FilesTypeOK, Opened
    <2>4. QED
      BY <1>4, <2>1, <2>2, <2>3 DEF FilesMatch
  <1>11. Emptied(k) \/ Contents(k)' = Contents(k)
    BY <1>2, <1>4 DEF Emptied, FilesTypeOK, Opened, NativeFilesAssumption
  <1>12. QED
    BY <1>4, <1>5, <1>6, <1>7, <1>8, <1>9, <1>10, <1>11 DEF FilesKept, Changes

LEMMA CreateFileKeeps ==
    ASSUME NativeFilesAssumption, FilesInv, NEW k \in Keys, CreateFile(k)
    PROVE  FilesKept
  <1> USE DEF FilesInv, CreateFile, Keep
  <1>1. <<>> \in Cells
    BY NoCells
  <1>2. Contents(k)' = <<>> /\ \A l \in Keys \ {k} : Contents(l)' = Contents(l)
    BY <1>1 DEF Contents, Stored, FilesTypeOK, NativeFilesAssumption
  <1>3. Contents(k) \in {Absent, <<>>}
    BY DEF Leftover
  <1>4. FilesTypeOK'
    BY <1>1 DEF FilesTypeOK
  <1>5. Tracked'
    BY <1>1 DEF Tracked, FilesTypeOK, NativeFilesAssumption
  <1>6. SlotIsStored' /\ Dormant' /\ Alone'
    BY DEF SlotIsStored, Dormant, Alone, Stored
  <1>7. FilesMatch'
    <2>1. \A p \in Objects : files[p] # Absent => files[p].key \in Keys
      BY DEF FilesTypeOK, OpenFile
    <2>2. QED
      BY <1>2, <1>3, <2>1 DEF FilesMatch, Agrees
  <1>8. Changes
    BY <1>2, <1>3 DEF Changes, Emptied
  <1>9. QED
    BY <1>4, <1>5, <1>6, <1>7, <1>8 DEF FilesKept

LEMMA WriteKeeps ==
    ASSUME NativeFilesAssumption, FilesInv, NEW o \in Objects, NEW d \in Bytes, WriteFile(o, d)
    PROVE  FilesKept
  <1> DEFINE f == files[o]
             p == f.position
             data == WriteCell(f.data, p, d)
             g == [f EXCEPT !.data = data, !.position = p + 1]
  <1> USE DEF FilesInv, Keep
  <1>0. f # Absent /\ f \in OpenFile /\ f.key \in Keys
    BY DEF WriteFile, FilesTypeOK, OpenFile
  <1> PICK k \in Keys : k = f.key
    BY <1>0
  <1>1. f # Absent /\ f \in OpenFile /\ f.key = k /\ f.data \in Cells /\ p \in Nat /\ p < MaxCells
    BY <1>0 DEF WriteFile, OpenFile
  <1>2. /\ data \in Cells /\ data # Absent
        /\ Len(data) = IF p < Len(f.data) THEN Len(f.data) ELSE p + 1
        /\ \A i \in 1..Len(data) : i # p + 1 => data[i] = IF i <= Len(f.data) THEN f.data[i] ELSE Zero
    BY <1>1, WritesOneCell DEF NativeFilesAssumption
  <1>3. g \in OpenFile /\ g.key = k /\ g.data = data /\ g.position = p + 1 /\ g.truncated = f.truncated
    <2> HIDE DEF data
    <2>1. p + 1 \in Nat
      BY <1>1
    <2>2. QED
      BY <1>1, <1>2, <2>1 DEF OpenFile
  <1>4. /\ files' = [files EXCEPT ![o] = g]
        /\ written' = [written EXCEPT ![k] = data]
        /\ unsaved' = unsaved \cup {k} /\ refused' = refused \ {k}
        /\ UNCHANGED <<store, running, slot>>
    BY <1>1 DEF WriteFile, FilesTypeOK
  <1> HIDE DEF data, g
  <1>5. Contents(k)' = data /\ \A l \in Keys \ {k} : Contents(l)' = Contents(l)
    <2> HIDE DEF f, p
    <2>1. written'[k] = data /\ \A l \in Keys \ {k} : written'[l] = written[l]
      BY <1>1, <1>4 DEF FilesTypeOK
    <2>2. QED
      BY <1>1, <1>2, <1>4, <2>1 DEF Contents, Stored
  <1>6. FilesTypeOK'
    BY <1>1, <1>2, <1>3, <1>4 DEF FilesTypeOK
  <1>7. Tracked'
    BY <1>1, <1>2, <1>4 DEF Tracked, FilesTypeOK
  <1>8. SlotIsStored' /\ Dormant'
    BY <1>4 DEF SlotIsStored, Dormant, Stored, WriteFile
  <1>9. Alone'
    BY <1>1, <1>3, <1>4 DEF Alone, FilesTypeOK
  <1>10. FilesMatch'
    <2>1. Agrees(g, data)
      BY <1>2, <1>3, BeginsItself DEF Agrees
    <2>2. \A q \in Objects \ {o} : files'[q] = files[q] /\ (files[q] # Absent => files[q].key \in Keys \ {k})
      BY <1>1, <1>4 DEF FilesTypeOK, OpenFile, Alone
    <2>3. QED
      BY <1>1, <1>3, <1>4, <1>5, <2>1, <2>2 DEF FilesMatch, FilesTypeOK
  <1>11. WrittenThrough(o, k)
    <2> DEFINE before == Contents(k)
    <2>1. before # Absent /\ (IF f.truncated THEN Begins(f.data, before) ELSE f.data = before)
      BY <1>1 DEF FilesMatch, Agrees
    <2>2. before \in Cells
      BY <1>1, <2>1, ContentsAre
    <2>3. Len(f.data) \in Nat /\ Len(before) \in Nat /\ DOMAIN data = 1..Len(data) /\ MaxCells \in Nat
      BY <1>1, <1>2, <2>2, CellsAre DEF NativeFilesAssumption
    <2>4. files'[o] = g
      BY <1>4 DEF FilesTypeOK
    <2>5. \A i \in 1..Len(data) : i # p + 1 => data[i] =
              IF i <= Len(IF f.truncated THEN f.data ELSE before) THEN before[i] ELSE Zero
      BY <1>1, <1>2, <2>1, <2>3 DEF Begins
    <2>6. Len(data) < Len(before) => f.truncated
      BY <1>1, <1>2, <2>1, <2>3
    <2>7. files'[o] # Absent /\ files'[o].position = p + 1
      BY <1>3, <2>4 DEF NativeFilesAssumption
    <2>8. QED
      BY <1>1, <1>2, <1>5, <2>3, <2>5, <2>6, <2>7 DEF WrittenThrough
  <1>12. QED
    BY <1>1, <1>5, <1>6, <1>7, <1>8, <1>9, <1>10, <1>11 DEF FilesKept, Changes

LEMMA SeekKeeps ==
    ASSUME NativeFilesAssumption, FilesInv, NEW o \in Objects, NEW position \in 0..MaxCells,
           SeekFile(o, position)
    PROVE  FilesKept
  <1> DEFINE g == [files[o] EXCEPT !.position = position]
  <1> USE DEF FilesInv, SeekFile
  <1>1. files[o] # Absent /\ files[o] \in OpenFile /\ position \in Nat
    BY DEF FilesTypeOK, NativeFilesAssumption
  <1>2. /\ g \in OpenFile /\ g.key = files[o].key /\ g.data = files[o].data
        /\ g.truncated = files[o].truncated
    BY <1>1 DEF OpenFile
  <1>3. files' = [files EXCEPT ![o] = g]
    BY <1>1 DEF FilesTypeOK
  <1> HIDE DEF g
  <1>4. \A l \in Keys : Contents(l)' = Contents(l)
    BY DEF Contents, Stored
  <1>5. FilesTypeOK'
    BY <1>2, <1>3 DEF FilesTypeOK, unstored
  <1>6. Tracked' /\ SlotIsStored' /\ Dormant'
    BY DEF Tracked, SlotIsStored, Dormant, unstored, Stored
  <1>7. Alone'
    BY <1>1, <1>2, <1>3 DEF Alone, FilesTypeOK
  <1>8. FilesMatch'
    BY <1>1, <1>2, <1>3, <1>4 DEF FilesMatch, Agrees, FilesTypeOK, OpenFile
  <1>9. QED
    BY <1>4, <1>5, <1>6, <1>7, <1>8 DEF FilesKept, Changes

-----------------------------------------------------------------------------
(***************************************************************************)
(* The boundaries, and what a quick save does.                             *)
(***************************************************************************)
\* A step that stores some of what is pending and leaves the title as it is.
LEMMA StoringIsKept ==
    ASSUME NativeFilesAssumption, FilesInv, running, NEW S \in SUBSET (unsaved \cup refused),
           store' = Taken(S, store, written),
           unsaved' \cup refused' \subseteq unsaved \cup refused,
           (unsaved \cup refused) \ S \subseteq unsaved' \cup refused',
           UNCHANGED <<running, written>>,
           \/ UNCHANGED files
           \/ \E o \in Objects : files' = [files EXCEPT ![o] = Absent],
           \/ UNCHANGED slot
           \/ slot' = Recorded /\ S = unsaved \cup refused
    PROVE  FilesKept
  <1> USE DEF FilesInv
  <1>1. /\ store' \in [Keys -> Cells \cup {Absent}]
        /\ \A k \in Keys : store'[k] = IF k \in S THEN written[k] ELSE store[k]
        /\ \A k \in Keys : Stored(store, k) # Absent => Stored(store', k) # Absent
        /\ \A k \in Keys : Contents(k)' = Contents(k)
    BY StoringKeeps
  <1>2. \A o \in Objects : files'[o] \in {files[o], Absent}
    BY DEF FilesTypeOK
  <1>3. ASSUME NEW o \in Objects, files[o] # Absent
        PROVE  /\ files[o] \in OpenFile /\ files[o].key \in Keys
               /\ Recorded[o] \in RecordedFile /\ Recorded[o].key = files[o].key
    <2>1. files[o] \in OpenFile
      BY <1>3 DEF FilesTypeOK
    <2>2. Len(files[o].data) \in Nat
      BY <2>1, CellsAre DEF OpenFile, NativeFilesAssumption
    <2>3. QED
      BY <1>3, <2>1, <2>2 DEF Recorded, OpenFile, RecordedFile
  <1>4. \A o \in Objects : files[o] = Absent => Recorded[o] = Absent
    BY DEF Recorded
  <1>5. FilesTypeOK'
    <2>1. files' \in [Objects -> OpenFile \cup {Absent}]
      BY DEF FilesTypeOK
    <2>2. Recorded \in [Objects -> RecordedFile \cup {Absent}]
      <3>1. \A o \in Objects : Recorded[o] \in RecordedFile \cup {Absent}
        BY <1>3, <1>4
      <3>2. QED
        BY <3>1 DEF Recorded
    <2>3. QED
      BY <1>1, <2>1, <2>2 DEF FilesTypeOK
  <1>6. Tracked'
    BY <1>1 DEF Tracked, FilesTypeOK
  <1>7. Alone'
    BY <1>2, <1>3, <1>4 DEF Alone
  <1>8. FilesMatch'
    <2>1. SUFFICES ASSUME NEW o \in Objects, files'[o] # Absent
                   PROVE  Agrees(files[o], Contents(files[o].key)')
      BY <1>2 DEF FilesMatch
    <2>2. QED
      BY <1>1, <1>2, <1>3, <2>1 DEF FilesMatch
  <1>9. SlotIsStored'
    <2>1. CASE UNCHANGED slot
      <3>1. slot # Absent => \A o \in Objects : slot[o] # Absent => slot[o].key \in Keys
        BY DEF FilesTypeOK, RecordedFile
      <3>2. QED
        BY <1>1, <2>1, <3>1 DEF SlotIsStored
    <2>2. CASE slot' = Recorded /\ S = unsaved \cup refused
      <3>1. ASSUME NEW o \in Objects, files[o] # Absent
            PROVE  Stored(store', files[o].key) # Absent
        <4>1. files[o].key \in Keys /\ Contents(files[o].key) # Absent
          BY <1>3, <3>1 DEF FilesMatch, Agrees
        <4>2. StorePending({})
          BY <2>2 DEF StorePending, Taken
        <4>3. QED
          BY <4>1, <4>2, StoredIsWritten
      <3>2. QED
        BY <1>3, <1>4, <2>2, <3>1 DEF SlotIsStored
    <2>3. QED
      BY <2>1, <2>2
  <1>10. Dormant'
    BY DEF Dormant
  <1>11. QED
    BY <1>1, <1>5, <1>6, <1>7, <1>8, <1>9, <1>10 DEF FilesKept, Changes

-----------------------------------------------------------------------------
(***************************************************************************)
(* A load, and the end and the beginning of a session.                     *)
(***************************************************************************)
\* A reopened object holds what the store has, or the beginning of it.
LEMMA ReopenedAgrees ==
    ASSUME NativeFilesAssumption, NEW saves \in [Keys -> Cells \cup {Absent}], NEW o \in Objects,
           slot[o] \in RecordedFile, Stored(saves, slot[o].key) # Absent
    PROVE  /\ Reopened(saves)[o] \in OpenFile /\ Reopened(saves)[o].key = slot[o].key
           /\ Agrees(Reopened(saves)[o], Stored(saves, slot[o].key))
  <1> DEFINE s == slot[o]
             whole == Stored(saves, s.key)
             mine == IF s.truncated /\ Len(whole) > s.length THEN SubSeq(whole, 1, s.length) ELSE whole
             f == [key |-> s.key, data |-> mine, position |-> s.position,
                   writable |-> s.writable, truncated |-> s.truncated]
  <1>1. s # Absent /\ whole \in Cells /\ whole # Absent /\ s.length \in Nat
    BY LookupsFind DEF RecordedFile, NativeFilesAssumption
  <1>2. mine \in Cells /\ Begins(mine, whole) /\ (~s.truncated => mine = whole)
    BY <1>1, CutsCells, BeginsItself
  <1>3. Reopened(saves)[o] = f
    BY <1>1 DEF Reopened
  <1>4. f \in OpenFile /\ f.key = s.key /\ f.data = mine /\ f.truncated = s.truncated
    <2> HIDE DEF mine
    <2>1. QED
      BY <1>2 DEF OpenFile, RecordedFile
  <1> HIDE DEF mine, f
  <1>5. QED
    BY <1>1, <1>2, <1>3, <1>4 DEF Agrees

\* A session that begins over what the store holds, of the one before it.
LEMMA AdoptionKeeps ==
    ASSUME NativeFilesAssumption, FilesInv, slot # Absent, running', UNCHANGED slot,
           store' \in [Keys -> Cells \cup {Absent}], Adopt(store'),
           \A k \in Keys : Stored(store', k) = Contents(k),
           \A k \in Keys : Stored(store, k) # Absent => Stored(store', k) # Absent
    PROVE  FilesKept
  <1> USE DEF FilesInv, Adopt
  <1>1. \A k \in Keys : Contents(k)' = Stored(store', k)
    BY DEF Contents, Unwritten
  <1>2. slot \in [Objects -> RecordedFile \cup {Absent}]
    BY DEF FilesTypeOK
  <1>3. ASSUME NEW o \in Objects, slot[o] # Absent
        PROVE  /\ files'[o] \in OpenFile /\ files'[o].key = slot[o].key /\ slot[o].key \in Keys
               /\ Agrees(files'[o], Stored(store', slot[o].key))
    <2>1. slot[o] \in RecordedFile /\ slot[o].key \in Keys
      BY <1>2, <1>3 DEF RecordedFile
    <2>2. Stored(store', slot[o].key) # Absent
      BY <1>3, <2>1 DEF SlotIsStored
    <2>3. QED
      BY <2>1, <2>2, ReopenedAgrees
  <1>4. \A o \in Objects : slot[o] = Absent => files'[o] = Absent
    BY DEF Reopened
  <1>5. FilesTypeOK'
    <2>1. files' \in [Objects -> OpenFile \cup {Absent}]
      <3>1. \A o \in Objects : files'[o] \in OpenFile \cup {Absent}
        BY <1>3, <1>4
      <3>2. QED
        BY <3>1 DEF Reopened
    <2>2. QED
      BY <2>1 DEF FilesTypeOK, Unwritten
  <1>6. Tracked'
    BY DEF Tracked, Unwritten
  <1>7. Alone'
    BY <1>3, <1>4 DEF Alone
  <1>8. FilesMatch'
    <2>1. SUFFICES ASSUME NEW o \in Objects, files'[o] # Absent
                   PROVE  Agrees(files'[o], Contents(files[o].key)')
      BY DEF FilesMatch
    <2>2. slot[o] # Absent
      BY <1>4, <2>1
    <2>3. files'[o].key = slot[o].key /\ slot[o].key \in Keys
      BY <1>3, <2>2
    <2>4. Contents(files[o].key)' = Stored(store', slot[o].key)
      BY <2>3 DEF Contents, Unwritten
    <2>5. QED
      BY <1>3, <2>2, <2>4
  <1>9. SlotIsStored' /\ Dormant'
    BY <1>2 DEF SlotIsStored, Dormant, RecordedFile
  <1>10. QED
    BY <1>1, <1>5, <1>6, <1>7, <1>8, <1>9 DEF FilesKept, Changes

LEMMA EndKeeps ==
    ASSUME NativeFilesAssumption, FilesInv, running' = FALSE, UNCHANGED slot,
           NEW S \in SUBSET (unsaved \cup refused), store' = Taken(S, store, written),
           files' = NoFiles, written' = Unwritten, unsaved' = {}, refused' = {}
    PROVE  FilesInv'
  <1> USE DEF FilesInv
  <1>1. /\ store' \in [Keys -> Cells \cup {Absent}]
        /\ \A k \in Keys : Stored(store, k) # Absent => Stored(store', k) # Absent
    BY StoringKeeps
  <1>2. FilesTypeOK'
    BY <1>1 DEF FilesTypeOK, NoFiles, Unwritten
  <1>3. Tracked' /\ Alone' /\ FilesMatch' /\ Dormant'
    BY DEF Tracked, Alone, FilesMatch, Dormant, NoFiles, Unwritten
  <1>4. SlotIsStored'
    BY <1>1 DEF SlotIsStored, FilesTypeOK, RecordedFile
  <1>5. QED
    BY <1>2, <1>3, <1>4

-----------------------------------------------------------------------------
LEMMA NextKeeps ==
    ASSUME NativeFilesAssumption, FilesInv, FilesNext
    PROVE  FilesKept
  <1> USE DEF unstored, session
  <1>1. ASSUME NEW o \in Objects, NEW k \in Keys, OpenEmptying(o, k)
        PROVE  FilesKept
    <2>1. "truncate" \in Modes
      BY DEF Modes
    <2>2. /\ MayOpen(o, k) /\ files' = [files EXCEPT ![o] = Opened(k, <<>>, "truncate")]
          /\ written' = [written EXCEPT ![k] = <<>>]
          /\ store' \in {store, [store EXCEPT ![k] = <<>>]}
          /\ UNCHANGED <<running, slot, writes>>
      BY <1>1 DEF OpenEmptying
    <2>3. /\ unsaved' = unsaved \ {k}
          /\ \/ store' = [store EXCEPT ![k] = <<>>] /\ refused' = refused \ {k}
             \/ store' = store /\ refused' = refused \cup {k}
      BY <1>1 DEF OpenEmptying
    <2>4. store'[k] = <<>> \/ k \in unsaved' \cup refused'
      BY <2>3 DEF FilesInv, FilesTypeOK
    <2>5. /\ unsaved' \subseteq unsaved \cup {k} /\ refused' \subseteq refused \cup {k}
          /\ unsaved \ {k} \subseteq unsaved' /\ refused \ {k} \subseteq refused'
      BY <2>3
    <2>6. QED
      BY <2>1, <2>2, <2>4, <2>5, EmptyOpenKeeps
  <1>2. ASSUME NEW o \in Objects, NEW k \in Keys, NEW mode \in Modes, OpenFound(o, k, mode)
        PROVE  FilesKept
    BY <1>2, OpenFoundKeeps
  <1>3. ASSUME NEW o \in Objects, NEW k \in Keys, NEW mode \in Modes, OpenMaking(o, k, mode)
        PROVE  FilesKept
    BY <1>3, EmptyOpenKeeps DEF OpenMaking, Keep
  <1>4. ASSUME NEW k \in Keys, CreateFile(k)
        PROVE  FilesKept
    BY <1>4, CreateFileKeeps
  <1>5. ASSUME NEW o \in Objects, NEW d \in Bytes, WriteFile(o, d)
        PROVE  FilesKept
    BY <1>5, WriteKeeps
  <1>6. ASSUME NEW o \in Objects, NEW position \in 0..MaxCells, SeekFile(o, position)
        PROVE  FilesKept
    BY <1>6, SeekKeeps
  <1>7. ASSUME NEW refusing \in SUBSET Keys, (\E o \in Objects : CloseFile(o, refusing)) \/ FrameEnds(refusing)
        PROVE  FilesKept
    <2> DEFINE S == unsaved \ refusing
    <2>1. /\ S \in SUBSET (unsaved \cup refused) /\ store' = Taken(S, store, written)
          /\ unsaved' \cup refused' \subseteq unsaved \cup refused
          /\ (unsaved \cup refused) \ S \subseteq unsaved' \cup refused'
          /\ running /\ UNCHANGED <<running, written>> /\ UNCHANGED slot
          /\ UNCHANGED files \/ \E o \in Objects : files' = [files EXCEPT ![o] = Absent]
      BY <1>7 DEF CloseFile, FrameEnds, FlushSaves
    <2> HIDE DEF S
    <2>2. QED
      BY <2>1, StoringIsKept
  <1>8. ASSUME QuickSave
        PROVE  FilesKept
    <2> DEFINE S == unsaved \cup refused
    <2>1. /\ S \in SUBSET (unsaved \cup refused) /\ store' = Taken(S, store, written)
          /\ unsaved' \cup refused' \subseteq unsaved \cup refused
          /\ (unsaved \cup refused) \ S \subseteq unsaved' \cup refused'
          /\ running /\ UNCHANGED <<running, written>> /\ slot' = Recorded /\ UNCHANGED files
      BY <1>8 DEF QuickSave, StorePending, LeavePending, Taken
    <2>2. QED
      BY <2>1, StoringIsKept
  <1>9. ASSUME NEW refusing \in SUBSET Keys, running, UNCHANGED <<running, files, written, slot>>,
               StorePending(refusing), LeavePending(refusing)
        PROVE  FilesKept
    <2> DEFINE S == (unsaved \cup refused) \ refusing
    <2>1. /\ S \in SUBSET (unsaved \cup refused) /\ store' = Taken(S, store, written)
          /\ unsaved' \cup refused' \subseteq unsaved \cup refused
          /\ (unsaved \cup refused) \ S \subseteq unsaved' \cup refused'
      BY <1>9 DEF StorePending, LeavePending
    <2> HIDE DEF S
    <2>2. QED
      BY <1>9, <2>1, StoringIsKept
  <1>10. ASSUME UNCHANGED <<store, running, session, slot>>
         PROVE  FilesKept
    BY <1>10 DEF FilesKept, Changes, FilesInv, FilesTypeOK, Tracked, Alone, FilesMatch, SlotIsStored, Dormant,
       Contents, Stored
  <1>11. ASSUME NEW refusing \in SUBSET Keys, QuickSaveFails(refusing) \/ QuickLoadFails(refusing)
         PROVE  FilesKept
    BY <1>9, <1>10, <1>11 DEF QuickSaveFails, QuickLoadFails
  <1>12. ASSUME QuickLoad
         PROVE  FilesKept
    <2>1. StorePending({}) /\ slot # Absent /\ running' /\ UNCHANGED slot
      BY <1>12 DEF QuickLoad
    <2>2. store' = Taken(unsaved \cup refused, store, written)
      BY <2>1 DEF StorePending, Taken
    <2>3. /\ store' \in [Keys -> Cells \cup {Absent}]
          /\ \A k \in Keys : Stored(store, k) # Absent => Stored(store', k) # Absent
      BY <2>2, StoringKeeps DEF FilesInv
    <2>4. \A k \in Keys : Stored(store', k) = Contents(k)
      BY <2>1, StoredIsWritten DEF FilesInv
    <2>5. unsaved \cup refused = {} => store' = store
      BY <2>2 DEF Taken, FilesInv, FilesTypeOK
    <2>6. Adopt(store')
      BY <1>12, <2>5 DEF QuickLoad
    <2>7. QED
      BY <2>1, <2>3, <2>4, <2>6, AdoptionKeeps
  <1>13. ASSUME RestoreSession
         PROVE  FilesKept
    <2>1. \A k \in Keys : Stored(store', k) = Contents(k)
      BY <1>13 DEF RestoreSession, FilesInv, Dormant, Contents, Unwritten
    <2>2. QED
      BY <1>13, <2>1, AdoptionKeeps DEF RestoreSession, FilesInv, FilesTypeOK
  <1>14. ASSUME StartSession
         PROVE  FilesKept
    BY <1>14 DEF StartSession, FilesKept, Changes, FilesInv, FilesTypeOK, Tracked, Alone, FilesMatch,
       SlotIsStored, Dormant, Contents, Stored
  <1>15. ASSUME NEW refusing \in SUBSET Keys, CloseSession(refusing)
         PROVE  FilesKept
    <2>1. FilesInv'
      BY <1>15, EndKeeps DEF CloseSession, StorePending
    <2>2. ASSUME CloseSession({}), NEW k \in Keys
          PROVE  Contents(k)' = Contents(k)
      <3>1. Stored(store', k) = Contents(k)
        BY <2>2, StoredIsWritten DEF CloseSession, FilesInv
      <3>2. QED
        BY <2>2, <3>1 DEF CloseSession, Contents, Unwritten
    <2>3. running /\ ~running'
      BY <1>15 DEF CloseSession, FilesInv, FilesTypeOK
    <2>4. QED
      BY <2>1, <2>2, <2>3 DEF FilesKept, Changes
  <1>16. ASSUME Killed
         PROVE  FilesKept
    <2>1. store' = Taken({}, store, written)
      BY <1>16 DEF Killed, Taken, FilesInv, FilesTypeOK
    <2>2. FilesInv'
      BY <1>16, <2>1, EndKeeps DEF Killed
    <2>3. CASE CloseSession({})
      BY <1>15, <2>3
    <2>4. CASE ~CloseSession({})
      BY <1>16, <2>2, <2>4 DEF Killed, FilesKept, Changes
    <2>5. QED
      BY <2>3, <2>4
  <1>17. QED
    BY <1>1, <1>2, <1>3, <1>4, <1>5, <1>6, <1>7, <1>8, <1>11, <1>12, <1>13, <1>14, <1>15, <1>16
    DEF FilesNext, TitleCalls

\* However a title's calls, its frames, refusals, quick saves and quick loads
\* follow each other, the session's copy, the objects, the store and the quick
\* save agree as FilesInv says.
THEOREM FilesAgree == NativeFilesAssumption /\ FilesSpec => []FilesInv
  <1>1. SUFFICES ASSUME NativeFilesAssumption PROVE FilesSpec => []FilesInv
    OBVIOUS
  <1>2. FilesInit => FilesInv
    BY <1>1, NoCells DEF FilesInit, FilesInv, FilesTypeOK, Tracked, Alone, FilesMatch, SlotIsStored, Dormant,
       NoFiles, Unwritten
  <1>3. FilesInv /\ [FilesNext]_filesVars => FilesInv'
    <2>1. FilesInv /\ FilesNext => FilesInv'
      BY <1>1, NextKeeps DEF FilesKept
    <2>2. FilesInv /\ UNCHANGED filesVars => FilesInv'
      BY DEF filesVars, session, unstored, FilesInv, FilesTypeOK, Tracked, Alone, FilesMatch, SlotIsStored,
         Dormant, Contents, Stored
    <2>3. QED
      BY <2>1, <2>2
  <1>4. QED
    BY <1>2, <1>3, PTL DEF FilesSpec

\* What a file holds changes by the title's own calls alone, for any number of
\* files, objects and cells: neither a refusal of the store nor a quick load
\* brings an older cell back or takes a newer one away.
THEOREM FilesChangeByTheTitle == NativeFilesAssumption /\ FilesSpec => OnlyTheTitleWrites
  <1>1. SUFFICES ASSUME NativeFilesAssumption PROVE FilesSpec => OnlyTheTitleWrites
    OBVIOUS
  <1>2. FilesInv /\ [FilesNext]_filesVars =>
            [running' \/ ~running \/ CloseSession({}) =>
                \A k \in Keys : Contents(k)' = Contents(k) \/ Emptied(k)
                                    \/ \E o \in Objects : WrittenThrough(o, k)]_filesVars
    BY <1>1, NextKeeps DEF FilesKept, Changes
  <1>3. FilesSpec => []FilesInv
    BY <1>1, FilesAgree
  <1>4. QED
    BY <1>2, <1>3, PTL DEF FilesSpec, OnlyTheTitleWrites

-----------------------------------------------------------------------------
(***************************************************************************)
(* For any threads, names and stores in the archive: between two calls a     *)
(* title finds under every name what its next session will, and the Host     *)
(* never keeps a shorter list than it had, but for a deletion's empty one.   *)
(*                                                                          *)
(* The names in memory and those the Host will hold differ in the carried    *)
(* stores nothing was written of. A store in memory has one object under its *)
(* name while it is open, so that whatever a thread writes is the newest     *)
(* there is of it; and a name that is gone leaves an empty list behind,      *)
(* under way or pending, before it can be created anew.                      *)
(***************************************************************************)
\* The calls that are about an object, those that need it open, and those
\* whose change the Host has yet to be given.
OnObject == {"checked", "name", "persist", "create", "retry"}
Inside == {"checked", "name", "persist", "create"}
Writing(o) == \E t \in Threads : pc[t] \in {"name", "persist", "create"} /\ on[t] = o
Emptying(n) == \E t \in Threads : pc[t] = "empty" /\ on[t] = n

CallsOK ==
    \A t \in Threads :
        /\ pc[t] = "empty" => on[t] \in Names
        /\ pc[t] \in OnObject => on[t] \in DOMAIN objects
        /\ held = t <=> pc[t] \in {"create", "empty"}

ObjectsOK ==
    /\ \A n \in Names : stores[n] # None => objects[stores[n]].name = n
    /\ \A o \in DOMAIN objects : objects[o].open > 0 => stores[objects[o].name] = o
    /\ \A t \in Threads : pc[t] \in Inside => objects[on[t]].open > 0

\* Until the index is read there is nothing but what some reads have seeded.
BeforeIndex ==
    ~rms.loaded =>
        /\ stores = NoStores /\ objects = <<>> /\ pending = NoKeys /\ pc = AllIdle /\ unserved = {}
        /\ rms.packaged = rms.unwritten /\ rms.packaged \subseteq Seeded \cap rms.names
        /\ rms.names \subseteq Listed \cup rms.packaged

ReachedNames == IF Reaches(Index) = None THEN {} ELSE Reaches(Index)

\* The names known, and those the Host holds or will.
ListsAgree(known) ==
    /\ known.packaged \subseteq known.unwritten /\ known.unwritten \subseteq known.names
    /\ ReachedNames \ known.unwritten = known.names \ known.unwritten

\* A carried store nothing was written of is in the archive, open, or unserved.
UnwrittenOK(known) ==
    /\ \A n \in known.unwritten : Reaches(n) = None
    /\ \A n \in known.packaged : stores[n] = None
    /\ \A n \in known.unwritten \ known.packaged : stores[n] # None \/ n \in unserved
    /\ \A t \in Threads : pc[t] \in {"persist", "create"} => objects[on[t]].name \notin known.unwritten

\* Under a name there is not, a deletion; under one that is not in memory, nothing pending.
AbsentOK(known) ==
    /\ \A n \in Names \ known.names : stores[n] = None /\ (Emptying(n) \/ pending[n] \in {None, <<>>})
    /\ \A n \in known.names : (stores[n] = None => pending[n] = None) /\ ~Emptying(n)
    /\ \A n \in DOMAIN Carried \ known.unwritten :
        stores[n] = None => Reaches(n) # None \/ Emptying(n)

NamesOK(known) == ListsAgree(known) /\ UnwrittenOK(known) /\ AbsentOK(known)

\* What is in memory is what the next session finds, once it is written.
ObjectsAgree ==
    \A n \in Names \ unserved :
        stores[n] # None /\ ~Writing(stores[n]) => objects[stores[n]].records = ServedNext(n)

Grown ==
    \A n \in Names :
        /\ stores[n] # None =>
            /\ host[n] # None => Len(host[n]) <= Len(objects[stores[n]].records)
            /\ pending[n] # None => Len(pending[n]) <= Len(objects[stores[n]].records)
        /\ pending[n] # None /\ host[n] # None => pending[n] = <<>> \/ Len(pending[n]) >= Len(host[n])

StoresInv ==
    /\ TypeOK /\ CallsOK /\ ObjectsOK /\ BeforeIndex
    /\ rms.loaded => NamesOK(rms)
    /\ ObjectsAgree /\ Grown

-----------------------------------------------------------------------------
(***************************************************************************)
(* Lists of records, and what a call that reaches the Host does to a key.   *)
(***************************************************************************)
Slots == Data \cup {Nil}
Objs == [name : Names, records : Records, open : Int]

LEMMA RecordsAre ==
    ASSUME RecordStoreAssumption, NEW s \in Records
    PROVE  s \in Seq(Slots) /\ Len(s) \in Nat /\ Len(s) <= MaxRecords /\ DOMAIN s = 1..Len(s) /\ s # None
  <1>1. PICK m \in 0..MaxRecords : s \in [1..m -> Slots]
    BY DEF Records, SeqOf, Slots
  <1>2. m \in Nat /\ m <= MaxRecords
    BY <1>1 DEF RecordStoreAssumption
  <1>3. s \in Seq(Slots) /\ Len(s) = m
    BY <1>1, <1>2
  <1>4. QED
    BY <1>1, <1>2, <1>3 DEF RecordStoreAssumption

LEMMA AreRecords ==
    ASSUME RecordStoreAssumption, NEW s \in Seq(Slots), Len(s) <= MaxRecords
    PROVE  s \in Records
  <1>1. Len(s) \in 0..MaxRecords /\ s \in [1..Len(s) -> Slots]
    BY LenProperties DEF RecordStoreAssumption
  <1>2. QED
    BY <1>1 DEF Records, SeqOf, Slots

LEMMA NoRecords ==
    ASSUME RecordStoreAssumption
    PROVE  <<>> \in Records /\ Len(<<>>) = 0 /\ <<>> # None
  <1>1. <<>> \in Seq(Slots) /\ Len(<<>>) = 0
    BY EmptySeq
  <1>2. 0 <= MaxRecords
    BY DEF RecordStoreAssumption
  <1>3. QED
    BY <1>1, <1>2, AreRecords, RecordsAre

\* A change never makes a list shorter.
LEMMA ChangedAre ==
    ASSUME RecordStoreAssumption, NEW s \in Records, NEW r \in Changed(s)
    PROVE  r \in Records /\ Len(s) <= Len(r)
  <1>1. s \in Seq(Slots) /\ Len(s) \in Nat /\ Len(s) <= MaxRecords /\ DOMAIN s = 1..Len(s) /\ MaxRecords \in Nat
    BY RecordsAre DEF RecordStoreAssumption
  <1>2. CASE \E d \in Data : r = Append(s, d) /\ Len(s) < MaxRecords
    <2>1. PICK d \in Data : r = Append(s, d) /\ Len(s) < MaxRecords
      BY <1>2
    <2>2. d \in Slots
      BY DEF Slots
    <2>3. r \in Seq(Slots) /\ Len(r) = Len(s) + 1
      BY <1>1, <2>1, <2>2, AppendProperties
    <2>4. Len(r) <= MaxRecords
      BY <1>1, <2>1, <2>3
    <2>5. QED
      BY <1>1, <2>3, <2>4, AreRecords
  <1>3. CASE \E i \in DOMAIN s, d \in Slots : r = [s EXCEPT ![i] = d]
    <2>1. PICK i \in DOMAIN s, d \in Slots : r = [s EXCEPT ![i] = d]
      BY <1>3
    <2>2. r \in Seq(Slots) /\ Len(r) = Len(s)
      BY <1>1, <2>1, ExceptSeq
    <2>3. QED
      BY <1>1, <2>2, AreRecords
  <1>4. QED
    BY <1>2, <1>3 DEF Changed, Slots

LEMMA KeysAre ==
    ASSUME RecordStoreAssumption, TypeOK
    PROVE  /\ Index \in StoreKeys /\ Names \subseteq StoreKeys /\ Index \notin Names
           /\ DOMAIN host = StoreKeys /\ DOMAIN pending = StoreKeys
           /\ DOMAIN Carried \subseteq Names
           /\ \A n \in DOMAIN Carried : Carried[n] \in Records
           /\ \A n \in Names : Reaches(n) \in Records \cup {None}
           /\ Reaches(Index) = None \/ Reaches(Index) \subseteq Names
           /\ ReachedNames \subseteq Names
  <1>1. Index \in StoreKeys /\ Names \subseteq StoreKeys /\ Index \notin Names
    BY DEF StoreKeys, RecordStoreAssumption
  <1>2. DOMAIN host = StoreKeys /\ DOMAIN pending = StoreKeys
    BY DEF TypeOK
  <1>3. /\ \A n \in Names : Reaches(n) \in Records \cup {None}
        /\ Reaches(Index) = None \/ Reaches(Index) \subseteq Names
    BY DEF Reaches, TypeOK
  <1>4. QED
    BY <1>1, <1>2, <1>3 DEF ReachedNames, RecordStoreAssumption

LEMMA StoreSaves ==
    ASSUME RecordStoreAssumption, TypeOK, NEW key \in StoreKeys, NEW data, data # None, StoreSave(key, data)
    PROVE  /\ host' = [k \in StoreKeys |-> host'[k]] /\ pending' = [k \in StoreKeys |-> pending'[k]]
           /\ Reaches(key)' = data
           /\ \A k \in StoreKeys \ {key} :
                host'[k] = host[k] /\ pending'[k] = pending[k] /\ Reaches(k)' = Reaches(k)
           /\ \/ host'[key] = data /\ pending'[key] = None
              \/ host'[key] = host[key] /\ pending'[key] = data
  BY KeysAre DEF StoreSave, Reaches, TypeOK

LEMMA RetryReaches ==
    ASSUME RecordStoreAssumption, TypeOK, NEW keys \in SUBSET StoreKeys, NEW done \in SUBSET Pending(keys),
           Retry(keys, done)
    PROVE  /\ host' = [k \in StoreKeys |-> host'[k]] /\ pending' = [k \in StoreKeys |-> pending'[k]]
           /\ \A k \in StoreKeys :
                /\ Reaches(k)' = Reaches(k)
                /\ \/ host'[k] = host[k] /\ pending'[k] = pending[k]
                   \/ host'[k] = pending[k] /\ pending'[k] = None /\ pending[k] # None
  BY KeysAre DEF Retry, Pending, Reaches

\* What a next session finds under a name hangs on its list and on the index alone.
LEMMA ServedNextKept ==
    ASSUME RecordStoreAssumption, TypeOK, NEW n \in Names,
           Reaches(n)' = Reaches(n), Reaches(Index)' = Reaches(Index) \/ Reaches(Index)' # None,
           (n \in ReachedNames' <=> n \in ReachedNames) \/ (n \in DOMAIN Carried /\ Reaches(n) = None)
    PROVE  ServedNext(n)' = ServedNext(n)
  BY DEF ServedNext, ReachedNames

-----------------------------------------------------------------------------
(***************************************************************************)
(* Names and objects.                                                      *)
(***************************************************************************)
Lists == [loaded : BOOLEAN, names : SUBSET Names, packaged : SUBSET DOMAIN Carried,
          unwritten : SUBSET DOMAIN Carried]

\* Reading the index, with the carried stores the Host holds nothing of.
LEMMA LoadingKnows ==
    ASSUME RecordStoreAssumption, StoresInv
    PROVE  LoadedIndex \in Lists /\ LoadedIndex.loaded /\ NamesOK(LoadedIndex)
  <1>1. CASE rms.loaded
    BY <1>1 DEF LoadedIndex, StoresInv, TypeOK, Lists
  <1>2. CASE ~rms.loaded
    <2> DEFINE known == Knowing(Seeded, TRUE)
    <2>1. LoadedIndex = known
      BY <1>2 DEF LoadedIndex
    <2>2. /\ stores = NoStores /\ objects = <<>> /\ pending = NoKeys /\ pc = AllIdle
          /\ rms.packaged = rms.unwritten /\ rms.packaged \subseteq Seeded /\ rms.names \subseteq Listed \cup Seeded
      BY <1>2 DEF StoresInv, BeforeIndex
    <2>3. /\ rms \in Lists /\ Seeded \subseteq DOMAIN Carried /\ Seeded \subseteq Names /\ Listed \subseteq Names
          /\ Index \in StoreKeys /\ Names \subseteq StoreKeys /\ DOMAIN Carried \subseteq Names
      BY KeysAre DEF StoresInv, TypeOK, Lists, Seeded, Listed
    <2>4. /\ known.loaded /\ known.packaged = Seeded /\ known.unwritten = Seeded
          /\ known.names = Listed \cup Seeded /\ known \in Lists
      BY <2>2, <2>3 DEF Knowing, Lists
    <2>5. ReachedNames = Listed /\ \A k \in StoreKeys : Reaches(k) = host[k] /\ pending[k] = None
      BY <2>2, <2>3 DEF ReachedNames, Reaches, Listed, NoKeys
    <2>6. \A t \in Threads : pc[t] = "idle"
      BY <2>2 DEF AllIdle
    <2>7. \A n \in Names : stores[n] = None
      BY <2>2 DEF NoStores
    <2> HIDE DEF known
    <2>8. ListsAgree(known)
      BY <2>4, <2>5 DEF ListsAgree
    <2>9. UnwrittenOK(known)
      BY <2>3, <2>4, <2>5, <2>6, <2>7 DEF UnwrittenOK, Seeded
    <2>10. AbsentOK(known)
      BY <2>3, <2>4, <2>5, <2>6, <2>7 DEF AbsentOK, Seeded, Emptying
    <2>11. QED
      BY <2>1, <2>4, <2>8, <2>9, <2>10 DEF NamesOK
  <1>3. QED
    BY <1>1, <1>2

LEMMA FirstAre ==
    ASSUME RecordStoreAssumption, TypeOK, NEW n \in Names, NEW known \in Lists
    PROVE  FirstRecords(n, known) \in Records
  BY KeysAre, NoRecords DEF FirstRecords, TypeOK, Lists

\* A store that is not in memory is found as the next session will find it.
LEMMA FirstIsNext ==
    ASSUME RecordStoreAssumption, TypeOK, NEW known \in Lists, NamesOK(known),
           NEW n \in Names \ unserved, n \in known.names, stores[n] = None
    PROVE  FirstRecords(n, known) = ServedNext(n)
  <1> USE DEF NamesOK
  <1>1. pending[n] = None /\ Reaches(n) = host[n]
    BY DEF AbsentOK, Reaches
  <1>2. host[n] # None => n \in ReachedNames
    BY <1>1 DEF UnwrittenOK, ListsAgree
  <1>3. n \in known.packaged => n \in DOMAIN Carried /\ host[n] = None
    BY <1>1 DEF UnwrittenOK, ListsAgree, Lists
  <1>4. n \notin known.packaged /\ host[n] = None => n \notin DOMAIN Carried /\ n \in ReachedNames
    <2> SUFFICES ASSUME n \notin known.packaged, host[n] = None
                 PROVE  n \notin DOMAIN Carried /\ n \in ReachedNames
      OBVIOUS
    <2>1. n \notin known.unwritten
      BY DEF UnwrittenOK
    <2>2. QED
      BY <1>1, <2>1 DEF AbsentOK, ListsAgree
  <1>5. QED
    BY <1>1, <1>2, <1>3, <1>4 DEF FirstRecords, ServedNext, ReachedNames

LEMMA ObjectsAre ==
    ASSUME RecordStoreAssumption, TypeOK
    PROVE  /\ objects \in Seq(Objs) /\ Len(objects) \in Nat /\ DOMAIN objects = 1..Len(objects)
           /\ \A o \in DOMAIN objects :
                objects[o] \in Objs /\ objects[o].name \in Names /\ objects[o].records \in Records /\ objects[o].open \in Int
           /\ \A n \in Names : stores[n] = None \/ stores[n] \in DOMAIN objects
           /\ None \notin DOMAIN objects
  <1>1. objects \in Seq(Objs)
    BY DEF TypeOK, Objs
  <1>2. Len(objects) \in Nat /\ DOMAIN objects = 1..Len(objects)
    BY <1>1, LenProperties
  <1>3. \A o \in DOMAIN objects : objects[o] \in Objs
    BY <1>1, <1>2, ElementOfSeq
  <1>4. None \notin DOMAIN objects
    BY <1>2 DEF RecordStoreAssumption
  <1>5. QED
    BY <1>1, <1>2, <1>3, <1>4 DEF TypeOK, Objs

\* An object is changed; the others stay.
LEMMA ObjectChanges ==
    ASSUME RecordStoreAssumption, TypeOK, NEW o \in DOMAIN objects, NEW new \in Objs,
           objects' = [objects EXCEPT ![o] = new]
    PROVE  /\ objects' \in Seq(Objs) /\ DOMAIN objects' = DOMAIN objects /\ objects'[o] = new
           /\ \A p \in DOMAIN objects \ {o} : objects'[p] = objects[p]
  BY ObjectsAre, ExceptSeq

LEMMA ObjectAppears ==
    ASSUME RecordStoreAssumption, TypeOK, NEW n \in Names, NEW known \in Lists, NewObject(n, known)
    PROVE  \E o \in Nat :
            /\ o \notin DOMAIN objects /\ o = stores'[n] /\ o # None
            /\ objects' \in Seq(Objs) /\ DOMAIN objects' = DOMAIN objects \cup {o}
            /\ objects'[o] = [name |-> n, records |-> FirstRecords(n, known), open |-> 1]
            /\ \A p \in DOMAIN objects : objects'[p] = objects[p]
            /\ stores' \in [Names -> DOMAIN objects' \cup {None}]
            /\ \A m \in Names \ {n} : stores'[m] = stores[m]
  <1> DEFINE o == Len(objects) + 1
             new == [name |-> n, records |-> FirstRecords(n, known), open |-> 1]
  <1>1. new \in Objs
    BY FirstAre DEF Objs
  <1>2. objects \in Seq(Objs) /\ Len(objects) \in Nat /\ DOMAIN objects = 1..Len(objects)
    BY ObjectsAre
  <1>3. objects' = Append(objects, new)
    BY DEF NewObject
  <1>4. /\ objects' \in Seq(Objs) /\ Len(objects') = o /\ objects'[o] = new
        /\ \A p \in 1..Len(objects) : objects'[p] = objects[p]
    <2> HIDE DEF new
    <2>1. QED
      BY <1>1, <1>2, <1>3, AppendProperties
  <1>5. DOMAIN objects' = DOMAIN objects \cup {o}
    <2>1. DOMAIN objects' = 1..o
      BY <1>2, <1>4, LenProperties
    <2>2. QED
      BY <1>2, <2>1
  <1>6. o \in Nat /\ o \notin DOMAIN objects /\ o # None
    BY <1>2 DEF RecordStoreAssumption
  <1>7. stores' = [stores EXCEPT ![n] = o]
    BY <1>4 DEF NewObject
  <1>8. stores' \in [Names -> DOMAIN objects' \cup {None}]
    BY <1>5, <1>7 DEF TypeOK
  <1>9. stores'[n] = o /\ \A m \in Names \ {n} : stores'[m] = stores[m]
    BY <1>7 DEF TypeOK
  <1>10. \A p \in DOMAIN objects : objects'[p] = objects[p]
    BY <1>2, <1>4
  <1> HIDE DEF o
  <1>11. QED
    BY <1>4, <1>5, <1>6, <1>8, <1>9, <1>10

-----------------------------------------------------------------------------
(***************************************************************************)
(* The calls that write nothing.                                           *)
(***************************************************************************)
NotCutShort ==
    \A n \in Names : host[n] # None /\ host'[n] # host[n] =>
        Len(host'[n]) >= Len(host[n]) \/ (host'[n] = <<>> /\ Deleting(n))

Kept == StoresInv' /\ NotCutShort

\* Something is open or under way only once the index has been read.
LEMMA Loaded ==
    ASSUME RecordStoreAssumption, StoresInv
    PROVE  /\ \A o \in DOMAIN objects : rms.loaded
           /\ \A t \in Threads : pc[t] # "idle" => rms.loaded
           /\ LoadedIndex = rms \/ \A n \in Names : stores[n] = None
  <1>1. \A o \in DOMAIN <<>> : FALSE
    OBVIOUS
  <1>2. ~rms.loaded => objects = <<>> /\ stores = NoStores /\ pc = AllIdle
    BY DEF StoresInv, BeforeIndex
  <1>3. QED
    BY <1>1, <1>2 DEF AllIdle, LoadedIndex, NoStores

\* Reading the index, and taking a copy out of the archive, change no more than what is known.
LEMMA KnowingMoreKeeps ==
    ASSUME RecordStoreAssumption, StoresInv, UNCHANGED <<host, pending, stores, objects, calls>>,
           rms' \in Lists, rms'.loaded, NamesOK(rms)', unserved \subseteq unserved', unserved' \subseteq DOMAIN Carried
    PROVE  Kept
  <1> USE DEF calls
  <1>1. TypeOK'
    BY DEF StoresInv, TypeOK, Lists
  <1>2. CallsOK' /\ ObjectsOK' /\ BeforeIndex' /\ Grown'
    BY DEF StoresInv, CallsOK, ObjectsOK, BeforeIndex, Grown
  <1>3. ObjectsAgree'
    BY DEF StoresInv, ObjectsAgree, Writing, ServedNext, Reaches
  <1>4. QED
    BY <1>1, <1>2, <1>3 DEF Kept, StoresInv, NotCutShort

LEMMA ListKeeps ==
    ASSUME RecordStoreAssumption, StoresInv, NEW t \in Threads, List(t), UNCHANGED unserved
    PROVE  Kept
  <1>1. rms' \in Lists /\ rms'.loaded /\ NamesOK(LoadedIndex)
    BY LoadingKnows DEF List
  <1>2. NamesOK(rms)'
    BY <1>1 DEF List, calls, NamesOK, ListsAgree, UnwrittenOK, AbsentOK, ReachedNames, Reaches, Emptying
  <1>3. unserved \subseteq DOMAIN Carried
    BY DEF StoresInv, TypeOK
  <1>4. QED
    BY <1>1, <1>2, <1>3, KnowingMoreKeeps DEF List

LEMMA LoadRefusedKeeps ==
    ASSUME RecordStoreAssumption, StoresInv, NEW t \in Threads, LoadRefused(t), UNCHANGED unserved
    PROVE  Kept
  <1> USE DEF LoadRefused, calls
  <1>1. rms \in Lists /\ Seeded \subseteq DOMAIN Carried /\ DOMAIN Carried \subseteq Names /\ Listed \subseteq Names
    BY KeysAre DEF StoresInv, TypeOK, Lists, Seeded, Listed
  <1>2. /\ rms.packaged = rms.unwritten /\ rms.packaged \subseteq Seeded /\ rms.packaged \subseteq rms.names
        /\ rms.names \subseteq Listed \cup rms.packaged
    BY DEF StoresInv, BeforeIndex
  <1>3. /\ rms' \in Lists /\ ~rms'.loaded
        /\ rms'.packaged = rms'.unwritten /\ rms'.packaged \subseteq Seeded /\ rms'.packaged \subseteq rms'.names
        /\ rms'.names \subseteq Listed \cup rms'.packaged
    <2>1. CASE rms' = rms
      BY <1>1, <1>2, <2>1
    <2>2. CASE \E seeded \in SUBSET Seeded : rms' = Knowing(seeded, FALSE)
      BY <1>1, <1>2, <2>2 DEF Knowing, Lists
    <2>3. QED
      BY <2>1, <2>2 DEF PartlyLoaded
  <1>4. Seeded' = Seeded /\ Listed' = Listed
    BY DEF Seeded, Listed
  <1>5. TypeOK'
    BY <1>3 DEF StoresInv, TypeOK, Lists
  <1>6. CallsOK' /\ ObjectsOK' /\ Grown'
    BY DEF StoresInv, CallsOK, ObjectsOK, Grown
  <1>7. BeforeIndex'
    BY <1>3, <1>4 DEF StoresInv, BeforeIndex
  <1>8. ObjectsAgree'
    BY DEF StoresInv, ObjectsAgree, Writing, ServedNext, Reaches
  <1>9. QED
    BY <1>3, <1>5, <1>6, <1>7, <1>8 DEF Kept, StoresInv, NotCutShort

LEMMA OpenRefusedKeeps ==
    ASSUME RecordStoreAssumption, StoresInv, NEW t \in Threads, NEW n \in Names, OpenRefused(t, n)
    PROVE  Kept
  <1> DEFINE known == LoadedIndex
  <1>1. known \in Lists /\ known.loaded /\ NamesOK(known)
    BY LoadingKnows
  <1>2. unserved' = unserved \cup (known.packaged \cap {n})
    BY DEF OpenRefused
  <1> HIDE DEF known
  <1>3. /\ rms' \in Lists /\ rms'.loaded /\ rms'.names = known.names /\ rms'.unwritten = known.unwritten
        /\ rms'.packaged \subseteq known.packaged /\ known.packaged \ {n} \subseteq rms'.packaged
    BY <1>1 DEF OpenRefused, Unpacked, Lists, known
  <1>4. ListsAgree(rms)' /\ AbsentOK(rms)'
    BY <1>1, <1>3 DEF OpenRefused, calls, NamesOK, ListsAgree, AbsentOK, ReachedNames, Reaches, Emptying
  <1>5. UnwrittenOK(rms)'
    BY <1>1, <1>2, <1>3 DEF OpenRefused, calls, NamesOK, UnwrittenOK, Reaches
  <1>6. unserved' \subseteq DOMAIN Carried
    BY <1>1, <1>2 DEF StoresInv, TypeOK, Lists
  <1>7. QED
    BY <1>2, <1>3, <1>4, <1>5, <1>6, KnowingMoreKeeps DEF OpenRefused, NamesOK

\* A call that changes nothing but whether objects are open.
LEMMA HandlesKeep ==
    ASSUME RecordStoreAssumption, StoresInv, UNCHANGED <<host, pending, rms, stores, held, unserved>>,
           rms.loaded, objects' \in Seq(Objs), DOMAIN objects' = DOMAIN objects,
           \A o \in DOMAIN objects : objects'[o].name = objects[o].name /\ objects'[o].records = objects[o].records,
           pc' \in [Threads -> {"idle", "checked", "name", "persist", "create", "empty", "retry"}],
           on' \in [Threads -> DOMAIN objects \cup Names \cup {None}],
           \A t \in Threads :
               \/ pc'[t] = pc[t] /\ on'[t] = on[t]
               \/ /\ pc[t] \in {"idle", "checked"} /\ pc'[t] \in {"idle", "checked", "retry"}
                  /\ pc'[t] # "idle" => on'[t] \in DOMAIN objects,
           ObjectsOK'
    PROVE  Kept
  <1>1. TypeOK'
    BY DEF StoresInv, TypeOK, Objs
  <1>2. CallsOK'
    BY DEF StoresInv, CallsOK, OnObject
  <1>3. BeforeIndex'
    BY DEF BeforeIndex
  <1>4. \A n : Emptying(n)' <=> Emptying(n)
    BY DEF Emptying
  <1>5. \A o : Writing(o)' <=> Writing(o)
    BY DEF Writing
  <1>6. \A k : Reaches(k)' = Reaches(k)
    BY DEF Reaches
  <1>7. ListsAgree(rms)' /\ AbsentOK(rms)'
    BY <1>4, <1>6 DEF StoresInv, NamesOK, ListsAgree, AbsentOK, ReachedNames
  <1>8. UnwrittenOK(rms)'
    BY <1>6 DEF StoresInv, NamesOK, UnwrittenOK, CallsOK, OnObject
  <1>9. ObjectsAgree' /\ Grown'
    BY <1>5, <1>6, ObjectsAre DEF StoresInv, ObjectsAgree, ServedNext, Grown
  <1>10. QED
    BY <1>1, <1>2, <1>3, <1>7, <1>8, <1>9 DEF Kept, StoresInv, NamesOK, NotCutShort

LEMMA OpenKnownKeeps ==
    ASSUME RecordStoreAssumption, StoresInv, NEW t \in Threads, NEW n \in Names, OpenKnown(t, n), UNCHANGED unserved
    PROVE  Kept
  <1> DEFINE o == stores[n]
             new == [objects[o] EXCEPT !.open = @ + 1]
  <1>1. o \in DOMAIN objects /\ objects[o].name = n
    BY ObjectsAre DEF OpenKnown, StoresInv, ObjectsOK
  <1>2. new \in Objs /\ new.name = n /\ new.records = objects[o].records
    BY <1>1, ObjectsAre DEF StoresInv, Objs
  <1>3. objects' = [objects EXCEPT ![o] = new]
    BY DEF OpenKnown
  <1>4. /\ objects' \in Seq(Objs) /\ DOMAIN objects' = DOMAIN objects /\ objects'[o] = new
        /\ \A p \in DOMAIN objects \ {o} : objects'[p] = objects[p]
    <2> HIDE DEF new, o
    <2>1. QED
      BY <1>1, <1>2, <1>3, ObjectChanges DEF StoresInv
  <1>5. new.open = objects[o].open + 1 /\ objects[o].open \in Int
    BY <1>1, ObjectsAre DEF StoresInv, Objs
  <1> HIDE DEF new
  <1>6. ObjectsOK'
    <2>1. \A m \in Names : stores[m] # None => stores[m] \in DOMAIN objects
      BY ObjectsAre DEF StoresInv
    <2>2. \A p \in DOMAIN objects : objects[p].name \in Names
      BY ObjectsAre DEF StoresInv
    <2>3. \A u \in Threads : pc[u] \in Inside => on[u] \in DOMAIN objects
      BY DEF StoresInv, CallsOK, Inside, OnObject
    <2>4. QED
      BY <1>1, <1>2, <1>4, <1>5, <2>1, <2>2, <2>3 DEF OpenKnown, calls, StoresInv, ObjectsOK
  <1>7. rms.loaded
    BY <1>1, Loaded
  <1>8. QED
    BY <1>1, <1>2, <1>4, <1>6, <1>7, HandlesKeep DEF OpenKnown, calls, StoresInv, TypeOK

LEMMA CheckKeeps ==
    ASSUME RecordStoreAssumption, StoresInv, NEW t \in Threads, NEW o \in DOMAIN objects, Check(t, o),
           UNCHANGED unserved
    PROVE  Kept
  <1> USE DEF Check, Begin, memory
  <1>1. /\ pc'[t] = "checked" /\ on'[t] = o
        /\ \A u \in Threads \ {t} : pc'[u] = pc[u] /\ on'[u] = on[u]
        /\ pc' \in [Threads -> {"idle", "checked", "name", "persist", "create", "empty", "retry"}]
        /\ on' \in [Threads -> DOMAIN objects \cup Names \cup {None}]
    BY DEF StoresInv, TypeOK
  <1>2. ObjectsOK'
    BY <1>1 DEF StoresInv, ObjectsOK
  <1>3. objects \in Seq(Objs) /\ rms.loaded
    BY ObjectsAre, Loaded DEF StoresInv
  <1>4. QED
    BY <1>1, <1>2, <1>3, HandlesKeep

LEMMA ChangeRefusedKeeps ==
    ASSUME RecordStoreAssumption, StoresInv, NEW t \in Threads, ChangeRefused(t), UNCHANGED unserved
    PROVE  Kept
  <1> USE DEF ChangeRefused, Return, Begin, memory
  <1>1. /\ pc'[t] = "idle" /\ \A u \in Threads \ {t} : pc'[u] = pc[u] /\ on'[u] = on[u]
        /\ pc' \in [Threads -> {"idle", "checked", "name", "persist", "create", "empty", "retry"}]
        /\ on' \in [Threads -> DOMAIN objects \cup Names \cup {None}]
    BY DEF StoresInv, TypeOK
  <1>2. ObjectsOK'
    BY <1>1 DEF StoresInv, ObjectsOK, Inside
  <1>3. objects \in Seq(Objs) /\ rms.loaded
    BY ObjectsAre, Loaded DEF StoresInv
  <1>4. QED
    BY <1>1, <1>2, <1>3, HandlesKeep

\* The last handle is closed by the only thread that uses it.
LEMMA CloseKeeps ==
    ASSUME RecordStoreAssumption, ~Careless, StoresInv, NEW t \in Threads, Close(t), UNCHANGED unserved
    PROVE  Kept
  <1> USE DEF Close
  <1> DEFINE o == on[t]
             new == [objects[o] EXCEPT !.open = @ - 1]
  <1>1. o \in DOMAIN objects /\ objects[o].open > 0 /\ \A u \in Threads \ {t} : on[u] # o
    BY DEF StoresInv, CallsOK, ObjectsOK, OnObject, Inside
  <1>2. new \in Objs /\ new.name = objects[o].name /\ new.records = objects[o].records /\ objects[o].name \in Names
    BY SMTT(60), <1>1, ObjectsAre DEF StoresInv, Objs
  <1>3. objects' = [objects EXCEPT ![o] = new]
    OBVIOUS
  <1>4. /\ objects' \in Seq(Objs) /\ DOMAIN objects' = DOMAIN objects /\ objects'[o] = new
        /\ \A p \in DOMAIN objects \ {o} : objects'[p] = objects[p]
    <2> HIDE DEF new, o
    <2>1. QED
      BY <1>1, <1>2, <1>3, ObjectChanges DEF StoresInv
  <1> HIDE DEF new
  <1>5. /\ pc'[t] \in {"idle", "retry"} /\ (pc'[t] = "retry" => on'[t] = o)
        /\ \A u \in Threads \ {t} : pc'[u] = pc[u] /\ on'[u] = on[u]
        /\ pc' \in [Threads -> {"idle", "checked", "name", "persist", "create", "empty", "retry"}]
        /\ on' \in [Threads -> DOMAIN objects \cup Names \cup {None}]
    BY DEF StoresInv, TypeOK, Return, Begin
  <1>6. ObjectsOK'
    <2>1. \A m \in Names : stores[m] # None => stores[m] \in DOMAIN objects
      BY ObjectsAre DEF StoresInv
    <2>2. \A p \in DOMAIN objects : objects[p].name \in Names
      BY ObjectsAre DEF StoresInv
    <2>3. \A u \in Threads : pc[u] \in Inside => on[u] \in DOMAIN objects
      BY DEF StoresInv, CallsOK, Inside, OnObject
    <2>4. /\ \A m \in Names : stores[m] # None => objects'[stores[m]].name = m
          /\ \A p \in DOMAIN objects : objects'[p].name = objects[p].name
          /\ \A p \in DOMAIN objects : objects'[p].open > 0 => stores[objects'[p].name] = p
      BY <1>1, <1>2, <1>4, <2>1, <2>2 DEF StoresInv, ObjectsOK
    <2>5. \A u \in Threads : pc'[u] \in Inside => u # t /\ objects'[on'[u]].open > 0
      BY <1>1, <1>4, <1>5, <2>3 DEF StoresInv, ObjectsOK, Inside
    <2>6. QED
      BY <1>4, <2>4, <2>5 DEF ObjectsOK
  <1>7. rms.loaded
    BY <1>1, Loaded
  <1>8. \A p \in DOMAIN objects : objects'[p].name = objects[p].name /\ objects'[p].records = objects[p].records
    BY <1>2, <1>4
  <1>9. \A u \in Threads :
            \/ pc'[u] = pc[u] /\ on'[u] = on[u]
            \/ /\ pc[u] \in {"idle", "checked"} /\ pc'[u] \in {"idle", "checked", "retry"}
               /\ pc'[u] # "idle" => on'[u] \in DOMAIN objects
    BY <1>1, <1>5
  <1> HIDE DEF o
  <1>10. QED
    BY <1>4, <1>5, <1>6, <1>7, <1>8, <1>9, HandlesKeep

\* A store that is opened for the first time holds what the next session would find.
LEMMA OpenFirstKeeps ==
    ASSUME RecordStoreAssumption, StoresInv, NEW t \in Threads, NEW n \in Names, OpenFirst(t, n), UNCHANGED unserved
    PROVE  Kept
  <1> USE DEF OpenFirst
  <1> DEFINE known == LoadedIndex
  <1>1. known \in Lists /\ known.loaded /\ NamesOK(known) /\ TypeOK /\ stores[n] = None /\ n \in known.names
    BY LoadingKnows DEF StoresInv
  <1>2. PICK o \in Nat :
            /\ o \notin DOMAIN objects /\ o = stores'[n] /\ o # None
            /\ objects' \in Seq(Objs) /\ DOMAIN objects' = DOMAIN objects \cup {o}
            /\ objects'[o] = [name |-> n, records |-> FirstRecords(n, known), open |-> 1]
            /\ \A p \in DOMAIN objects : objects'[p] = objects[p]
            /\ stores' \in [Names -> DOMAIN objects' \cup {None}]
            /\ \A m \in Names \ {n} : stores'[m] = stores[m]
    <2> HIDE DEF known
    <2>1. NewObject(n, known)
      BY DEF known
    <2>2. QED
      BY <1>1, <2>1, ObjectAppears
  <1>3. n \notin unserved => FirstRecords(n, known) = ServedNext(n)
    BY <1>1, FirstIsNext
  <1>4. /\ rms' \in Lists /\ rms'.loaded /\ rms'.names = known.names /\ rms'.unwritten = known.unwritten
        /\ rms'.packaged = known.packaged \ {n}
    BY <1>1 DEF Unpacked, Lists
  <1> HIDE DEF known
  <1>5. /\ \A m \in Names : stores[m] = None \/ stores[m] \in DOMAIN objects
        /\ \A p \in DOMAIN objects : objects[p].name \in Names
        /\ \A u \in Threads : pc[u] \in OnObject => on[u] \in DOMAIN objects
        /\ \A u \in Threads : pc[u] \in Inside => on[u] \in DOMAIN objects
        /\ None \notin DOMAIN objects /\ DOMAIN Carried \subseteq Names
    BY ObjectsAre, KeysAre DEF StoresInv, CallsOK, Inside, OnObject
  <1>6. (\A k : Reaches(k)' = Reaches(k)) /\ (\A m : Emptying(m)' <=> Emptying(m)) /\ (\A p : Writing(p)' <=> Writing(p))
    BY DEF calls, Reaches, Emptying, Writing
  <1>7. TypeOK'
    BY <1>2, <1>4 DEF calls, TypeOK, StoresInv, Objs, Lists
  <1>8. CallsOK'
    BY <1>2 DEF calls, StoresInv, CallsOK
  <1>9. ObjectsOK'
    <2>1. \A m \in Names : stores'[m] # None => objects'[stores'[m]].name = m
      BY <1>2, <1>5 DEF StoresInv, ObjectsOK
    <2>2. \A p \in DOMAIN objects' : objects'[p].open > 0 => stores'[objects'[p].name] = p
      BY <1>1, <1>2, <1>5 DEF StoresInv, ObjectsOK
    <2>3. \A u \in Threads : pc'[u] \in Inside => objects'[on'[u]].open > 0
      BY <1>2, <1>5 DEF calls, StoresInv, ObjectsOK
    <2>4. QED
      BY <2>1, <2>2, <2>3 DEF ObjectsOK
  <1>10. ListsAgree(rms)' /\ AbsentOK(rms)'
    BY <1>1, <1>2, <1>4, <1>5, <1>6 DEF Lists, NamesOK, ListsAgree, AbsentOK, ReachedNames
  <1>11. UnwrittenOK(rms)'
    BY <1>1, <1>2, <1>4, <1>5, <1>6 DEF calls, Lists, NamesOK, ListsAgree, UnwrittenOK, OnObject
  <1>12. ObjectsAgree'
    BY <1>2, <1>3, <1>5, <1>6 DEF StoresInv, ObjectsAgree, ServedNext
  <1>13. Grown'
    <2>1. /\ host[n] # None => FirstRecords(n, known) = host[n] /\ Len(host[n]) \in Nat
          /\ pending[n] = None
      BY <1>1, RecordsAre DEF FirstRecords, NamesOK, AbsentOK, TypeOK
    <2>2. QED
      BY <1>2, <1>5, <2>1 DEF StoresInv, Grown
  <1>14. QED
    BY <1>4, <1>7, <1>8, <1>9, <1>10, <1>11, <1>12, <1>13 DEF Kept, StoresInv, NamesOK, BeforeIndex, NotCutShort

-----------------------------------------------------------------------------
(***************************************************************************)
(* A change, and what reaches the Host.                                    *)
(***************************************************************************)
LEMMA ChangeKeeps ==
    ASSUME RecordStoreAssumption, StoresInv, NEW t \in Threads, Change(t), UNCHANGED unserved
    PROVE  Kept
  <1> USE DEF Change
  <1> DEFINE o == on[t]
  <1>1. o \in DOMAIN objects /\ objects[o].open > 0 /\ objects[o] \in Objs /\ objects[o].records \in Records
    BY ObjectsAre DEF StoresInv, CallsOK, ObjectsOK, OnObject, Inside
  <1>2. PICK r \in Changed(objects[o].records) : objects' = [objects EXCEPT ![o].records = r]
    OBVIOUS
  <1>3. r \in Records /\ Len(objects[o].records) <= Len(r)
    BY <1>1, ChangedAre
  <1> DEFINE new == [objects[o] EXCEPT !.records = r]
  <1>4. /\ new \in Objs /\ new.name = objects[o].name /\ new.records = r /\ new.open = objects[o].open
        /\ objects[o].name \in Names
    BY <1>1, <1>3 DEF Objs
  <1>5. /\ objects' \in Seq(Objs) /\ DOMAIN objects' = DOMAIN objects /\ objects'[o] = new
        /\ \A p \in DOMAIN objects \ {o} : objects'[p] = objects[p]
    <2>1. objects' = [objects EXCEPT ![o] = new]
      BY <1>2
    <2> HIDE DEF new, o
    <2>2. QED
      BY <1>1, <1>4, <2>1, ObjectChanges DEF StoresInv
  <1> HIDE DEF new
  <1>6. /\ pc'[t] = "name" /\ \A u \in Threads \ {t} : pc'[u] = pc[u]
        /\ pc' \in [Threads -> {"idle", "checked", "name", "persist", "create", "empty", "retry"}]
    BY DEF StoresInv, TypeOK
  <1>7. /\ \A m \in Names : stores[m] = None \/ stores[m] \in DOMAIN objects
        /\ \A p \in DOMAIN objects : objects[p].name \in Names /\ objects[p].records \in Records
        /\ \A p \in DOMAIN objects : objects'[p].name = objects[p].name /\ objects'[p].open = objects[p].open
        /\ \A u \in Threads : pc[u] \in OnObject => on[u] \in DOMAIN objects
    BY <1>4, <1>5, ObjectsAre DEF StoresInv, CallsOK
  <1>8. (\A k : Reaches(k)' = Reaches(k)) /\ (\A m : Emptying(m)' <=> Emptying(m))
    BY <1>6 DEF Reaches, Emptying
  <1>9. TypeOK'
    BY <1>5, <1>6 DEF StoresInv, TypeOK, Objs
  <1>10. CallsOK'
    BY <1>5, <1>6 DEF StoresInv, CallsOK, OnObject
  <1>11. ObjectsOK'
    <2>1. \A u \in Threads : pc'[u] \in Inside => pc[u] \in Inside /\ on[u] \in DOMAIN objects
      BY <1>6, <1>7 DEF Inside, OnObject
    <2>2. QED
      BY <1>5, <1>7, <2>1 DEF StoresInv, ObjectsOK
  <1>12. rms.loaded
    BY <1>1, Loaded
  <1>13. ListsAgree(rms)' /\ AbsentOK(rms)'
    BY <1>8, <1>12 DEF StoresInv, NamesOK, ListsAgree, AbsentOK, ReachedNames
  <1>14. UnwrittenOK(rms)'
    BY <1>6, <1>7, <1>8, <1>12 DEF StoresInv, NamesOK, UnwrittenOK, OnObject
  <1>15. ObjectsAgree'
    <2> SUFFICES ASSUME NEW n \in Names \ unserved, stores[n] # None, ~Writing(stores[n])'
                 PROVE  objects'[stores[n]].records = ServedNext(n)'
      BY DEF ObjectsAgree
    <2>1. stores[n] # o
      BY <1>6 DEF Writing
    <2>2. ~Writing(stores[n])
      BY <1>6 DEF Writing
    <2>3. QED
      BY <1>5, <1>7, <1>8, <2>1, <2>2 DEF StoresInv, ObjectsAgree, ServedNext
  <1>16. Grown'
    <2> SUFFICES ASSUME NEW n \in Names, stores[n] # None
                 PROVE  /\ host[n] # None => Len(host[n]) <= Len(objects'[stores[n]].records)
                        /\ pending[n] # None => Len(pending[n]) <= Len(objects'[stores[n]].records)
      BY DEF StoresInv, Grown
    <2>1. /\ host[n] # None => Len(host[n]) \in Nat /\ Len(host[n]) <= Len(objects[stores[n]].records)
          /\ pending[n] # None => Len(pending[n]) \in Nat /\ Len(pending[n]) <= Len(objects[stores[n]].records)
      BY RecordsAre DEF StoresInv, Grown, TypeOK
    <2>2. Len(objects[stores[n]].records) \in Nat /\ Len(r) \in Nat
      BY <1>3, <1>7, RecordsAre
    <2>3. CASE stores[n] = o
      <3>1. objects'[stores[n]].records = r /\ objects[stores[n]].records = objects[o].records
        BY <1>4, <1>5, <2>3
      <3>2. Len(objects[stores[n]].records) <= Len(r)
        BY <1>3, <3>1
      <3> HIDE DEF o
      <3>3. QED
        BY <2>1, <2>2, <3>1, <3>2
    <2>4. CASE stores[n] # o
      BY <1>5, <1>7, <2>1, <2>4
    <2>5. QED
      BY <2>3, <2>4
  <1>17. QED
    BY <1>9, <1>10, <1>11, <1>12, <1>13, <1>14, <1>15, <1>16 DEF Kept, StoresInv, NamesOK, BeforeIndex, NotCutShort

\* A retry writes what is pending, and changes nothing of what the Host will hold.
LEMMA RetryKeeps ==
    ASSUME RecordStoreAssumption, StoresInv, NEW keys \in SUBSET StoreKeys, NEW done \in SUBSET Pending(keys),
           Retry(keys, done), UNCHANGED <<memory, held, unserved>>,
           pc' \in [Threads -> {"idle", "checked", "name", "persist", "create", "empty", "retry"}],
           on' \in [Threads -> DOMAIN objects \cup Names \cup {None}],
           \A t \in Threads : (pc'[t] = pc[t] /\ on'[t] = on[t]) \/ (pc[t] \in {"idle", "retry"} /\ pc'[t] = "idle")
    PROVE  Kept
  <1> USE DEF memory
  <1>1. /\ host' = [k \in StoreKeys |-> host'[k]] /\ pending' = [k \in StoreKeys |-> pending'[k]]
        /\ \A k \in StoreKeys :
            /\ Reaches(k)' = Reaches(k)
            /\ \/ host'[k] = host[k] /\ pending'[k] = pending[k]
               \/ host'[k] = pending[k] /\ pending'[k] = None /\ pending[k] # None
    BY RetryReaches DEF StoresInv
  <1>2. /\ Index \in StoreKeys /\ Names \subseteq StoreKeys /\ DOMAIN Carried \subseteq Names
    BY KeysAre DEF StoresInv
  <1>3. (\A n : Emptying(n)' <=> Emptying(n)) /\ (\A o : Writing(o)' <=> Writing(o))
    BY DEF Emptying, Writing
  <1>4. TypeOK'
    BY <1>1, <1>2 DEF StoresInv, TypeOK
  <1>5. CallsOK' /\ ObjectsOK'
    BY DEF StoresInv, CallsOK, ObjectsOK, OnObject, Inside
  <1>6. BeforeIndex'
    <2> SUFFICES ASSUME ~rms.loaded
                 PROVE  BeforeIndex'
      BY DEF BeforeIndex
    <2>1. pending = NoKeys /\ pc = AllIdle
      BY DEF StoresInv, BeforeIndex
    <2>2. host' = host /\ pending' = pending
      BY <1>1, <2>1 DEF StoresInv, TypeOK, NoKeys
    <2>3. pc' = pc
      BY <2>1 DEF StoresInv, TypeOK, AllIdle
    <2>4. QED
      BY <2>2, <2>3 DEF StoresInv, BeforeIndex, Seeded, Listed
  <1>7. rms.loaded => ListsAgree(rms)' /\ AbsentOK(rms)'
    <2> SUFFICES ASSUME rms.loaded
                 PROVE  ListsAgree(rms)' /\ AbsentOK(rms)'
      OBVIOUS
    <2>1. ListsAgree(rms)'
      BY <1>1, <1>2 DEF StoresInv, NamesOK, ListsAgree, ReachedNames
    <2>2. rms.names \subseteq Names
      BY DEF StoresInv, TypeOK
    <2>3. AbsentOK(rms)'
      BY <1>1, <1>2, <1>3, <2>2 DEF StoresInv, NamesOK, AbsentOK
    <2>4. QED
      BY <2>1, <2>3
  <1>8. rms.loaded => UnwrittenOK(rms)'
    <2>1. rms.unwritten \subseteq StoreKeys
      BY <1>2 DEF StoresInv, TypeOK
    <2>2. QED
      BY <1>1, <2>1 DEF StoresInv, NamesOK, UnwrittenOK
  <1>9. ObjectsAgree'
    BY <1>1, <1>2, <1>3 DEF StoresInv, ObjectsAgree, ServedNext
  <1>10. Grown'
    <2>1. \A n \in Names : pending[n] # None /\ host[n] # None => pending[n] = <<>> \/ Len(pending[n]) >= Len(host[n])
      BY DEF StoresInv, Grown
    <2>2. QED
      BY <1>1, <1>2, <2>1 DEF StoresInv, Grown
  <1>11. NotCutShort
    BY <1>1, <1>2 DEF StoresInv, Grown, NotCutShort, Deleting
  <1>12. QED
    BY <1>4, <1>5, <1>6, <1>7, <1>8, <1>9, <1>10, <1>11 DEF Kept, StoresInv, NamesOK

LEMMA RetryCloseKeeps ==
    ASSUME RecordStoreAssumption, StoresInv, NEW t \in Threads, RetryClose(t), UNCHANGED unserved
    PROVE  Kept
  <1>1. objects[on[t]].name \in Names
    BY ObjectsAre DEF RetryClose, StoresInv, CallsOK, OnObject
  <1>2. {Index, objects[on[t]].name} \in SUBSET StoreKeys
    BY <1>1, KeysAre DEF StoresInv
  <1>3. /\ pc' \in [Threads -> {"idle", "checked", "name", "persist", "create", "empty", "retry"}]
        /\ on' \in [Threads -> DOMAIN objects \cup Names \cup {None}]
        /\ \A u \in Threads :
            (pc'[u] = pc[u] /\ on'[u] = on[u]) \/ (pc[u] \in {"idle", "retry"} /\ pc'[u] = "idle")
    BY DEF RetryClose, Return, Begin, StoresInv, TypeOK
  <1>4. QED
    BY <1>2, <1>3, RetryKeeps DEF RetryClose

LEMMA FlushKeeps ==
    ASSUME RecordStoreAssumption, StoresInv, Flush, UNCHANGED unserved
    PROVE  Kept
  <1>1. /\ pc' \in [Threads -> {"idle", "checked", "name", "persist", "create", "empty", "retry"}]
        /\ on' \in [Threads -> DOMAIN objects \cup Names \cup {None}]
        /\ \A u \in Threads : pc'[u] = pc[u] /\ on'[u] = on[u]
    BY DEF Flush, calls, memory, StoresInv, TypeOK
  <1>2. QED
    BY <1>1, RetryKeeps DEF Flush, calls

\* The index names what is known but for what nothing has written; the rest of
\* what the Host will hold, and what is found there of it, stays.
LEMMA IndexIsStored ==
    ASSUME RecordStoreAssumption, StoresInv, NEW known \in Lists, StoreIndex(known)
    PROVE  /\ host' = [k \in StoreKeys |-> host'[k]] /\ pending' = [k \in StoreKeys |-> pending'[k]]
           /\ host'[Index] = None \/ host'[Index] \subseteq Names
           /\ pending'[Index] = None \/ pending'[Index] \subseteq Names
           /\ Reaches(Index)' # None /\ ReachedNames' = known.names \ known.unwritten
           /\ \A n \in Names : host'[n] = host[n] /\ pending'[n] = pending[n] /\ Reaches(n)' = Reaches(n)
  <1> DEFINE data == known.names \ known.unwritten
  <1>1. Index \in StoreKeys /\ Names \subseteq StoreKeys /\ Index \notin Names
    BY KeysAre DEF StoresInv
  <1>2. data \subseteq Names /\ data # None /\ StoreSave(Index, data)
    BY DEF Lists, StoreIndex, RecordStoreAssumption
  <1> HIDE DEF data
  <1>3. /\ host' = [k \in StoreKeys |-> host'[k]] /\ pending' = [k \in StoreKeys |-> pending'[k]]
        /\ Reaches(Index)' = data
        /\ \A k \in StoreKeys \ {Index} :
                host'[k] = host[k] /\ pending'[k] = pending[k] /\ Reaches(k)' = Reaches(k)
        /\ \/ host'[Index] = data /\ pending'[Index] = None
           \/ host'[Index] = host[Index] /\ pending'[Index] = data
    BY <1>1, <1>2, StoreSaves DEF StoresInv
  <1>4. ReachedNames' = data
    BY <1>2, <1>3 DEF ReachedNames
  <1>5. \A n \in Names : host'[n] = host[n] /\ pending'[n] = pending[n] /\ Reaches(n)' = Reaches(n)
    BY <1>1, <1>3
  <1>6. /\ host'[Index] = None \/ host'[Index] \subseteq Names
        /\ pending'[Index] = None \/ pending'[Index] \subseteq Names
    BY <1>2, <1>3 DEF StoresInv, TypeOK
  <1>7. QED
    BY <1>2, <1>3, <1>4, <1>5, <1>6 DEF data

\* The thread inside a store has the object the store is known by.
LEMMA InsideIsKnown ==
    ASSUME RecordStoreAssumption, StoresInv, NEW t \in Threads, pc[t] \in Inside
    PROVE  /\ on[t] \in DOMAIN objects /\ objects[on[t]].name \in Names
           /\ objects[on[t]].records \in Records
           /\ stores[objects[on[t]].name] = on[t] /\ on[t] # None
           /\ rms.loaded /\ objects[on[t]].name \in rms.names
           /\ \A m \in Names : stores[m] = on[t] => m = objects[on[t]].name
  <1>1. on[t] \in DOMAIN objects /\ objects[on[t]].open > 0
    BY DEF StoresInv, CallsOK, ObjectsOK, Inside, OnObject
  <1>2. objects[on[t]].name \in Names /\ objects[on[t]].records \in Records /\ on[t] # None
    BY <1>1, ObjectsAre DEF StoresInv
  <1>3. stores[objects[on[t]].name] = on[t] /\ rms.loaded
    BY <1>1, Loaded DEF StoresInv, ObjectsOK
  <1>4. objects[on[t]].name \in rms.names
    BY <1>2, <1>3 DEF StoresInv, NamesOK, AbsentOK
  <1>5. \A m \in Names : stores[m] = on[t] => m = objects[on[t]].name
    BY <1>2 DEF StoresInv, ObjectsOK
  <1>6. QED
    BY <1>1, <1>2, <1>3, <1>4, <1>5

LEMMA NameStoreKeeps ==
    ASSUME RecordStoreAssumption, StoresInv, NEW t \in Threads, NameStore(t), UNCHANGED unserved
    PROVE  Kept
  <1>1. PICK o \in DOMAIN objects, n \in Names :
            /\ o = on[t] /\ n = objects[o].name
            /\ stores[n] = o /\ o # None /\ rms.loaded /\ n \in rms.names
    BY InsideIsKnown DEF NameStore, Inside
  <1>2. /\ UNCHANGED <<objects, on, held, stores>>
        /\ pc'[t] = "persist" /\ pc[t] = "name" /\ \A u \in Threads \ {t} : pc'[u] = pc[u]
        /\ pc' \in [Threads -> {"idle", "checked", "name", "persist", "create", "empty", "retry"}]
    BY <1>1 DEF NameStore, StoresInv, TypeOK
  <1>3. /\ n \notin rms.unwritten => UNCHANGED <<host, pending, rms>>
        /\ n \in rms.unwritten =>
            rms' = [rms EXCEPT !.names = @ \cup {n}, !.unwritten = @ \ {n}] /\ StoreIndex(rms')
    BY <1>1 DEF NameStore
  <1>4. /\ rms \in Lists /\ rms' \in Lists /\ rms'.loaded /\ rms'.names = rms.names
        /\ rms'.packaged = rms.packaged /\ rms'.unwritten = rms.unwritten \ {n}
    <2>1. rms \in Lists
      BY DEF StoresInv, TypeOK, Lists
    <2>2. CASE n \in rms.unwritten
      <3> DEFINE new == [rms EXCEPT !.names = @ \cup {n}, !.unwritten = @ \ {n}]
      <3>1. /\ new.loaded = rms.loaded /\ new.packaged = rms.packaged
            /\ new.names = rms.names \cup {n} /\ new.unwritten = rms.unwritten \ {n} /\ new \in Lists
        BY <2>1 DEF Lists
      <3>2. rms.names \cup {n} = rms.names
        BY <1>1
      <3>3. rms' = new
        BY <1>3, <2>2
      <3> HIDE DEF new
      <3>4. QED
        BY <1>1, <2>1, <3>1, <3>2, <3>3
    <2>3. CASE n \notin rms.unwritten
      BY <1>1, <1>3, <2>1, <2>3 DEF Lists
    <2>4. QED
      BY <2>2, <2>3
  <1>5. /\ host' = [k \in StoreKeys |-> host'[k]] /\ pending' = [k \in StoreKeys |-> pending'[k]]
        /\ host'[Index] = None \/ host'[Index] \subseteq Names
        /\ pending'[Index] = None \/ pending'[Index] \subseteq Names
        /\ Reaches(Index)' = Reaches(Index) \/ Reaches(Index)' # None
        /\ ReachedNames' \ rms'.unwritten = rms'.names \ rms'.unwritten
        /\ \A m \in Names \ {n} : m \notin rms.unwritten => (m \in ReachedNames' <=> m \in ReachedNames)
        /\ \A m \in Names : host'[m] = host[m] /\ pending'[m] = pending[m] /\ Reaches(m)' = Reaches(m)
    <2>1. ReachedNames \ rms.unwritten = rms.names \ rms.unwritten
      BY <1>1 DEF StoresInv, NamesOK, ListsAgree
    <2>2. CASE n \notin rms.unwritten
      <3>1. host' = host /\ pending' = pending
        BY <1>3, <2>2
      <3>2. \A k : Reaches(k)' = Reaches(k)
        BY <3>1 DEF Reaches
      <3>3. ReachedNames' = ReachedNames
        BY <3>2 DEF ReachedNames
      <3>4. rms'.unwritten = rms.unwritten /\ rms'.names = rms.names
        BY <1>4, <2>2
      <3>5. QED
        BY <2>1, <3>1, <3>2, <3>3, <3>4 DEF StoresInv, TypeOK
    <2>3. CASE n \in rms.unwritten
      <3>1. StoreIndex(rms')
        BY <1>3, <2>3
      <3>2. PICK known \in Lists : known = rms' /\ StoreIndex(known)
        BY <1>4, <3>1
      <3>3. /\ host' = [k \in StoreKeys |-> host'[k]] /\ pending' = [k \in StoreKeys |-> pending'[k]]
            /\ host'[Index] = None \/ host'[Index] \subseteq Names
            /\ pending'[Index] = None \/ pending'[Index] \subseteq Names
            /\ Reaches(Index)' # None /\ ReachedNames' = known.names \ known.unwritten
            /\ \A m \in Names : host'[m] = host[m] /\ pending'[m] = pending[m] /\ Reaches(m)' = Reaches(m)
        BY <3>2, IndexIsStored
      <3>4. QED
        BY <1>4, <2>1, <3>2, <3>3
    <2>4. QED
      BY <2>2, <2>3
  <1>6. (\A m : Emptying(m)' <=> Emptying(m)) /\ (\A p : Writing(p)' <=> Writing(p)) /\ DOMAIN Carried \subseteq Names
    BY <1>2, KeysAre DEF Emptying, Writing, StoresInv
  <1>7. TypeOK'
    BY <1>2, <1>4, <1>5 DEF StoresInv, TypeOK, Lists
  <1>8. CallsOK' /\ ObjectsOK'
    BY <1>2 DEF StoresInv, CallsOK, ObjectsOK, OnObject, Inside
  <1>9. ListsAgree(rms)'
    BY <1>1, <1>4, <1>5 DEF StoresInv, NamesOK, ListsAgree, UnwrittenOK
  <1>10. UnwrittenOK(rms)'
    BY <1>1, <1>2, <1>4, <1>5, <1>6 DEF StoresInv, NamesOK, UnwrittenOK, Lists
  <1>11. AbsentOK(rms)'
    BY <1>1, <1>2, <1>4, <1>5, <1>6 DEF StoresInv, NamesOK, AbsentOK, Lists
  <1>12. ObjectsAgree'
    <2> SUFFICES ASSUME NEW m \in Names \ unserved, stores[m] # None, ~Writing(stores[m])
                 PROVE  objects[stores[m]].records = ServedNext(m)'
      BY <1>2, <1>6 DEF ObjectsAgree, NameStore
    <2>1. m # n
      BY <1>1, <1>2 DEF Writing
    <2>2. m \in rms.unwritten => m \in DOMAIN Carried /\ Reaches(m) = None
      BY <1>1, <1>4 DEF StoresInv, NamesOK, UnwrittenOK, Lists
    <2>3. ServedNext(m)' = ServedNext(m)
      BY <1>5, <2>1, <2>2, ServedNextKept DEF StoresInv
    <2>4. QED
      BY <2>3 DEF StoresInv, ObjectsAgree
  <1>13. Grown' /\ NotCutShort
    BY <1>2, <1>5 DEF StoresInv, Grown, NotCutShort
  <1>14. QED
    BY <1>4, <1>7, <1>8, <1>9, <1>10, <1>11, <1>12, <1>13 DEF Kept, StoresInv, NamesOK, BeforeIndex

\* What is written is the newest there is of the store.
LEMMA PersistKeeps ==
    ASSUME RecordStoreAssumption, StoresInv, NEW t \in Threads, Persist(t), UNCHANGED unserved
    PROVE  Kept
  <1>1. PICK o \in DOMAIN objects, n \in Names, r \in Records :
            /\ o = on[t] /\ n = objects[o].name /\ r = objects[o].records
            /\ stores[n] = o /\ o # None /\ rms.loaded
            /\ n \in rms.names /\ \A m \in Names : stores[m] = o => m = n
    BY InsideIsKnown DEF Persist, Inside
  <1>2. n \notin rms.unwritten
    BY <1>1 DEF Persist, StoresInv, NamesOK, UnwrittenOK
  <1>3. /\ Index \in StoreKeys /\ Names \subseteq StoreKeys /\ Index \notin Names /\ DOMAIN Carried \subseteq Names
    BY KeysAre DEF StoresInv
  <1>4. StoreSave(n, r) /\ UNCHANGED <<rms, stores, objects>> /\ held' = IF held = t THEN None ELSE held
    BY <1>1 DEF Persist, Encoded, memory
  <1>5. /\ pc[t] \in {"persist", "create"} /\ pc'[t] = "idle" /\ on'[t] = None
        /\ \A u \in Threads \ {t} : pc'[u] = pc[u] /\ on'[u] = on[u]
        /\ pc' \in [Threads -> {"idle", "checked", "name", "persist", "create", "empty", "retry"}]
        /\ on' \in [Threads -> DOMAIN objects \cup Names \cup {None}]
    BY DEF Persist, Return, Begin, StoresInv, TypeOK
  <1>6. /\ host' = [k \in StoreKeys |-> host'[k]] /\ pending' = [k \in StoreKeys |-> pending'[k]]
        /\ Reaches(n)' = r
        /\ \A k \in StoreKeys \ {n} : host'[k] = host[k] /\ pending'[k] = pending[k] /\ Reaches(k)' = Reaches(k)
        /\ \/ host'[n] = r /\ pending'[n] = None
           \/ host'[n] = host[n] /\ pending'[n] = r
    <2>1. r # None /\ n \in StoreKeys
      BY <1>1, <1>3, RecordsAre
    <2>2. QED
      BY <1>4, <2>1, StoreSaves DEF StoresInv
  <1>7. ReachedNames' = ReachedNames /\ Reaches(Index)' = Reaches(Index) /\ host'[Index] = host[Index] /\ pending'[Index] = pending[Index]
    BY <1>1, <1>3, <1>6 DEF ReachedNames
  <1>8. (\A m : Emptying(m)' <=> Emptying(m)) /\ \A p : Writing(p)' => Writing(p)
    BY <1>5 DEF Emptying, Writing
  <1>9. \A p : p # o => (Writing(p)' <=> Writing(p))
    BY <1>1, <1>5 DEF Writing
  <1>10. TypeOK'
    <2>1. \A m \in Names : host'[m] \in Records \cup {None} /\ pending'[m] \in Records \cup {None}
      BY ZenonT(60), <1>1, <1>3, <1>6 DEF StoresInv, TypeOK
    <2>2. held' \in Threads \cup {None}
      BY <1>4 DEF StoresInv, TypeOK
    <2>3. QED
      BY <1>4, <1>5, <1>6, <1>7, <2>1, <2>2 DEF StoresInv, TypeOK
  <1>11. CallsOK'
    BY <1>4, <1>5 DEF StoresInv, CallsOK, OnObject, RecordStoreAssumption
  <1>12. ObjectsOK'
    BY <1>4, <1>5 DEF StoresInv, ObjectsOK, Inside
  <1>13. ListsAgree(rms)' /\ UnwrittenOK(rms)'
    <2>1. rms.unwritten \subseteq Names
      BY <1>3 DEF StoresInv, TypeOK
    <2>2. \A u \in Threads : pc'[u] \in {"persist", "create"} => pc[u] = pc'[u] /\ on'[u] = on[u]
      BY <1>5
    <2>3. QED
      BY <1>1, <1>2, <1>3, <1>4, <1>6, <1>7, <2>1, <2>2 DEF StoresInv, NamesOK, ListsAgree, UnwrittenOK
  <1>14. AbsentOK(rms)'
    <2>1. rms.names \subseteq Names
      BY DEF StoresInv, TypeOK
    <2>2. QED
      BY <1>1, <1>3, <1>4, <1>6, <1>8, <2>1 DEF StoresInv, NamesOK, AbsentOK
  <1>15. ObjectsAgree'
    <2> SUFFICES ASSUME NEW m \in Names \ unserved, stores[m] # None, ~Writing(stores[m])'
                 PROVE  objects[stores[m]].records = ServedNext(m)'
      BY <1>4 DEF ObjectsAgree
    <2>1. CASE m = n
      <3>1. n \in ReachedNames
        BY <1>1, <1>2 DEF StoresInv, NamesOK, ListsAgree
      <3>2. ServedNext(n)' = r
        BY <1>1, <1>6, <1>7, <3>1, RecordsAre DEF ServedNext, ReachedNames
      <3>3. QED
        BY <1>1, <2>1, <3>2
    <2>2. CASE m # n
      <3>1. ~Writing(stores[m])
        BY <1>1, <1>4, <1>9, <2>2
      <3>2. ServedNext(m)' = ServedNext(m)
        BY <1>3, <1>6, <1>7, <2>2 DEF ServedNext
      <3>3. QED
        BY <3>1, <3>2 DEF StoresInv, ObjectsAgree
    <2>3. QED
      BY <2>1, <2>2
  <1>16. Len(r) \in Nat /\ (host[n] # None => Len(host[n]) \in Nat /\ Len(host[n]) <= Len(r))
    BY <1>1, RecordsAre DEF StoresInv, Grown, TypeOK
  <1>17. Grown'
    <2>1. objects'[stores'[n]].records = r
      BY <1>1, <1>4
    <2>2. QED
      BY <1>3, <1>4, <1>6, <1>16, <2>1 DEF StoresInv, Grown
  <1>18. NotCutShort
    BY <1>3, <1>6, <1>16 DEF NotCutShort
  <1>19. QED
    BY <1>1, <1>4, <1>10, <1>11, <1>12, <1>13, <1>14, <1>15, <1>17, <1>18 DEF Kept, StoresInv, NamesOK, BeforeIndex

\* A new name is put in the index; its records are under way.
LEMMA CreateKeeps ==
    ASSUME RecordStoreAssumption, StoresInv, NEW t \in Threads, NEW n \in Names, Create(t, n), UNCHANGED unserved
    PROVE  Kept
  <1>1. PICK known \in Lists : known = LoadedIndex /\ known.loaded /\ NamesOK(known)
    BY LoadingKnows
  <1>2. TypeOK /\ stores[n] = None /\ n \notin known.names /\ held = None /\ pc[t] = "idle"
    BY <1>1 DEF Create, StoresInv
  <1>3. PICK o \in Nat :
            /\ o \notin DOMAIN objects /\ o = stores'[n] /\ o # None
            /\ objects' \in Seq(Objs) /\ DOMAIN objects' = DOMAIN objects \cup {o}
            /\ objects'[o] = [name |-> n, records |-> FirstRecords(n, known), open |-> 1]
            /\ \A p \in DOMAIN objects : objects'[p] = objects[p]
            /\ stores' \in [Names -> DOMAIN objects' \cup {None}]
            /\ \A m \in Names \ {n} : stores'[m] = stores[m]
    <2>1. NewObject(n, known)
      BY <1>1 DEF Create
    <2>2. QED
      BY <1>2, <2>1, ObjectAppears
  <1>4. PICK new \in Lists :
            /\ rms' = new /\ new.loaded /\ new.names = known.names \cup {n}
            /\ new.unwritten = known.unwritten /\ new.packaged = known.packaged
    <2>1. rms' = [known EXCEPT !.names = @ \cup {n}]
      BY <1>1 DEF Create
    <2>2. QED
      BY <1>1, <2>1 DEF Lists
  <1>5. /\ host' = [k \in StoreKeys |-> host'[k]] /\ pending' = [k \in StoreKeys |-> pending'[k]]
        /\ host'[Index] = None \/ host'[Index] \subseteq Names
        /\ pending'[Index] = None \/ pending'[Index] \subseteq Names
        /\ Reaches(Index)' # None /\ ReachedNames' = new.names \ new.unwritten
        /\ \A m \in Names : host'[m] = host[m] /\ pending'[m] = pending[m] /\ Reaches(m)' = Reaches(m)
    <2>1. StoreIndex(new)
      BY <1>4 DEF Create
    <2>2. QED
      BY <2>1, IndexIsStored
  <1>6. /\ pc'[t] = "create" /\ on'[t] = o /\ held' = t
        /\ \A u \in Threads \ {t} : pc'[u] = pc[u] /\ on'[u] = on[u]
        /\ pc' \in [Threads -> {"idle", "checked", "name", "persist", "create", "empty", "retry"}]
        /\ on' \in [Threads -> DOMAIN objects' \cup Names \cup {None}]
    BY <1>3 DEF Create, Begin, StoresInv, TypeOK
  <1>7. /\ \A m \in Names : stores[m] = None \/ stores[m] \in DOMAIN objects
        /\ \A p \in DOMAIN objects : objects[p].name \in Names
        /\ \A u \in Threads : pc[u] \in OnObject => on[u] \in DOMAIN objects
        /\ \A u \in Threads : pc[u] \in Inside => on[u] \in DOMAIN objects
        /\ None \notin DOMAIN objects /\ DOMAIN Carried \subseteq Names
        /\ known.names \subseteq Names
    BY ObjectsAre, KeysAre DEF StoresInv, CallsOK, Inside, OnObject, Lists
  <1>8. (\A m : Emptying(m)' <=> Emptying(m)) /\ (\A p : p # o => (Writing(p)' <=> Writing(p))) /\ Writing(o)'
    BY <1>2, <1>6 DEF Emptying, Writing
  <1>9. \A m : ~Emptying(m)
    BY <1>2 DEF Emptying, StoresInv, CallsOK, RecordStoreAssumption
  <1>10. TypeOK'
    <2>1. rms' \in Lists
      BY <1>4
    <2>2. UNCHANGED unserved
      OBVIOUS
    <2>3. \A m \in Names : host'[m] \in Records \cup {None} /\ pending'[m] \in Records \cup {None}
      BY <1>2, <1>5 DEF TypeOK
    <2>4. unserved' \subseteq DOMAIN Carried
      BY <1>2 DEF TypeOK
    <2>5. QED
      BY <1>3, <1>5, <1>6, <2>1, <2>3, <2>4 DEF TypeOK, Objs, Lists
  <1>11. CallsOK'
    <2>1. \A u \in Threads : held' = u <=> pc'[u] \in {"create", "empty"}
      BY <1>2, <1>6 DEF StoresInv, CallsOK, RecordStoreAssumption
    <2>2. QED
      BY <1>3, <1>6, <2>1 DEF StoresInv, CallsOK, OnObject
  <1>12. ObjectsOK'
    <2>1. \A m \in Names : stores'[m] # None => objects'[stores'[m]].name = m
      BY <1>3, <1>7 DEF StoresInv, ObjectsOK
    <2>2. \A p \in DOMAIN objects' : objects'[p].open > 0 => stores'[objects'[p].name] = p
      BY <1>2, <1>3, <1>7 DEF StoresInv, ObjectsOK
    <2>3. \A u \in Threads : pc'[u] \in Inside => objects'[on'[u]].open > 0
      BY <1>3, <1>6, <1>7 DEF StoresInv, ObjectsOK
    <2>4. QED
      BY <2>1, <2>2, <2>3 DEF ObjectsOK
  <1>13. ListsAgree(rms)'
    BY <1>1, <1>4, <1>5 DEF NamesOK, ListsAgree
  <1>14. UnwrittenOK(rms)'
    <2>1. known.unwritten \subseteq known.names /\ known.packaged \subseteq known.names
      BY <1>1 DEF NamesOK, ListsAgree
    <2>2. \A m \in known.unwritten : Reaches(m)' = None
      BY <1>1, <1>5, <1>7, <2>1 DEF NamesOK, UnwrittenOK
    <2>3. /\ \A m \in known.packaged : stores'[m] = None
          /\ \A m \in known.unwritten \ known.packaged : stores'[m] # None \/ m \in unserved'
      BY <1>1, <1>2, <1>3, <1>7, <2>1 DEF NamesOK, UnwrittenOK
    <2>4. \A u \in Threads \ {t} : pc[u] \in {"persist", "create"} =>
            on[u] \in DOMAIN objects /\ objects[on[u]].name \notin known.unwritten
      BY <1>1, <1>7 DEF NamesOK, UnwrittenOK, OnObject
    <2>5. \A u \in Threads : pc'[u] \in {"persist", "create"} => objects'[on'[u]].name \notin known.unwritten
      BY <1>2, <1>3, <1>6, <2>1, <2>4
    <2>6. QED
      BY <1>4, <2>2, <2>3, <2>5 DEF UnwrittenOK
  <1>15. AbsentOK(rms)'
    BY <1>1, <1>3, <1>4, <1>5, <1>7, <1>8, <1>9 DEF NamesOK, AbsentOK
  <1>16. ObjectsAgree'
    <2> SUFFICES ASSUME NEW m \in Names \ unserved, stores'[m] # None, ~Writing(stores[m])'
                 PROVE  objects'[stores'[m]].records = ServedNext(m)'
      BY DEF ObjectsAgree
    <2>1. m # n /\ stores'[m] = stores[m] /\ stores[m] \in DOMAIN objects
      BY <1>3, <1>7, <1>8
    <2>2. ~Writing(stores[m])
      BY <1>3, <1>8, <2>1
    <2>3. m \in known.names
      BY <1>1, <2>1, <1>3 DEF NamesOK, AbsentOK
    <2>4. m \in known.unwritten => m \in DOMAIN Carried /\ Reaches(m) = None
      BY <1>1 DEF NamesOK, UnwrittenOK, Lists
    <2>5. m \notin known.unwritten => (m \in ReachedNames' <=> m \in ReachedNames)
      BY <1>1, <1>4, <1>5, <2>1, <2>3 DEF NamesOK, ListsAgree
    <2>6. ServedNext(m)' = ServedNext(m)
      BY <1>2, <1>5, <2>4, <2>5, ServedNextKept
    <2>7. QED
      BY <1>3, <2>1, <2>2, <2>6 DEF StoresInv, ObjectsAgree
  <1>17. Grown'
    <2>1. /\ pending[n] \in {None, <<>>}
          /\ host[n] # None => Len(host[n]) \in Nat /\ Len(host[n]) <= Len(FirstRecords(n, known))
          /\ Len(<<>>) <= Len(FirstRecords(n, known))
      <3>1. pending[n] \in {None, <<>>}
        BY <1>1, <1>2, <1>9 DEF NamesOK, AbsentOK
      <3>2. host[n] # None => host[n] \in Records
        BY <1>2 DEF TypeOK
      <3>3. FirstRecords(n, known) \in Records
        BY <1>2, FirstAre
      <3>4. host[n] # None => FirstRecords(n, known) = host[n] \/ host[n] = <<>>
        BY DEF FirstRecords
      <3>5. QED
        BY <3>1, <3>2, <3>3, <3>4, RecordsAre, NoRecords
    <2>2. QED
      BY <1>3, <1>5, <1>7, <2>1 DEF StoresInv, Grown
  <1>18. NotCutShort
    BY <1>5 DEF NotCutShort
  <1>19. QED
    BY <1>4, <1>10, <1>11, <1>12, <1>13, <1>14, <1>15, <1>16, <1>17, <1>18 DEF Kept, StoresInv, NamesOK, BeforeIndex

LEMMA DeleteKeeps ==
    ASSUME RecordStoreAssumption, StoresInv, NEW t \in Threads, NEW n \in Names, DeleteStore(t, n), UNCHANGED unserved
    PROVE  Kept
  <1>1. PICK known \in Lists : known = LoadedIndex /\ known.loaded /\ NamesOK(known)
    BY LoadingKnows
  <1>2. TypeOK /\ held = None /\ pc[t] = "idle" /\ UNCHANGED objects /\ (stores[n] # None => objects[stores[n]].open <= 0)
    BY DEF DeleteStore, StoresInv
  <1>3. stores' \in [Names -> DOMAIN objects \cup {None}] /\ stores'[n] = None /\ \A m \in Names \ {n} : stores'[m] = stores[m]
    BY <1>2 DEF DeleteStore, TypeOK
  <1>4. PICK new \in Lists :
            /\ rms' = new /\ new.loaded /\ new.names = known.names \ {n}
            /\ new.unwritten = known.unwritten \ {n} /\ new.packaged = known.packaged \ {n}
    <2> DEFINE new == [known EXCEPT !.names = @ \ {n}, !.packaged = @ \ {n}, !.unwritten = @ \ {n}]
    <2>1. rms' = new
      BY <1>1 DEF DeleteStore
    <2>2. /\ new \in Lists /\ new.loaded /\ new.names = known.names \ {n}
          /\ new.unwritten = known.unwritten \ {n} /\ new.packaged = known.packaged \ {n}
      BY <1>1 DEF Lists
    <2> HIDE DEF new
    <2>3. QED
      BY <2>1, <2>2
  <1>5. /\ host' = [k \in StoreKeys |-> host'[k]] /\ pending' = [k \in StoreKeys |-> pending'[k]]
        /\ host'[Index] = None \/ host'[Index] \subseteq Names
        /\ pending'[Index] = None \/ pending'[Index] \subseteq Names
        /\ Reaches(Index)' # None /\ ReachedNames' = new.names \ new.unwritten
        /\ \A m \in Names : host'[m] = host[m] /\ pending'[m] = pending[m] /\ Reaches(m)' = Reaches(m)
    <2>1. StoreIndex(new)
      BY <1>4 DEF DeleteStore
    <2>2. QED
      BY <2>1, IndexIsStored
  <1>6. /\ pc'[t] = "empty" /\ on'[t] = n /\ held' = t
        /\ \A u \in Threads \ {t} : pc'[u] = pc[u] /\ on'[u] = on[u]
        /\ pc' \in [Threads -> {"idle", "checked", "name", "persist", "create", "empty", "retry"}]
        /\ on' \in [Threads -> DOMAIN objects \cup Names \cup {None}]
    BY DEF DeleteStore, Begin, StoresInv, TypeOK
  <1>7. /\ \A m \in Names : stores[m] = None \/ stores[m] \in DOMAIN objects
        /\ \A p \in DOMAIN objects : objects[p].name \in Names /\ objects[p].open \in Int
        /\ None \notin DOMAIN objects /\ DOMAIN Carried \subseteq Names
        /\ known.names \subseteq Names
    BY ObjectsAre, KeysAre DEF StoresInv, Lists
  <1>8. (\A m : Emptying(m)' <=> m = n) /\ (\A m : ~Emptying(m)) /\ (\A p : Writing(p)' <=> Writing(p))
    <2>1. \A u \in Threads : pc[u] # "empty"
      BY <1>2 DEF StoresInv, CallsOK, RecordStoreAssumption
    <2>2. QED
      BY <1>2, <1>6, <2>1 DEF Emptying, Writing
  <1>9. TypeOK'
    <2>1. rms' \in Lists
      BY <1>4
    <2>2. \A m \in Names : host'[m] \in Records \cup {None} /\ pending'[m] \in Records \cup {None}
      BY <1>2, <1>5 DEF TypeOK
    <2>3. unserved' \subseteq DOMAIN Carried
      BY <1>2 DEF TypeOK
    <2>4. QED
      BY <1>2, <1>3, <1>5, <1>6, <2>1, <2>2, <2>3 DEF TypeOK, Lists
  <1>10. CallsOK'
    <2>1. \A u \in Threads : held' = u <=> pc'[u] \in {"create", "empty"}
      BY <1>2, <1>6 DEF StoresInv, CallsOK, RecordStoreAssumption
    <2>2. QED
      BY <1>2, <1>6, <2>1 DEF StoresInv, CallsOK, OnObject
  <1>11. ObjectsOK'
    <2>1. \A m \in Names : stores'[m] # None => objects'[stores'[m]].name = m
      BY <1>2, <1>3 DEF StoresInv, ObjectsOK
    <2>2. \A p \in DOMAIN objects : objects[p].open > 0 => stores[objects[p].name] = p /\ objects[p].name # n
      BY <1>2, <1>7 DEF StoresInv, ObjectsOK
    <2>3. \A u \in Threads : pc'[u] \in Inside => pc[u] \in Inside /\ on'[u] = on[u]
      BY <1>6 DEF Inside
    <2>4. QED
      BY <1>2, <1>3, <1>7, <2>1, <2>2, <2>3 DEF StoresInv, ObjectsOK
  <1>12. ListsAgree(rms)'
    BY <1>1, <1>4, <1>5 DEF NamesOK, ListsAgree
  <1>13. UnwrittenOK(rms)'
    <2>1. known.unwritten \subseteq Names /\ known.packaged \subseteq Names
      BY <1>7 DEF Lists
    <2>2. \A u \in Threads : pc'[u] \in {"persist", "create"} => pc'[u] = pc[u] /\ on'[u] = on[u]
      BY <1>6
    <2>3. QED
      BY <1>1, <1>2, <1>3, <1>4, <1>5, <2>1, <2>2 DEF NamesOK, UnwrittenOK
  <1>14. AbsentOK(rms)'
    BY <1>1, <1>3, <1>4, <1>5, <1>7, <1>8 DEF NamesOK, AbsentOK
  <1>15. ObjectsAgree'
    <2> SUFFICES ASSUME NEW m \in Names \ unserved, stores'[m] # None, ~Writing(stores[m])'
                 PROVE  objects'[stores'[m]].records = ServedNext(m)'
      BY DEF ObjectsAgree
    <2>1. m # n /\ stores'[m] = stores[m] /\ ~Writing(stores[m])
      BY <1>3, <1>8
    <2>2. m \in known.names
      BY <1>1, <1>3, <2>1 DEF NamesOK, AbsentOK
    <2>3. m \in known.unwritten => m \in DOMAIN Carried /\ Reaches(m) = None
      BY <1>1 DEF NamesOK, UnwrittenOK, Lists
    <2>4. m \notin known.unwritten => (m \in ReachedNames' <=> m \in ReachedNames)
      BY <1>1, <1>4, <1>5, <2>1, <2>2 DEF NamesOK, ListsAgree
    <2>5. ServedNext(m)' = ServedNext(m)
      BY <1>2, <1>5, <2>3, <2>4, ServedNextKept
    <2>6. QED
      BY <1>2, <1>3, <2>1, <2>5 DEF StoresInv, ObjectsAgree
  <1>16. Grown' /\ NotCutShort
    BY <1>2, <1>3, <1>5 DEF StoresInv, Grown, NotCutShort
  <1>17. QED
    BY <1>4, <1>9, <1>10, <1>11, <1>12, <1>13, <1>14, <1>15, <1>16 DEF Kept, StoresInv, NamesOK, BeforeIndex

LEMMA EmptyStoreKeeps ==
    ASSUME RecordStoreAssumption, StoresInv, NEW t \in Threads, EmptyStore(t), UNCHANGED unserved
    PROVE  Kept
  <1>1. PICK n \in Names : n = on[t]
    BY DEF EmptyStore, StoresInv, CallsOK
  <1>2. /\ pc[t] = "empty" /\ held = t /\ Emptying(n) /\ rms.loaded /\ UNCHANGED <<rms, stores, objects>>
        /\ held' = None /\ pc'[t] = "idle" /\ \A u \in Threads \ {t} : pc'[u] = pc[u] /\ on'[u] = on[u]
        /\ pc' \in [Threads -> {"idle", "checked", "name", "persist", "create", "empty", "retry"}]
        /\ on' \in [Threads -> DOMAIN objects \cup Names \cup {None}]
    BY <1>1, Loaded DEF EmptyStore, Return, Begin, memory, Emptying, StoresInv, CallsOK, TypeOK
  <1>3. n \notin rms.names /\ stores[n] = None /\ n \notin rms.unwritten
    BY <1>2 DEF StoresInv, NamesOK, AbsentOK, ListsAgree
  <1>4. /\ Index \in StoreKeys /\ Names \subseteq StoreKeys /\ Index \notin Names /\ DOMAIN Carried \subseteq Names
        /\ rms.names \subseteq Names /\ rms.unwritten \subseteq Names
    BY KeysAre DEF StoresInv, TypeOK
  <1>5. /\ host' = [k \in StoreKeys |-> host'[k]] /\ pending' = [k \in StoreKeys |-> pending'[k]]
        /\ Reaches(n)' = <<>>
        /\ \A k \in StoreKeys \ {n} : host'[k] = host[k] /\ pending'[k] = pending[k] /\ Reaches(k)' = Reaches(k)
        /\ \/ host'[n] = <<>> /\ pending'[n] = None
           \/ host'[n] = host[n] /\ pending'[n] = <<>>
    <2>1. StoreSave(n, <<>>) /\ <<>> # None /\ n \in StoreKeys
      BY <1>1, <1>4, NoRecords DEF EmptyStore
    <2>2. QED
      BY <2>1, StoreSaves DEF StoresInv
  <1>6. ReachedNames' = ReachedNames /\ Reaches(Index)' = Reaches(Index) /\ host'[Index] = host[Index] /\ pending'[Index] = pending[Index]
    BY <1>4, <1>5 DEF ReachedNames
  <1>7. (\A m : m # n => (Emptying(m)' <=> Emptying(m))) /\ (\A m : Emptying(m)' => Emptying(m))
        /\ (\A p : Writing(p)' <=> Writing(p))
    BY <1>1, <1>2 DEF Emptying, Writing
  <1>8. TypeOK'
    <2>1. \A m \in Names : host'[m] \in Records \cup {None} /\ pending'[m] \in Records \cup {None}
      BY <1>4, <1>5, NoRecords DEF StoresInv, TypeOK
    <2>2. QED
      BY <1>2, <1>5, <1>6, <2>1 DEF StoresInv, TypeOK
  <1>9. CallsOK' /\ ObjectsOK'
    <2>1. \A u \in Threads : held' # u /\ pc'[u] \notin {"create", "empty"}
      BY <1>2 DEF StoresInv, CallsOK, RecordStoreAssumption
    <2>2. QED
      BY <1>2, <2>1 DEF StoresInv, CallsOK, ObjectsOK, OnObject, Inside
  <1>10. ListsAgree(rms)' /\ UnwrittenOK(rms)'
    <2>1. \A u \in Threads : pc'[u] \in {"persist", "create"} => pc'[u] = pc[u] /\ on'[u] = on[u]
      BY <1>2
    <2>2. QED
      BY <1>2, <1>3, <1>4, <1>5, <1>6, <2>1 DEF StoresInv, NamesOK, ListsAgree, UnwrittenOK
  <1>11. AbsentOK(rms)'
    BY <1>2, <1>3, <1>4, <1>5, <1>7, NoRecords DEF StoresInv, NamesOK, AbsentOK
  <1>12. ObjectsAgree'
    <2> SUFFICES ASSUME NEW m \in Names \ unserved, stores[m] # None, ~Writing(stores[m])
                 PROVE  objects[stores[m]].records = ServedNext(m)'
      BY <1>2, <1>7 DEF ObjectsAgree
    <2>1. ServedNext(m)' = ServedNext(m)
      BY <1>3, <1>4, <1>5, <1>6 DEF ServedNext
    <2>2. QED
      BY <2>1 DEF StoresInv, ObjectsAgree
  <1>13. Grown'
    BY <1>2, <1>3, <1>4, <1>5 DEF StoresInv, Grown
  <1>14. NotCutShort
    BY <1>1, <1>2, <1>4, <1>5 DEF NotCutShort, Deleting
  <1>15. QED
    BY <1>2, <1>8, <1>9, <1>10, <1>11, <1>12, <1>13, <1>14 DEF Kept, StoresInv, NamesOK, BeforeIndex

-----------------------------------------------------------------------------
(***************************************************************************)
(* The session, and the theorems.                                          *)
(***************************************************************************)
LEMMA NoneIsUnder ==
    ASSUME RecordStoreAssumption, NEW h, h = [k \in StoreKeys |-> h[k]],
           h[Index] = None \/ h[Index] \subseteq Names, \A n \in Names : h[n] \in Records \cup {None},
           host' = h, pending' = NoKeys, rms' = NothingKnown, stores' = NoStores, objects' = <<>>,
           pc' = AllIdle, on' = OnNothing, held' = None, unserved' = {}
    PROVE  StoresInv'
  <1>1. Index \in StoreKeys /\ Names \subseteq StoreKeys
    BY DEF StoreKeys
  <1>2. objects' \in Seq(Objs) /\ DOMAIN objects' = {}
    BY EmptySeq
  <1>3. pending' = [k \in StoreKeys |-> pending'[k]] /\ \A k \in StoreKeys : pending'[k] = None
    BY DEF NoKeys
  <1>4. TypeOK'
    BY <1>1, <1>2, <1>3 DEF TypeOK, NothingKnown, NoStores, AllIdle, OnNothing, Objs
  <1>5. CallsOK'
    BY DEF CallsOK, AllIdle, OnObject, RecordStoreAssumption
  <1>6. ObjectsOK'
    BY <1>2 DEF ObjectsOK, NoStores, AllIdle, Inside
  <1>7. BeforeIndex' /\ ~rms'.loaded
    BY DEF BeforeIndex, NothingKnown
  <1>8. ObjectsAgree'
    BY DEF ObjectsAgree, NoStores
  <1>9. Grown'
    BY <1>1, <1>3 DEF Grown, NoStores
  <1>10. QED
    BY <1>4, <1>5, <1>6, <1>7, <1>8, <1>9 DEF StoresInv

LEMMA EndSessionKeeps ==
    ASSUME RecordStoreAssumption, StoresInv, EndSession
    PROVE  Kept
  <1>1. PICK done \in SUBSET Pending(StoreKeys) :
            host' = [k \in StoreKeys |-> IF k \in done THEN pending[k] ELSE host[k]]
    BY DEF EndSession
  <1>2. Index \in StoreKeys /\ Names \subseteq StoreKeys
    BY DEF StoreKeys
  <1>3. \A k \in StoreKeys : host'[k] = host[k] \/ (host'[k] = pending[k] /\ pending[k] # None)
    BY <1>1 DEF Pending
  <1>4. host' = [k \in StoreKeys |-> host'[k]]
    BY <1>1
  <1>5. /\ host'[Index] = None \/ host'[Index] \subseteq Names
        /\ \A n \in Names : host'[n] \in Records \cup {None}
    BY <1>2, <1>3 DEF StoresInv, TypeOK
  <1>6. PICK h : h = host'
    OBVIOUS
  <1>7. StoresInv'
    BY <1>4, <1>5, <1>6, NoneIsUnder DEF EndSession
  <1>8. NotCutShort
    BY <1>2, <1>3 DEF StoresInv, Grown, NotCutShort, Deleting
  <1>9. QED
    BY <1>7, <1>8 DEF Kept

LEMMA InitHolds ==
    ASSUME RecordStoreAssumption, Init
    PROVE  StoresInv
  <1>1. Index \in StoreKeys /\ Names \subseteq StoreKeys
    BY DEF StoreKeys
  <1>2. objects \in Seq(Objs) /\ DOMAIN objects = {}
    BY EmptySeq DEF Init
  <1>3. \A k \in StoreKeys : pending[k] = None /\ host[k] = None
    BY DEF NoKeys, Init
  <1>4. TypeOK
    BY <1>1, <1>2, <1>3 DEF Init, TypeOK, NothingKnown, NoStores, AllIdle, OnNothing, Objs, NoKeys
  <1>5. CallsOK
    BY DEF Init, CallsOK, AllIdle, OnObject, RecordStoreAssumption
  <1>6. ObjectsOK
    BY <1>2 DEF Init, ObjectsOK, NoStores, AllIdle, Inside
  <1>7. BeforeIndex /\ ~rms.loaded
    BY DEF Init, BeforeIndex, NothingKnown
  <1>8. ObjectsAgree
    BY DEF Init, ObjectsAgree, NoStores
  <1>9. Grown
    BY <1>1, <1>3 DEF Init, Grown, NoStores
  <1>10. QED
    BY <1>4, <1>5, <1>6, <1>7, <1>8, <1>9 DEF StoresInv

LEMMA StepKeeps ==
    ASSUME RecordStoreAssumption, ~Careless, StoresInv, Next
    PROVE  Kept
  <1>1. CASE EndSession
    BY <1>1, EndSessionKeeps
  <1>2. CASE Flush /\ UNCHANGED unserved
    BY <1>2, FlushKeeps
  <1>3. CASE \E t \in Threads, n \in Names : OpenRefused(t, n)
    BY <1>3, OpenRefusedKeeps
  <1>4. ASSUME NEW t \in Threads, Call(t), UNCHANGED unserved
        PROVE  Kept
    <2>1. CASE \E n \in Names : OpenKnown(t, n) \/ OpenFirst(t, n) \/ Create(t, n) \/ DeleteStore(t, n)
      BY <1>4, <2>1, OpenKnownKeeps, OpenFirstKeeps, CreateKeeps, DeleteKeeps
    <2>2. CASE \E o \in DOMAIN objects : Check(t, o)
      BY <1>4, <2>2, CheckKeeps
    <2>3. CASE List(t) \/ LoadRefused(t)
      BY <1>4, <2>3, ListKeeps, LoadRefusedKeeps
    <2>4. CASE Change(t) \/ ChangeRefused(t) \/ NameStore(t) \/ Persist(t)
      BY <1>4, <2>4, ChangeKeeps, ChangeRefusedKeeps, NameStoreKeeps, PersistKeeps
    <2>5. CASE Close(t) \/ RetryClose(t) \/ EmptyStore(t)
      BY <1>4, <2>5, CloseKeeps, RetryCloseKeeps, EmptyStoreKeeps
    <2>6. QED
      BY <1>4, <2>1, <2>2, <2>3, <2>4, <2>5 DEF Call
  <1>5. QED
    BY <1>1, <1>2, <1>3, <1>4 DEF Next

LEMMA StutterKeeps ==
    ASSUME RecordStoreAssumption, StoresInv, UNCHANGED vars
    PROVE  Kept
  <1> USE DEF vars, memory, calls, counts
  <1>1. TypeOK' /\ CallsOK' /\ ObjectsOK' /\ BeforeIndex' /\ Grown'
    BY DEF StoresInv, TypeOK, CallsOK, ObjectsOK, BeforeIndex, Seeded, Listed, Grown
  <1>2. rms.loaded => NamesOK(rms)'
    BY DEF StoresInv, NamesOK, ListsAgree, UnwrittenOK, AbsentOK, ReachedNames, Reaches, Emptying
  <1>3. ObjectsAgree'
    BY DEF StoresInv, ObjectsAgree, Writing, ServedNext, Reaches
  <1>4. QED
    BY <1>1, <1>2, <1>3 DEF Kept, StoresInv, NotCutShort

LEMMA StoresInvAlways ==
    ASSUME RecordStoreAssumption, ~Careless
    PROVE  Spec => []StoresInv
  <1>1. Init => StoresInv
    BY InitHolds
  <1>2. StoresInv /\ [Next]_vars => StoresInv'
    BY StepKeeps, StutterKeeps DEF Kept
  <1>3. QED
    BY <1>1, <1>2, PTL DEF Spec

\* Between two calls a title finds under every name what its next session
\* will, as long as it closes no store another thread of it is using.
THEOREM SavesOutliveTheSession ==
    ASSUME RecordStoreAssumption, ~Careless
    PROVE  Spec => []NextSessionFindsTheSame
  <1>1. StoresInv => NextSessionFindsTheSame
    <2> SUFFICES ASSUME StoresInv, rms.loaded, Quiet, NEW n \in Names \ unserved
                 PROVE  ServedNow(n) = ServedNext(n)
      BY DEF NextSessionFindsTheSame
    <2>1. /\ rms \in Lists /\ NamesOK(rms) /\ TypeOK /\ DOMAIN Carried \subseteq Names
      BY KeysAre DEF StoresInv, TypeOK, Lists
    <2>2. (\A m : ~Emptying(m)) /\ \A o : ~Writing(o)
      BY DEF Quiet, AllIdle, Emptying, Writing
    <2>3. CASE n \notin rms.names
      <3>1. stores[n] = None /\ n \notin rms.unwritten /\ n \notin ReachedNames
        BY <2>1, <2>3 DEF NamesOK, AbsentOK, ListsAgree
      <3>2. n \in DOMAIN Carried => Reaches(n) # None
        BY <2>1, <2>2, <3>1 DEF NamesOK, AbsentOK
      <3>3. QED
        BY <2>3, <3>1, <3>2 DEF ServedNow, ServedNext, ReachedNames
    <2>4. CASE n \in rms.names /\ stores[n] # None
      BY <2>2, <2>4 DEF ServedNow, StoresInv, ObjectsAgree
    <2>5. CASE n \in rms.names /\ stores[n] = None
      BY <2>1, <2>5, FirstIsNext DEF ServedNow
    <2>6. QED
      BY <2>3, <2>4, <2>5
  <1>2. QED
    BY <1>1, StoresInvAlways, PTL

\* No older list lands behind a newer one, and no create empties a list that
\* was not deleted: what the Host holds of a store gets longer, or empty.
THEOREM RecordsGrow ==
    ASSUME RecordStoreAssumption, ~Careless
    PROVE  Spec => RecordsAreNotCutShort
  <1>1. StoresInv /\ [Next]_vars => [NotCutShort]_vars
    BY StepKeeps DEF Kept
  <1>2. Spec => [][NotCutShort]_vars
    BY <1>1, StoresInvAlways, PTL DEF Spec
  <1>3. QED
    BY <1>2 DEF RecordsAreNotCutShort, NotCutShort
=============================================================================

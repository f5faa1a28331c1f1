----------------------------- MODULE NativeFiles -----------------------------
(***************************************************************************)
(* The files of an earlier KTF title (internal/platform/ktf/native_file.go)  *)
(* and what a quick save and a quick load do to them                         *)
(* (native_session_checkpoint.go). A title's writes go to the session's own  *)
(* copy and reach the Host's store at a boundary: the end of a frame, a      *)
(* close, an emptying open, a quick save, a quick load, the session's end.   *)
(* The store may refuse any of them. A quick save keeps which files are      *)
(* open and where, and none of their bytes; a load displaces the running     *)
(* session, whose writes the store has to take first, and opens the files    *)
(* as the store then has them.                                               *)
(*                                                                          *)
(* A file is a sequence of cells; a write fills one. A session runs on one   *)
(* goroutine, so that a quick save or load falls between two calls of the    *)
(* title. A read the store refuses fails its call and changes nothing.       *)
(***************************************************************************)
EXTENDS Integers, Sequences, FiniteSets

CONSTANTS
    Objects,    \* the file objects a title may hold
    Keys,       \* nativeFileKey of the names it uses
    Packaged,   \* the files its archive carries: key -> cells
    Bytes,       \* what a title writes in a cell
    Zero,       \* what fills a gap
    Leftovers,  \* the keys an earlier build may have left an empty file under
    Absent,       \* nothing
    MaxCells, MaxWrites     \* bounds

Shipped == UNION {{Packaged[k][i] : i \in DOMAIN Packaged[k]} : k \in DOMAIN Packaged}
Cells == UNION {[1..n -> Bytes \cup {Zero} \cup Shipped] : n \in 0..MaxCells}

Modes == {"read", "readwrite", "truncate", "append"}

\* nativeFile, and what a quick save keeps of one.
OpenFile == [key : Keys, data : Cells, position : Nat, writable : BOOLEAN, truncated : BOOLEAN]
RecordedFile ==
    [key : Keys, position : Nat, writable : BOOLEAN, truncated : BOOLEAN, length : Nat]

NativeFilesAssumption ==
    /\ DOMAIN Packaged \subseteq Keys /\ Leftovers \subseteq Keys
    /\ {MaxCells, MaxWrites} \subseteq Nat
    /\ \A k \in DOMAIN Packaged : Packaged[k] \in Cells
    /\ Absent \notin Cells /\ Absent \notin OpenFile /\ Absent \notin RecordedFile
    /\ Absent \notin [Objects -> RecordedFile \cup {Absent}]

VARIABLES
    store,              \* the Host's saves
    running,            \* there is a session
    files,              \* platform.files
    written,            \* what the title has written this session
    unsaved, refused,   \* platform.unsaved, platform.refused
    slot,               \* the quick save
    writes              \* bound

unstored == <<unsaved, refused>>
session == <<files, written, unstored>>
filesVars == <<store, running, session, slot, writes>>

FilesTypeOK ==
    /\ store \in [Keys -> Cells \cup {Absent}] /\ written \in [Keys -> Cells \cup {Absent}]
    /\ running \in BOOLEAN
    /\ unsaved \subseteq Keys /\ refused \subseteq Keys
    /\ files \in [Objects -> OpenFile \cup {Absent}]
    /\ slot \in [Objects -> RecordedFile \cup {Absent}] \cup {Absent}

NoFiles == [o \in Objects |-> Absent]
Unwritten == [k \in Keys |-> Absent]

FilesInit ==
    /\ store \in [Keys -> {Absent, <<>>}] /\ \A k \in Keys \ Leftovers : store[k] = Absent
    /\ running = TRUE /\ files = NoFiles /\ written = Unwritten
    /\ unsaved = {} /\ refused = {} /\ slot = Absent /\ writes = 0

-----------------------------------------------------------------------------

\* stored: the lookup a first open makes.
Stored(saves, k) ==
    IF saves[k] # Absent THEN saves[k] ELSE IF k \in DOMAIN Packaged THEN Packaged[k] ELSE Absent

\* contents: what a name holds.
Contents(k) == IF written[k] # Absent THEN written[k] ELSE Stored(store, k)

\* leftover: an earlier build made an empty file for a read-write open.
Leftover(k) == Contents(k) = <<>> /\ written[k] = Absent /\ k \notin DOMAIN Packaged

\* keep: the session has it, and the store has yet to be given it.
Keep(k, data) ==
    /\ written' = [written EXCEPT ![k] = data]
    /\ unsaved' = unsaved \cup {k} /\ refused' = refused \ {k}

Taken(keys, saves, from) == [k \in Keys |-> IF k \in keys THEN from[k] ELSE saves[k]]

\* FlushSaves: what the store does not take is not offered at the next boundary.
FlushSaves(refusals) ==
    /\ refusals \subseteq unsaved
    /\ store' = Taken(unsaved \ refusals, store, written)
    /\ unsaved' = {} /\ refused' = refused \cup refusals

-----------------------------------------------------------------------------
(* The title's calls. *)

Opened(k, data, mode) ==
    [key |-> k, data |-> data, position |-> 0, writable |-> mode # "read", truncated |-> mode = "truncate"]

\* A title is taken not to open a file it has open: each object would hold, and
\* store, a copy of its own.
MayOpen(o, k) ==
    /\ running /\ files[o] = Absent
    /\ \A p \in Objects : files[p] # Absent => files[p].key # k

OpenFound(o, k, mode) ==
    /\ MayOpen(o, k) /\ mode # "truncate"
    /\ Contents(k) # Absent /\ ~(mode = "readwrite" /\ Leftover(k))
    /\ files' = [files EXCEPT ![o] = Opened(k, Contents(k), mode)]
    /\ UNCHANGED <<store, running, written, unstored, slot, writes>>

\* The store is given the emptying at the open.
OpenEmptying(o, k) ==
    /\ MayOpen(o, k) /\ Contents(k) # Absent
    /\ written' = [written EXCEPT ![k] = <<>>] /\ unsaved' = unsaved \ {k}
    /\ \/ store' = [store EXCEPT ![k] = <<>>] /\ refused' = refused \ {k}
       \/ UNCHANGED store /\ refused' = refused \cup {k}
    /\ files' = [files EXCEPT ![o] = Opened(k, <<>>, "truncate")]
    /\ UNCHANGED <<running, slot, writes>>

OpenMaking(o, k, mode) ==
    /\ MayOpen(o, k) /\ mode \in {"truncate", "append"} /\ Contents(k) = Absent
    /\ Keep(k, <<>>)
    /\ files' = [files EXCEPT ![o] = Opened(k, <<>>, mode)]
    /\ UNCHANGED <<store, running, slot, writes>>

CreateFile(k) ==
    /\ running /\ (Contents(k) = Absent \/ Leftover(k))
    /\ Keep(k, <<>>)
    /\ UNCHANGED <<store, running, files, slot, writes>>

\* A cell past the end leaves a gap of zeros.
WriteCell(data, position, d) ==
    [i \in 1..(IF position < Len(data) THEN Len(data) ELSE position + 1) |->
        IF i = position + 1 THEN d ELSE IF i <= Len(data) THEN data[i] ELSE Zero]

WriteFile(o, d) ==
    /\ running /\ files[o] # Absent /\ files[o].writable
    /\ files[o].position < MaxCells /\ writes < MaxWrites /\ writes' = writes + 1
    /\ LET data == WriteCell(files[o].data, files[o].position, d)
       IN  /\ files' = [files EXCEPT ![o].data = data, ![o].position = @ + 1]
           /\ Keep(files[o].key, data)
    /\ UNCHANGED <<store, running, slot>>

\* seekFile; a read moves the cursor too.
SeekFile(o, position) ==
    /\ running /\ files[o] # Absent /\ position \in 0..Len(files[o].data)
    /\ files' = [files EXCEPT ![o].position = position]
    /\ UNCHANGED <<store, running, written, unstored, slot, writes>>

CloseFile(o, refusals) ==
    /\ running /\ files[o] # Absent
    /\ files' = [files EXCEPT ![o] = Absent]
    /\ FlushSaves(refusals)
    /\ UNCHANGED <<running, written, slot, writes>>

FrameEnds(refusals) ==
    /\ running /\ FlushSaves(refusals)
    /\ UNCHANGED <<running, files, written, slot, writes>>

-----------------------------------------------------------------------------
(* A quick save, a quick load, and a session's end. *)

\* storePending: what is refused stays where it was.
StorePending(refusals) ==
    /\ refusals \subseteq unsaved \cup refused
    /\ store' = Taken((unsaved \cup refused) \ refusals, store, written)

LeavePending(refusals) ==
    unsaved' = unsaved \cap refusals /\ refused' = refused \cap refusals

\* captureNativeState: which files are open, and how much an emptied one holds.
Recorded ==
    [o \in Objects |-> IF files[o] = Absent THEN Absent
        ELSE [key |-> files[o].key, position |-> files[o].position, writable |-> files[o].writable,
              truncated |-> files[o].truncated, length |-> Len(files[o].data)]]

QuickSave ==
    /\ running /\ StorePending({}) /\ LeavePending({})
    /\ slot' = Recorded
    /\ UNCHANGED <<running, files, written, writes>>

\* The store refuses a write, or, with all of them taken, something else fails.
QuickSaveFails(refusals) ==
    /\ running /\ StorePending(refusals) /\ LeavePending(refusals)
    /\ UNCHANGED <<running, files, written, slot, writes>>

\* reopenFiles: an emptied object takes no more than it had written.
Reopened(saves) ==
    [o \in Objects |-> IF slot[o] = Absent THEN Absent ELSE
        LET held == Stored(saves, slot[o].key)
            data == IF held = Absent THEN <<>> ELSE held
            mine == IF slot[o].truncated /\ Len(data) > slot[o].length
                    THEN SubSeq(data, 1, slot[o].length) ELSE data
        IN  [key |-> slot[o].key, data |-> mine, position |-> slot[o].position,
             writable |-> slot[o].writable, truncated |-> slot[o].truncated]]

\* The restored session has written nothing of its own.
Adopt(saves) ==
    /\ files' = Reopened(saves) /\ written' = Unwritten
    /\ unsaved' = {} /\ refused' = {}

\* Faulty: the files are kept as they were read first.
QuickLoadStale ==
    /\ running /\ slot # Absent
    /\ StorePending({}) /\ Adopt(store)
    /\ UNCHANGED <<running, slot, writes>>

\* Commit: the files are read, the displaced session's writes are stored, and
\* if there were any the files are read again.
QuickLoad ==
    /\ running /\ slot # Absent
    /\ StorePending({})
    /\ IF unsaved \cup refused = {} THEN Adopt(store) ELSE Adopt(store')
    /\ UNCHANGED <<running, slot, writes>>

\* It fails in the first reading, in the storing, or in the second reading.
QuickLoadFails(refusals) ==
    /\ running /\ slot # Absent
    /\ \/ UNCHANGED <<store, unstored>>
       \/ StorePending(refusals) /\ LeavePending(refusals)
    /\ UNCHANGED <<running, files, written, slot, writes>>

\* closeSaves: nothing asks after this.
CloseSession(refusals) ==
    /\ running /\ running' = FALSE
    /\ StorePending(refusals)
    /\ files' = NoFiles /\ written' = Unwritten /\ unsaved' = {} /\ refused' = {}
    /\ UNCHANGED <<slot, writes>>

\* The process is stopped.
Killed ==
    /\ running /\ running' = FALSE
    /\ files' = NoFiles /\ written' = Unwritten /\ unsaved' = {} /\ refused' = {}
    /\ UNCHANGED <<store, slot, writes>>

StartSession == ~running /\ running' = TRUE /\ UNCHANGED <<store, session, slot, writes>>

RestoreSession ==
    /\ ~running /\ slot # Absent /\ running' = TRUE
    /\ Adopt(store)
    /\ UNCHANGED <<store, slot, writes>>

TitleCalls ==
    \/ \E o \in Objects, k \in Keys :
        \/ OpenEmptying(o, k)
        \/ \E mode \in Modes : OpenFound(o, k, mode) \/ OpenMaking(o, k, mode)
    \/ \E k \in Keys : CreateFile(k)
    \/ \E o \in Objects :
        \/ \E d \in Bytes : WriteFile(o, d)
        \/ \E position \in 0..MaxCells : SeekFile(o, position)
        \/ \E refusals \in SUBSET Keys : CloseFile(o, refusals)

FilesNext ==
    \/ TitleCalls
    \/ QuickSave \/ QuickLoad \/ Killed \/ StartSession \/ RestoreSession
    \/ \E refusals \in SUBSET Keys :
        FrameEnds(refusals) \/ QuickSaveFails(refusals) \/ QuickLoadFails(refusals) \/ CloseSession(refusals)

FilesSpec == FilesInit /\ [][FilesNext]_filesVars

-----------------------------------------------------------------------------

\* A write through an object leaves every other cell of the file as it is. An
\* object whose open emptied the file takes away what it did not write itself.
WrittenThrough(o, k) ==
    LET p == files[o].position + 1
        before == Contents(k)
        after == Contents(k)'
    IN  /\ files[o] # Absent /\ files[o].key = k /\ files'[o] # Absent
        /\ files'[o].position = p /\ after # Absent
        /\ \A i \in DOMAIN after \ {p} : after[i] =
            IF i <= Len(IF files[o].truncated THEN files[o].data ELSE before) THEN before[i] ELSE Zero
        /\ Len(after) < Len(before) => files[o].truncated

\* An open asked for an empty file, or for one where there was none.
Emptied(k) ==
    /\ Contents(k)' = <<>>
    /\ Contents(k) = Absent \/ \E o \in Objects :
        files[o] = Absent /\ files'[o] # Absent /\ files'[o].key = k /\ files'[o].truncated

\* What a file holds changes by the title's own calls alone: no boundary, no
\* refusal, no quick save, no quick load whether it succeeds or fails, and no
\* end of a session whose writes the store takes, brings an older cell back or
\* takes a newer one away, and neither does the first write after a load
\* (LoadCheckpoint: "no save is replaced, reverted or removed", and "whatever it
\* writes afterwards lands on top of them").
OnlyTheTitleWrites ==
    [][running' \/ ~running \/ CloseSession({}) =>
        \A k \in Keys : Contents(k)' = Contents(k) \/ Emptied(k) \/ \E o \in Objects : WrittenThrough(o, k)]_filesVars

=============================================================================

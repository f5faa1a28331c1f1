------------------------------ MODULE RecordWalk ------------------------------
(***************************************************************************)
(* A RecordEnumeration of the MIDP library (internal/api/midp/rms.go): the  *)
(* ids a filter selects, in the order a comparator gives them, and a cursor  *)
(* on the record the last step answered. An enumeration that is kept        *)
(* updated selects anew after every change of the store and puts its cursor  *)
(* where it was; when the record it was on has left, between two records.    *)
(*                                                                          *)
(* One thread of a game walks, and changes the store as it goes; the        *)
(* listener's call is part of the change. A deleted record is one of value   *)
(* Nil, and ids are never used again.                                       *)
(***************************************************************************)
EXTENDS Integers, Sequences, FiniteSets, SequencesExt

CONSTANTS
    Data, Nil,
    Matches,        \* what the filter lets through
    Rank,           \* the comparator's order of the data
    MaxRecords      \* bound

ASSUME RecordWalkAssumption ==
    /\ Matches \subseteq Data /\ Nil \notin Data
    /\ \A d \in Matches : Rank[d] \in Int

VARIABLES
    sorted,         \* there is a comparator
    records,        \* the store, by id
    ids, position,  \* the enumeration's fields
    updated,
    destroyed,
    direction,      \* history: which way the steps since the last start went
    answered,       \* history: the records those steps answered
    owed            \* history: the records they have to answer yet

enumeration == <<ids, position, updated, destroyed>>
walkVars == <<sorted, records, enumeration, direction, answered, owed>>

WalkTypeOK ==
    /\ records \in Seq(Data \cup {Nil}) /\ Len(records) <= MaxRecords
    /\ ids \in Seq(DOMAIN records)
    /\ position \in (-Len(ids) - 1) .. Len(ids)
    /\ {sorted, updated, destroyed} \subseteq BOOLEAN
    /\ direction \in {"none", "next", "previous", "both"}
    /\ answered \subseteq DOMAIN records /\ owed \subseteq DOMAIN records

-----------------------------------------------------------------------------
\* The comparator's answer that the first record sorts after the second.
Follows(j, i, content) == sorted /\ Rank[content[j]] > Rank[content[i]]

\* sortRecords: a record goes after the last of those before it that does not
\* sort after it.
Placed(s, i, content) ==
    InsertAt(s, Max({0} \cup {k \in DOMAIN s : ~Follows(s[k], i, content)}) + 1, i)

\* recordSetRebuild: what the filter selects, as the comparator orders it.
Selection(content) ==
    LET selected[n \in 0 .. Len(content)] ==
            IF n = 0 THEN <<>>
            ELSE IF content[n] \in Matches THEN Placed(selected[n - 1], n, content)
            ELSE selected[n - 1]
    IN selected[Len(content)]

\* The cursor is on the record at position, before all at 0, and at a negative
\* position between two records: just before the one at its gap.
Gap(at) == -at
Between(index) == -index

\* cursorNext and cursorPrevious: the index of the record a step answers, none
\* if it is outside the selection.
NextIndex == IF position < 0 THEN Gap(position) ELSE position + 1
PreviousIndex ==
    IF position = 0 THEN Len(ids)
    ELSE IF position > 0 THEN (IF position < Len(ids) THEN position ELSE Len(ids)) - 1
    ELSE (IF Gap(position) <= Len(ids) THEN Gap(position) ELSE Len(ids) + 1) - 1

IndexOf(id, list) == CHOOSE i \in DOMAIN list : list[i] = id

\* Faulty: the cursor stays at its number.
SamePlace(rebuilt) == IF position < Len(rebuilt) THEN position ELSE Len(rebuilt)

\* followCursor: the cursor in a new selection.
FollowCursor(rebuilt) ==
    LET current == IF position < Len(ids) THEN position ELSE Len(ids)
        first == IF position > 0 THEN current + 1 ELSE Gap(position)
        last == IF position > 0 THEN current - 1 ELSE Gap(position) - 1
        kept == {i \in DOMAIN ids : ids[i] \in ToSet(rebuilt)}
        ahead == {i \in kept : i >= first}
        behind == {i \in kept : i <= last}
    IN IF position = 0 \/ (position > 0 /\ ids = <<>>) THEN 0
       ELSE IF position > 0 /\ current \in kept THEN IndexOf(ids[current], rebuilt)
       ELSE IF ahead # {} THEN Between(IndexOf(ids[Min(ahead)], rebuilt))
       ELSE IF behind # {} THEN Between(IndexOf(ids[Max(behind)], rebuilt) + 1)
       ELSE Between(Len(rebuilt) + 1)

-----------------------------------------------------------------------------
(***************************************************************************)
(* History: a walk starts at position 0 and goes on while its steps go one  *)
(* way.                                                                     *)
(***************************************************************************)

Start(selection) ==
    /\ direction' = "none" /\ answered' = {} /\ owed' = ToSet(selection)

Answer(way, id) ==
    /\ direction' = IF direction \in {"none", way} THEN way ELSE "both"
    /\ answered' = answered \cup {id}
    /\ owed' = owed \ {id}

\* The record the cursor is on, or else the one it is before or after.
By ==
    IF position > 0 THEN ids[position]
    ELSE IF Gap(position) <= Len(ids) THEN ids[Gap(position)]
    ELSE IF ids # <<>> THEN ids[Len(ids)] ELSE 0

\* After a change of record r, a walk owes what it owed and what is still
\* there. It owes a new record too, if there is no comparator and it goes
\* forward over records that are not all gone. A record that left is another
\* one when it comes back, and the comparator may put a changed one anywhere.
\* The cursor goes with the record it is by, so when that one is put elsewhere
\* the walk is not followed further.
Follow(r, rebuilt) ==
    LET moved == sorted /\ r \in ToSet(rebuilt)
        new == {r} \ DOMAIN records
    IN IF position = 0 THEN Start(rebuilt)
       ELSE /\ direction' = IF moved /\ By = r THEN "both" ELSE direction
            /\ answered' = (answered \cap ToSet(rebuilt)) \ (IF moved THEN {r} ELSE {})
            /\ owed' = ((owed \cap ToSet(rebuilt)) \ (IF moved THEN {r} ELSE {}))
                       \cup (IF ~sorted /\ direction = "next" /\ ids # <<>> THEN new \cap ToSet(rebuilt) ELSE {})

-----------------------------------------------------------------------------
(***************************************************************************)
(* The title's calls.                                                      *)
(***************************************************************************)

WalkInit ==
    /\ sorted \in BOOLEAN
    /\ records = <<>> /\ ids = <<>> /\ position = 0
    /\ updated = FALSE /\ destroyed = FALSE
    /\ direction = "none" /\ answered = {} /\ owed = {}

\* addRecord, setRecord and deleteRecord, and then recordSetChanged.
Change(r, content) ==
    /\ records' = content
    /\ IF updated /\ ~destroyed
       THEN /\ ids' = Selection(content)
            /\ position' = FollowCursor(ids')
            /\ Follow(r, ids')
       ELSE UNCHANGED <<ids, position, direction, answered, owed>>
    /\ UNCHANGED <<sorted, updated, destroyed>>

AddRecord ==
    /\ Len(records) < MaxRecords
    /\ \E d \in Data : Change(Len(records) + 1, Append(records, d))
SetRecord ==
    \E r \in DOMAIN records, d \in Data :
        records[r] # Nil /\ Change(r, [records EXCEPT ![r] = d])
DeleteRecord ==
    \E r \in DOMAIN records :
        records[r] # Nil /\ Change(r, [records EXCEPT ![r] = Nil])

\* recordSetNextRecordID and recordSetPreviousRecordID.
Step(way, index) ==
    /\ ~destroyed /\ index \in DOMAIN ids
    /\ position' = index
    /\ Answer(way, ids[index])
    /\ UNCHANGED <<sorted, records, ids, updated, destroyed>>
NextRecord == Step("next", NextIndex)
PreviousRecord == Step("previous", PreviousIndex)

\* recordSetReset.
Reset ==
    /\ position' = 0
    /\ Start(ids)
    /\ UNCHANGED <<sorted, records, ids, updated, destroyed>>

\* rebuild, which starts over; keepUpdated(true) subscribes and does the same.
Rebuild(subscribed) ==
    /\ ~destroyed
    /\ updated' = subscribed
    /\ ids' = Selection(records) /\ position' = 0
    /\ Start(ids')
    /\ UNCHANGED <<sorted, records, destroyed>>
KeepUpdated == ~updated /\ Rebuild(TRUE)

\* keepUpdated(false).
LeaveUpdates ==
    /\ ~destroyed /\ updated /\ updated' = FALSE
    /\ UNCHANGED <<sorted, records, ids, position, destroyed, direction, answered, owed>>

Destroy ==
    /\ ~destroyed /\ destroyed' = TRUE
    /\ updated' = FALSE /\ ids' = <<>> /\ position' = 0
    /\ Start(ids')
    /\ UNCHANGED <<sorted, records>>

WalkNext ==
    \/ AddRecord \/ SetRecord \/ DeleteRecord
    \/ NextRecord \/ PreviousRecord \/ Reset
    \/ Rebuild(updated) \/ KeepUpdated \/ LeaveUpdates \/ Destroy

WalkSpec == WalkInit /\ [][WalkNext]_walkVars

-----------------------------------------------------------------------------
(***************************************************************************)
(* Properties.                                                             *)
(***************************************************************************)

\* However a title changes the records as it walks them one way, what it has
\* still to be answered is ahead of the cursor and what it was answered is not:
\* no record that stays in the selection is passed over, and none is answered
\* twice (followCursor, recordSetChanged).
Ahead(way) ==
    IF way = "next" THEN {ids[i] : i \in {j \in DOMAIN ids : j >= NextIndex}}
    ELSE {ids[i] : i \in {j \in DOMAIN ids : j <= PreviousIndex}}
WalkIsComplete ==
    direction \in {"next", "previous"} =>
        owed \subseteq Ahead(direction) /\ answered \cap Ahead(direction) = {}
=============================================================================

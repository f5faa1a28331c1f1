------------------------------ MODULE RecordStore ------------------------------
(***************************************************************************)
(* The record stores of a MIDlet (internal/platform/skt/rms.go) and what    *)
(* reaches the Host of them (checkpoint_storage.go): a list of names and,   *)
(* for each, a list of records. The Host has no way to remove anything, so  *)
(* a deleted store leaves an empty list; the game's archive may carry       *)
(* stores of its own, which are served until something is written under     *)
(* their names; and a write the Host refuses stays pending and is tried     *)
(* again.                                                                   *)
(*                                                                          *)
(* The threads of a game use the stores at once. state.mu guards the names   *)
(* and is held across two writes by a create and a delete; a change takes    *)
(* the store's lock, then state.mu, then the turn to write, one after the    *)
(* other. A session may end between any two steps, and the next one begins   *)
(* with what the Host holds.                                                *)
(***************************************************************************)
EXTENDS Naturals, Integers, Sequences, FiniteSets, SequencesExt

CONSTANTS
    Threads, Names,
    Data,           \* what a record may hold
    Carried,        \* the stores in the archive: name -> list of records
    Nil,            \* the slot of a deleted record
    None,           \* nothing
    Index,          \* rmsIndexKey
    MaxRecords,     \* MaxSaveRecords
    RefusedReads,   \* the reads the Host may refuse: of the "index", of a "carried" store's key, of the store to "open"
    Careless,       \* the title closes a store that another of its threads is using
    MaxChanges, MaxRefusals, MaxSessions, MaxObjects, MaxOpen   \* bounds

StoreKeys == Names \cup {Index}
Records == SeqOf(Data \cup {Nil}, MaxRecords)

RecordStoreAssumption ==
    /\ Nil \notin Data /\ Index \notin Names
    /\ DOMAIN Carried \subseteq Names
    /\ \A n \in DOMAIN Carried : Carried[n] \in Records
    /\ RefusedReads \subseteq {"index", "carried", "open"}
    /\ Careless \in BOOLEAN
    /\ None \notin Records /\ None \notin Threads /\ None \notin Nat
    /\ None \notin StoreKeys /\ \A names \in SUBSET Names : None # names
    /\ {MaxRecords, MaxChanges, MaxRefusals, MaxSessions, MaxObjects, MaxOpen} \subseteq Nat

VARIABLES
    host,       \* the save store: key -> the bytes under it, None if there are none
    pending,    \* pendingSaves: the writes the Host refused
    rms,        \* rmsState: what is known of the names
    stores,     \* rmsState.stores: name -> the object in memory, or None
    objects,    \* the recordStore objects the session has made
    pc, on,     \* where each thread's call is, and the object or name it is about
    held,       \* the thread that holds state.mu from one step to the next
    changes, refusals, sessions,    \* so far
    unserved    \* history: the carried stores an open took out, and was then refused

memory == <<rms, stores, objects>>
calls == <<pc, on, held>>
counts == <<changes, refusals, sessions>>
vars == <<host, pending, memory, calls, counts, unserved>>

NothingKnown == [loaded |-> FALSE, names |-> {}, packaged |-> {}, unwritten |-> {}]

TypeOK ==
    /\ host = [k \in StoreKeys |-> host[k]] /\ pending = [k \in StoreKeys |-> pending[k]]
    /\ host[Index] = None \/ host[Index] \subseteq Names
    /\ pending[Index] = None \/ pending[Index] \subseteq Names
    /\ \A n \in Names : host[n] \in Records \cup {None} /\ pending[n] \in Records \cup {None}
    /\ rms \in [loaded : BOOLEAN, names : SUBSET Names, packaged : SUBSET DOMAIN Carried,
                unwritten : SUBSET DOMAIN Carried]
    /\ objects \in Seq([name : Names, records : Records, open : Int])
    /\ stores \in [Names -> DOMAIN objects \cup {None}]
    /\ pc \in [Threads -> {"idle", "checked", "name", "persist", "create", "empty", "retry"}]
    /\ on \in [Threads -> DOMAIN objects \cup Names \cup {None}]
    /\ held \in Threads \cup {None}
    /\ unserved \subseteq DOMAIN Carried

\* A session begins with nothing but what the Host holds.
NoKeys == [k \in StoreKeys |-> None]
NoStores == [n \in Names |-> None]
AllIdle == [t \in Threads |-> "idle"]
OnNothing == [t \in Threads |-> None]

Init ==
    /\ host = NoKeys /\ pending = NoKeys
    /\ rms = NothingKnown /\ stores = NoStores /\ objects = <<>>
    /\ pc = AllIdle /\ on = OnNothing /\ held = None
    /\ changes = 0 /\ refusals = 0 /\ sessions = 1
    /\ unserved = {}

-----------------------------------------------------------------------------
(***************************************************************************)
(* The Host.                                                               *)
(***************************************************************************)

\* The Host answers, or refuses.
Answers == refusals' = refusals
Refuses == refusals < MaxRefusals /\ refusals' = refusals + 1

\* storeSave, storeSaveEncoded: in the turn to write, the newest contents are
\* written, or become what is pending.
StoreSave(key, data) ==
    \/ /\ Answers
       /\ host' = [host EXCEPT ![key] = data]
       /\ pending' = [pending EXCEPT ![key] = None]
    \/ /\ Refuses
       /\ pending' = [pending EXCEPT ![key] = data]
       /\ UNCHANGED host

\* Another try at the pending writes of some keys, of which those in done succeed.
Pending(keys) == {k \in keys : pending[k] # None}
Retry(keys, done) ==
    /\ IF done = Pending(keys) THEN Answers ELSE Refuses
    /\ host' = [k \in StoreKeys |-> IF k \in done THEN pending[k] ELSE host[k]]
    /\ pending' = [k \in StoreKeys |-> IF k \in done THEN None ELSE pending[k]]

\* storeIndex leaves out what nothing has written.
StoreIndex(known) == StoreSave(Index, known.names \ known.unwritten)

Listed == IF host[Index] = None THEN {} ELSE host[Index]
\* Faulty: a deleted store's empty list does not count.
SeededOverDeletions == {n \in DOMAIN Carried : host[n] \in {None, <<>>}}

\* The carried stores the Host holds nothing of.
Seeded == {n \in DOMAIN Carried : host[n] = None}

\* What the names are once the index is read and some carried stores are seeded.
Knowing(seeded, loaded) ==
    [loaded |-> loaded,
     names |-> rms.names \cup Listed \cup seeded,
     packaged |-> rms.packaged \cup seeded,
     unwritten |-> rms.unwritten \cup seeded]

\* loadIndex, which every call by name begins with: what it leaves when it succeeds,
LoadedIndex == IF rms.loaded THEN rms ELSE Knowing(Seeded, TRUE)
\* and when the Host refuses to read the index, or the key of a carried store
\* after others have been seeded.
PartlyLoaded ==
    (IF "index" \in RefusedReads THEN {rms} ELSE {}) \cup
    {Knowing(Seeded \cap before, FALSE) :
        before \in IF "carried" \in RefusedReads THEN (SUBSET DOMAIN Carried) \ {DOMAIN Carried} ELSE {}}

-----------------------------------------------------------------------------
(***************************************************************************)
(* The calls of a thread.                                                  *)
(***************************************************************************)

Begin(t, at, what) == pc' = [pc EXCEPT ![t] = at] /\ on' = [on EXCEPT ![t] = what]
Return(t) == Begin(t, "idle", None)

\* listRecordStores, and an open or a delete of a name there is not.
List(t) ==
    /\ pc[t] = "idle" /\ held = None
    /\ rms' = LoadedIndex
    /\ UNCHANGED <<host, pending, stores, objects, calls, counts>>

\* A call by name throws, because the index cannot be read.
LoadRefused(t) ==
    /\ pc[t] = "idle" /\ held = None
    /\ ~rms.loaded /\ rms' \in PartlyLoaded /\ Refuses
    /\ UNCHANGED <<host, pending, stores, objects, calls, changes, sessions>>

\* openStore: a store in memory is opened once more.
OpenKnown(t, n) ==
    /\ pc[t] = "idle" /\ held = None
    /\ stores[n] # None /\ objects[stores[n]].open < MaxOpen
    /\ objects' = [objects EXCEPT ![stores[n]].open = @ + 1]
    /\ UNCHANGED <<host, pending, rms, stores, calls, counts>>

\* Faulty: a create does not look at the key.
EmptyWhenNew(n, known) ==
    IF n \notin known.names THEN <<>>
    ELSE IF host[n] # None THEN host[n]
    ELSE IF n \in known.packaged THEN Carried[n] ELSE <<>>

\* What a store holds that is opened for the first time: the Host's records,
\* the archive's, or none. An empty list under a name that is not listed is a deletion.
FirstRecords(n, known) ==
    LET found == n \in known.names IN
    IF host[n] # None /\ (found \/ host[n] # <<>>) THEN host[n]
    ELSE IF found /\ n \in known.packaged THEN Carried[n]
    ELSE <<>>

NewObject(n, known) ==
    /\ Len(objects) < MaxObjects
    /\ objects' = Append(objects, [name |-> n, records |-> FirstRecords(n, known), open |-> 1])
    /\ stores' = [stores EXCEPT ![n] = Len(objects')]

\* The archive's copy is taken out before the Host's is read.
Unpacked(n, known) == [known EXCEPT !.packaged = @ \ {n}]

\* A store there is; nothing is written.
OpenFirst(t, n) ==
    /\ pc[t] = "idle" /\ held = None
    /\ stores[n] = None /\ n \in LoadedIndex.names
    /\ rms' = Unpacked(n, LoadedIndex)
    /\ NewObject(n, LoadedIndex)
    /\ UNCHANGED <<host, pending, calls, counts>>

\* The Host refuses to read the store.
OpenRefused(t, n) ==
    /\ pc[t] = "idle" /\ held = None
    /\ stores[n] = None /\ "open" \in RefusedReads /\ Refuses
    /\ rms' = IF n \in LoadedIndex.names THEN Unpacked(n, LoadedIndex) ELSE LoadedIndex
    /\ UNCHANGED <<host, pending, stores, objects, calls, changes, sessions>>
    /\ unserved' = unserved \cup (LoadedIndex.packaged \cap {n})

\* A store there is not is created: the index is written, then its records.
Create(t, n) ==
    /\ pc[t] = "idle" /\ held = None
    /\ stores[n] = None /\ n \notin LoadedIndex.names
    /\ rms' = [LoadedIndex EXCEPT !.names = @ \cup {n}]
    /\ NewObject(n, LoadedIndex)
    /\ StoreIndex(rms')
    /\ Begin(t, "create", stores'[n]) /\ held' = t
    /\ UNCHANGED <<changes, sessions>>

\* openRecordStoreArgument finds the object open; the call itself follows.
Check(t, o) ==
    /\ pc[t] = "idle" /\ objects[o].open > 0
    /\ Begin(t, "checked", o)
    /\ UNCHANGED <<host, pending, memory, held, counts>>

\* What addRecord, setRecord and deleteRecord make of a list.
Changed(records) ==
    {Append(records, d) : d \in IF Len(records) < MaxRecords THEN Data ELSE {}} \cup
    {[records EXCEPT ![i] = d] : i \in {j \in DOMAIN records : records[j] # Nil}, d \in Data \cup {Nil}}

Change(t) ==
    /\ pc[t] = "checked" /\ changes < MaxChanges /\ changes' = changes + 1
    /\ \E records \in Changed(objects[on[t]].records) :
        objects' = [objects EXCEPT ![on[t]].records = records]
    /\ pc' = [pc EXCEPT ![t] = "name"]
    /\ UNCHANGED <<host, pending, rms, stores, on, held, refusals, sessions>>

\* A full list, or a record that is not there: the call throws.
ChangeRefused(t) ==
    /\ pc[t] = "checked"
    /\ Return(t)
    /\ UNCHANGED <<host, pending, memory, held, counts>>

\* persistStore, under state.mu: the first write of a carried store, or one of
\* a store the names no longer hold, puts the name there.
NameStore(t) ==
    LET n == objects[on[t]].name IN
    /\ pc[t] = "name" /\ held = None
    /\ IF n \in rms.names /\ n \notin rms.unwritten THEN UNCHANGED <<host, pending, rms, stores, refusals>>
       ELSE /\ rms' = [rms EXCEPT !.names = @ \cup {n}, !.unwritten = @ \ {n}]
            /\ stores' = IF n \in rms.names THEN stores ELSE [stores EXCEPT ![n] = on[t]]
            /\ StoreIndex(rms')
    /\ pc' = [pc EXCEPT ![t] = "persist"]
    /\ UNCHANGED <<objects, on, held, changes, sessions>>

\* persist encodes what the object holds when its turn to write comes.
Encoded(t) == objects[on[t]].records
Persist(t) ==
    /\ pc[t] \in {"persist", "create"}
    /\ StoreSave(objects[on[t]].name, Encoded(t))
    /\ held' = IF held = t THEN None ELSE held
    /\ Return(t)
    /\ UNCHANGED <<memory, changes, sessions>>

\* rmsCloseRecordStore; closing the last handle tries the pending writes again.
Close(t) ==
    /\ pc[t] = "checked"
    /\ Careless \/ \A u \in Threads \ {t} : on[u] # on[t]
    /\ objects' = [objects EXCEPT ![on[t]].open = @ - 1]
    /\ IF objects'[on[t]].open = 0 THEN pc' = [pc EXCEPT ![t] = "retry"] /\ UNCHANGED on
       ELSE Return(t)
    /\ UNCHANGED <<host, pending, rms, stores, held, counts>>

RetryClose(t) ==
    /\ pc[t] = "retry"
    /\ LET keys == {Index, objects[on[t]].name} IN
        \E done \in SUBSET Pending(keys) : Retry(keys, done)
    /\ Return(t)
    /\ UNCHANGED <<memory, held, changes, sessions>>

\* rmsDeleteRecordStore: the index is written, then the empty list.
DeleteStore(t, n) ==
    /\ pc[t] = "idle" /\ held = None
    /\ stores[n] # None \/ n \in LoadedIndex.names
    /\ stores[n] # None => objects[stores[n]].open <= 0
    /\ rms' = [LoadedIndex EXCEPT !.names = @ \ {n}, !.packaged = @ \ {n}, !.unwritten = @ \ {n}]
    /\ stores' = [stores EXCEPT ![n] = None]
    /\ StoreIndex(rms')
    /\ Begin(t, "empty", n) /\ held' = t
    /\ UNCHANGED <<objects, changes, sessions>>

EmptyStore(t) ==
    /\ pc[t] = "empty"
    /\ StoreSave(on[t], <<>>)
    /\ held' = None /\ Return(t)
    /\ UNCHANGED <<memory, changes, sessions>>

-----------------------------------------------------------------------------
(***************************************************************************)
(* The session.                                                            *)
(***************************************************************************)

\* flushCheckpointSaves, with every thread at the barrier: what is pending is
\* written, up to the first refusal.
Flush ==
    /\ pc = AllIdle
    /\ \E done \in SUBSET Pending(StoreKeys) : Retry(StoreKeys, done)
    /\ UNCHANGED <<memory, calls, changes, sessions>>

\* storeAtSessionEnd tries every pending write, and the rest is gone; a
\* process that dies tries none. The next session starts from the Host.
EndSession ==
    /\ sessions < MaxSessions /\ sessions' = sessions + 1
    /\ \E done \in SUBSET Pending(StoreKeys) :
        host' = [k \in StoreKeys |-> IF k \in done THEN pending[k] ELSE host[k]]
    /\ pending' = NoKeys
    /\ rms' = NothingKnown /\ stores' = NoStores /\ objects' = <<>>
    /\ pc' = AllIdle /\ on' = OnNothing /\ held' = None
    /\ unserved' = {}
    /\ UNCHANGED <<changes, refusals>>

Call(t) ==
    \/ List(t) \/ LoadRefused(t)
    \/ \E n \in Names : OpenKnown(t, n) \/ OpenFirst(t, n)
                        \/ Create(t, n) \/ DeleteStore(t, n)
    \/ \E o \in DOMAIN objects : Check(t, o)
    \/ Change(t) \/ ChangeRefused(t) \/ NameStore(t) \/ Persist(t)
    \/ Close(t) \/ RetryClose(t) \/ EmptyStore(t)

Next ==
    \/ \E t \in Threads :
        \/ Call(t) /\ UNCHANGED unserved
        \/ \E n \in Names : OpenRefused(t, n)
    \/ Flush /\ UNCHANGED unserved
    \/ EndSession

Spec == Init /\ [][Next]_vars

-----------------------------------------------------------------------------
(***************************************************************************)
(* Properties.                                                             *)
(***************************************************************************)

\* What the Host holds once what is pending is written.
Reaches(k) == IF pending[k] # None THEN pending[k] ELSE host[k]

\* What a title finds under a name in this session, and what it would find in
\* the next one; None if there is no such store.
ServedNow(n) ==
    IF n \notin rms.names THEN None
    ELSE IF stores[n] # None THEN objects[stores[n]].records
    ELSE FirstRecords(n, rms)
ServedNext(n) ==
    IF n \in DOMAIN Carried /\ Reaches(n) = None THEN Carried[n]
    ELSE IF Reaches(Index) = None \/ n \notin Reaches(Index) THEN None
    ELSE IF Reaches(n) = None THEN <<>>
    ELSE Reaches(n)

\* No call is under way.
Quiet == pc = AllIdle

\* Between two calls, what a title finds under every name is what the next
\* session will, whatever the Host refused, in whatever order two threads'
\* changes reached it, and wherever an earlier session stopped (openStore,
\* persistStore, storeSaveEncoded, storeAtSessionEnd); but for the stores of
\* the next property.
NextSessionFindsTheSame ==
    rms.loaded /\ Quiet => \A n \in Names \ unserved : ServedNow(n) = ServedNext(n)

\* A store the archive carries is served with what it carries until the Host
\* holds something under its key (the comment on rmsState.packaged). An open
\* that the Host refuses to read has already dropped the archive's copy, and
\* the next one finds the store empty.
CarriedStoresAreServed ==
    rms.loaded /\ Quiet => \A n \in DOMAIN Carried \cap rms.names :
        Reaches(n) = None => ServedNow(n) = Carried[n]

\* The list under a store's name never gets shorter, except to the empty one
\* a deletion leaves: an older write never lands behind a newer one, and a
\* create never empties records the names had lost (openStore's second look,
\* retryRMSClose, storeAtSessionEnd).
Deleting(n) == (\E t \in Threads : pc[t] = "empty" /\ on[t] = n) \/ pending[n] = <<>>
RecordsAreNotCutShort ==
    [][\A n \in Names : host[n] # None /\ host'[n] # host[n] =>
        Len(host'[n]) >= Len(host[n]) \/ (host'[n] = <<>> /\ Deleting(n))]_vars
=============================================================================

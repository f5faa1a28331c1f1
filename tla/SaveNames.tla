------------------------------ MODULE SaveNames ------------------------------
(***************************************************************************)
(* How a save directory's names are written (internal/backend/save_names.go)*)
(* and how the names an earlier build left in it are converted: first every *)
(* name to a temporary one, then every temporary name to its encoded one,   *)
(* with a record that says how far the conversion came.                     *)
(*                                                                          *)
(* One process holds the directory lock for one operation. An operation     *)
(* settles how the names read, which may convert them, and then reads or    *)
(* writes one save. Every rename and every write of the record is a step of *)
(* its own, may fail, and the process may stop after any of them. While it  *)
(* is stopped an earlier build, which knows of no record, may write.        *)
(***************************************************************************)
EXTENDS Naturals, Sequences, FiniteSets, SequencesExt

CONSTANTS
    Segments,       \* the key segments titles use
    Encode,         \* encodeSaveName: the name each segment is written under
    Long,           \* the segments whose encoded name is longer than a name may be
    Fold,           \* what the volume takes a name for; the name itself if it keeps all apart
    Temporary,      \* the temporary names, by index
    SaveKeys,       \* the save keys, sequences of one or two segments
    Titles,         \* the titles a directory may belong to, each the keys it uses
    EarlierWrites,  \* for each title, the states of the record in which an earlier
                    \* build still writes
    MaxSaves        \* bound: the writes there ever are

SegmentNames == Segments \cup {Encode[s] : s \in Segments}
TemporaryNames == {Temporary[i] : i \in DOMAIN Temporary}

NamesAssumption ==
    /\ Encode \in [Segments -> SegmentNames]
    /\ \A s, t \in Segments : Encode[s] = Encode[t] => s = t
    /\ Long \subseteq {s \in Segments : Encode[s] # s}
    /\ DOMAIN Fold = SegmentNames \cup TemporaryNames
    /\ TemporaryNames \cap SegmentNames = {}
    /\ \A t \in TemporaryNames, n \in DOMAIN Fold : Fold[n] = Fold[t] => n = t
    \* what the encoding is for: encoded names are apart on every volume
    /\ \A s, t \in Segments \ Long : Fold[Encode[s]] = Fold[Encode[t]] => s = t
    /\ \A k \in SaveKeys : k \in Seq(Segments) /\ Len(k) \in 1 .. 2
    /\ \A k, l \in SaveKeys : IsPrefix(k, l) => k = l
    /\ Titles \subseteq SUBSET SaveKeys
    /\ EarlierWrites \in [Titles -> SUBSET {"absent", "encoded", "moving", "placing"}]
    /\ MaxSaves \in Nat \ {0}

\* The names a title has on the volume before a conversion, each with the
\* directory it is in; their segments; and which of them a conversion is about.
PathsOf(t) == UNION {{SubSeq(k, 1, n) : n \in 1 .. Len(k)} : k \in t}
SegmentsOf(t) == {Last(p) : p \in PathsOf(t)}
Converts(s) == s \notin Long /\ Encode[s] # s

\* There are temporary names enough. On a volume that takes names of a title for
\* others of it an earlier build writes only while there is no record; in the
\* first pass it writes nothing whose directory is converted and whose own name
\* is; and no name too long to encode is taken for another's encoded one, unless
\* it is that one.
DirectoriesAssumption ==
    /\ \A i, j \in DOMAIN Temporary : Temporary[i] = Temporary[j] => i = j
    /\ \A t \in Titles :
         /\ IsFiniteSet(t)
         /\ 1 .. Cardinality({p \in PathsOf(t) : Converts(Last(p))}) \subseteq DOMAIN Temporary
         /\ \/ EarlierWrites[t] \subseteq {"absent"}
            \/ \A m, n \in SegmentsOf(t) \cup {Encode[s] : s \in SegmentsOf(t)} :
                    Fold[m] = Fold[n] => m = n
         /\ "moving" \in EarlierWrites[t] =>
               \A k \in t : Len(k) = 2 => ~(Converts(k[1]) /\ Converts(k[2]))
         /\ \A s \in SegmentsOf(t) \cap Long, r \in SegmentsOf(t) \ Long :
               Fold[s] = Fold[Encode[r]] => s = Encode[r]

VARIABLES
    title,      \* the title whose directory it is, which never changes
    named,      \* the files below the directory: path -> the key it was written for and when
    record,     \* the file saveNamesRecord: its state and the names it lists
    up,         \* this build's process is running
    stage,      \* where the operation under way is
    step,       \* the index its pass has come to
    naming,     \* how the names read in it, once settled
    known,      \* saveNamesAttempts: the answer of a conversion that was not carried out
    clock,      \* writes so far; the modification time of the last one
    saved       \* when the last save under each key was written, 0 for never

namesVars == <<title, named, record, up, stage, step, naming, known, clock, saved>>

Paths == UNION {[1 .. n -> SegmentNames \cup TemporaryNames] : n \in 1 .. 2}
File == [key : SaveKeys, at : 1 .. MaxSaves]
Nothing == "none"

NamesTypeOK ==
    /\ title \in Titles
    /\ DOMAIN named \subseteq Paths /\ \A p \in DOMAIN named : named[p] \in File
    /\ record \in [state : {"absent", "encoded", "moving", "placing"}, plan : Seq(Paths)]
    /\ up \in BOOLEAN
    /\ stage \in {"idle", "moving", "placing", "undoing", "settled"}
    /\ step \in 0 .. Len(record.plan) + 1
    /\ naming \in {Nothing, "plain", "encoded", "earlier", "converting"}
    /\ known \in {Nothing, "earlier", "converting"}
    /\ clock \in 1 .. MaxSaves
    /\ saved \in [SaveKeys -> 0 .. MaxSaves]

-----------------------------------------------------------------------------
(***************************************************************************)
(* The volume.                                                             *)
(***************************************************************************)

Folded(p) == [n \in DOMAIN p |-> Fold[p[n]]]

\* What is there: the files and the directories above them.
Entries == UNION {{SubSeq(p, 1, n) : n \in 1 .. Len(p)} : p \in DOMAIN named}

\* What the volume answers a lookup of p with.
OnDisk(p) == {e \in Entries : Folded(e) = Folded(p)}

Exists(p) == OnDisk(p) # {}

\* p as the volume will spell it: its directory as it is, its last name as given.
Spelled(p) ==
    IF Len(p) = 1 \/ ~Exists(Front(p)) THEN p
    ELSE Append(CHOOSE d \in OnDisk(Front(p)) : TRUE, Last(p))

\* What rename(from, to) leaves of a tree, everything below from included.
Renamed(tree, from, to) ==
    LET below == {p \in DOMAIN tree : IsPrefix(from, p)}
        Under(p) == to \o SubSeq(p, Len(from) + 1, Len(p))
        Before(q) == from \o SubSeq(q, Len(to) + 1, Len(q))
    IN  [q \in (DOMAIN tree \ below) \cup {Under(p) : p \in below} |->
            IF IsPrefix(to, q) THEN tree[Before(q)] ELSE tree[q]]

Rename(from, to) ==
    \E e \in OnDisk(from) : named' = Renamed(named, e, Spelled(to))

With(tree, p, file) == [q \in DOMAIN tree \cup {p} |-> IF q = p THEN file ELSE tree[q]]

Without(tree, p) == [q \in {e \in DOMAIN tree : ~IsPrefix(p, e)} |-> tree[q]]

\* writeSaveFile: the file under this name, whatever its spelling, is replaced.
Written(tree, p, file) ==
    LET at == IF Exists(p) THEN CHOOSE e \in OnDisk(p) : TRUE ELSE Spelled(p)
    IN  With(tree, at, file)

-----------------------------------------------------------------------------
(***************************************************************************)
(* The encoding.                                                           *)
(***************************************************************************)

\* encodeSaveKey
EncodedPath(k) == [n \in DOMAIN k |-> Encode[k[n]]]

Fits(k) == \A n \in DOMAIN k : k[n] \notin Long

\* readSaveName: the segment a name in an encoded directory reads as.
ReadName(name) ==
    IF \E s \in Segments : Encode[s] = name THEN CHOOSE s \in Segments : Encode[s] = name
    ELSE name

\* A segment an earlier build's own name of which still reads as it.
Unambiguous(s) == ReadName(s) = s

\* earlierSaveSpellings, beside the encoded name.
Spellings(s) == {Encode[s]} \cup (IF Unambiguous(s) THEN {s} ELSE {})

\* planSaveNames: the names to convert, and a name that can neither be
\* converted nor be left.
ToConvert == {e \in Entries : Last(e) \in Segments /\ Converts(Last(e))}

CannotStay == \E e \in Entries : Last(e) \in Long /\ ~Unambiguous(Last(e))

\* The orders a walk may list them in: what is inside a directory before it.
Plans ==
    {plan \in SetToSeqs(ToConvert) :
        \A i, j \in DOMAIN plan : i < j => ~IsStrictPrefix(plan[i], plan[j])}

\* saveNamesTemporaryPath
TemporaryPath(i) == [record.plan[i] EXCEPT ![Len(record.plan[i])] = Temporary[i]]

\* Faulty: the second pass looks below a directory's own name.
PlacingPathBelowOwnName(i) == TemporaryPath(i)

\* The same in the second pass, where a listed directory has its temporary name too.
PlacingPath(i) ==
    LET path == record.plan[i] IN
    [n \in DOMAIN path |->
        IF \E j \in DOMAIN record.plan : record.plan[j] = SubSeq(path, 1, n)
        THEN Temporary[CHOOSE j \in DOMAIN record.plan : record.plan[j] = SubSeq(path, 1, n)]
        ELSE path[n]]

-----------------------------------------------------------------------------
(***************************************************************************)
(* Settling how the names read.                                            *)
(***************************************************************************)

NamesInit ==
    /\ title \in Titles
    /\ \E old \in SUBSET title :
         /\ \A k, l \in old : Folded(k) = Folded(l) => k = l
         /\ \A k, l \in old :
               Folded(SubSeq(k, 1, 1)) = Folded(SubSeq(l, 1, 1)) => k[1] = l[1]
         /\ named = [k \in old |-> [key |-> k, at |-> 1]]
         /\ saved = [k \in SaveKeys |-> IF k \in old THEN 1 ELSE 0]
    /\ record = [state |-> "absent", plan |-> <<>>]
    /\ up = TRUE /\ stage = "idle" /\ step = 0 /\ naming = Nothing /\ known = Nothing
    /\ clock = 1

Settled(how) == stage' = "settled" /\ step' = 0 /\ naming' = how

\* unconverted: the directory reads as the earlier build left it.
Unconverted == Settled("earlier") /\ known' = "earlier"

\* converted, for a conversion that could neither finish nor be undone.
Stuck == Settled("converting") /\ known' = "converting"

SettleEncoded ==
    /\ up /\ stage = "idle" /\ record.state = "encoded"
    /\ Settled("encoded")
    /\ UNCHANGED <<named, record, up, known, clock, saved>>

\* The last attempt failed less than saveNamesRetry ago.
SettleAsKnown ==
    /\ up /\ stage = "idle"
    /\ \/ record.state = "absent" /\ known = "earlier"
       \/ record.state \in {"moving", "placing"} /\ known = "converting"
    /\ Settled(known)
    /\ UNCHANGED <<named, record, up, known, clock, saved>>

SettlePlain ==
    /\ up /\ stage = "idle" /\ record.state = "absent"
    /\ ToConvert = {} /\ ~CannotStay
    /\ Settled("plain")
    /\ UNCHANGED <<named, record, up, known, clock, saved>>

\* The directory cannot be listed or written, or holds a name that cannot stay.
SettleUnconverted ==
    /\ up /\ stage = "idle" /\ record.state = "absent" /\ named # << >>
    /\ Unconverted
    /\ UNCHANGED <<named, record, up, clock, saved>>

StartConversion ==
    /\ up /\ stage = "idle" /\ record.state = "absent"
    /\ ToConvert # {} /\ ~CannotStay
    /\ \E plan \in Plans : record' = [state |-> "moving", plan |-> plan]
    /\ stage' = "moving" /\ step' = 1
    /\ UNCHANGED <<named, up, naming, known, clock, saved>>

ResumeConversion ==
    /\ up /\ stage = "idle" /\ record.state \in {"moving", "placing"}
    /\ stage' = record.state /\ step' = 1
    /\ UNCHANGED <<named, record, up, naming, known, clock, saved>>

Advance == step' = step + 1 /\ UNCHANGED stage

\* The first pass: one name to its temporary name, unless it has it already or
\* a directory above it has moved.
MoveAside ==
    /\ stage = "moving" /\ step <= Len(record.plan)
    /\ \/ /\ Exists(TemporaryPath(step)) \/ ~Exists(record.plan[step])
          /\ Advance
          /\ UNCHANGED named
       \/ /\ ~Exists(TemporaryPath(step)) /\ Exists(record.plan[step])
          /\ Rename(record.plan[step], TemporaryPath(step))
          /\ Advance
    /\ UNCHANGED <<record, up, naming, known, clock, saved>>

\* The name cannot move: everything goes back.
CannotMove ==
    /\ stage = "moving" /\ step <= Len(record.plan)
    /\ ~Exists(TemporaryPath(step)) /\ Exists(record.plan[step])
    /\ stage' = "undoing" /\ step' = Len(record.plan)
    /\ UNCHANGED <<named, record, up, naming, known, clock, saved>>

AllMoved ==
    /\ stage = "moving" /\ step = Len(record.plan) + 1
    /\ record' = [record EXCEPT !.state = "placing"]
    /\ stage' = "placing" /\ step' = 1
    /\ UNCHANGED <<named, up, naming, known, clock, saved>>

\* The encoded name of the step's entry, in the directory it is placed in.
Destination == [PlacingPath(step) EXCEPT ![Len(record.plan[step])] =
                   Encode[Last(record.plan[step])]]

\* The second pass: one temporary name to its encoded name, which must be free.
Place ==
    /\ stage = "placing" /\ step <= Len(record.plan)
    /\ \/ /\ ~Exists(PlacingPath(step))
          /\ UNCHANGED named
       \/ /\ Exists(PlacingPath(step)) /\ ~Exists(Destination)
          /\ Rename(PlacingPath(step), Destination)
    /\ Advance
    /\ UNCHANGED <<record, up, naming, known, clock, saved>>

AllPlaced ==
    /\ stage = "placing" /\ step = Len(record.plan) + 1
    /\ record' = [state |-> "encoded", plan |-> <<>>]
    /\ Settled("encoded") /\ known' = Nothing
    /\ UNCHANGED <<named, up, clock, saved>>

\* putSaveNameBack: what was put under the earlier name meanwhile stays; a moved
\* directory gives the one there what it lacks, an entry at a time.
PutSaveNameBack(from, to) ==
    \/ ~Exists(to) /\ Rename(from, to)
    \/ /\ Exists(to) /\ (from \in DOMAIN named \/ OnDisk(to) \cap DOMAIN named # {})
       /\ named' = Without(named, from)
    \/ /\ Exists(to) /\ from \notin DOMAIN named /\ OnDisk(to) \cap DOMAIN named = {}
       /\ \E p \in {q \in DOMAIN named : IsStrictPrefix(from, q)} :
            \/ Exists(Append(to, Last(p))) /\ named' = Without(named, p)
            \/ ~Exists(Append(to, Last(p))) /\ Rename(p, Append(to, Last(p)))

\* moveSaveNamesBack, from the end of the list.
MoveBack ==
    /\ stage = "undoing" /\ step > 0
    /\ \/ ~Exists(TemporaryPath(step)) /\ step' = step - 1 /\ UNCHANGED named
       \/ /\ Exists(TemporaryPath(step))
          /\ PutSaveNameBack(TemporaryPath(step), record.plan[step])
          /\ UNCHANGED step
    /\ UNCHANGED <<record, up, stage, naming, known, clock, saved>>

Undone ==
    /\ stage = "undoing" /\ step = 0
    /\ record' = [state |-> "absent", plan |-> <<>>]
    /\ Unconverted
    /\ UNCHANGED <<named, up, clock, saved>>

\* A rename of the second pass or of an undo, a write of the record or its
\* removal fails, or an encoded name is taken.
CannotGoOn ==
    /\ stage \in {"moving", "placing", "undoing"}
    /\ Stuck
    /\ UNCHANGED <<named, record, up, clock, saved>>

-----------------------------------------------------------------------------
(***************************************************************************)
(* Reading and writing a save once the names are settled.                  *)
(***************************************************************************)

InPlan(p) == \E i \in DOMAIN record.plan : record.plan[i] = p

TemporaryOf(p) == Temporary[CHOOSE i \in DOMAIN record.plan : record.plan[i] = p]

\* convertingSavePath: what a segment is looked up as first ...
FirstSpelling(k, n) ==
    LET p == SubSeq(k, 1, n) IN
    IF InPlan(p) /\ record.state = "placing" THEN TemporaryOf(p) ELSE k[n]

\* ... and everything it may be under.
ConvertingSpellings(k, n) ==
    LET p == SubSeq(k, 1, n) IN
    IF ~InPlan(p) THEN {k[n]}
    ELSE {TemporaryOf(p), IF record.state = "placing" THEN Encode[k[n]] ELSE k[n]}

ConvertingFile(k) ==
    LET found == {p \in DOMAIN named :
                    Len(p) = Len(k) /\ \A n \in DOMAIN k : p[n] \in ConvertingSpellings(k, n)}
        Before(p, q) == \E n \in DOMAIN k :
                    /\ SubSeq(p, 1, n - 1) = SubSeq(q, 1, n - 1)
                    /\ p[n] # q[n] /\ p[n] = FirstSpelling(k, n)
    IN  {p \in found : ~\E q \in found : Before(q, p)}

\* A directory without the record: the encoded path, or a name a conversion left.
PlainFile(k) ==
    IF Fits(k) /\ Exists(EncodedPath(k)) THEN OnDisk(EncodedPath(k)) ELSE {k} \cap DOMAIN named

\* findEarlierSave: the latest file under names an earlier build could have left.
EarlierFile(k) ==
    LET found == {p \in DOMAIN named \ {EncodedPath(k)} :
                    Len(p) = Len(k) /\ \A n \in DOMAIN k : p[n] \in Spellings(k[n])}
    IN  {p \in found : \A q \in found : named[q].at <= named[p].at}

EncodedFile(k) == IF Fits(k) THEN OnDisk(EncodedPath(k)) ELSE {}

\* Faulty: an earlier name is the save however old it is.
AnyEarlierFile(k) == EarlierFile(k)

\* laterSaveFile: an earlier build's file that is the save, not a leftover.
LaterEarlierFile(k) ==
    {p \in EarlierFile(k) : \A q \in EncodedFile(k) : named[p].at > named[q].at}

\* locateSave: the file that is read, if there is one.
Located(k) ==
    CASE naming = "earlier" -> {k} \cap DOMAIN named
      [] naming = "converting" -> ConvertingFile(k)
      [] naming = "plain" -> PlainFile(k)
      [] naming = "encoded" ->
            IF LaterEarlierFile(k) # {} THEN LaterEarlierFile(k) ELSE EncodedFile(k)

\* moveEarlierSave: an earlier directory moves whole when its encoded name is
\* free. Each rename may be the last one that succeeds.
Adopted(k) ==
    IF naming # "encoded" \/ ~Fits(k) THEN {named}
    ELSE {named} \cup UNION {
        LET top == <<Encode[k[1]]>>
            whole == Len(k) > 1 /\ p[1] # top[1] /\ ~Exists(top)
            tree == IF whole THEN Renamed(named, <<p[1]>>, top) ELSE named
            at == IF whole THEN [p EXCEPT ![1] = top[1]] ELSE p
        IN  {tree, Renamed(tree, at, EncodedPath(k))} : p \in LaterEarlierFile(k)}

\* Every key in a listing, with the file it is read from (saveEntryChoice).
KeyOf(p) == IF naming = "encoded" THEN [n \in DOMAIN p |-> ReadName(p[n])] ELSE p

\* Faulty: of two names of a key the encoded one is always listed.
ListingOfEncoded ==
    {<<KeyOf(p), named[p]>> :
        p \in {p \in DOMAIN named : \A q \in DOMAIN named :
                 KeyOf(q) = KeyOf(p) => p = q \/ p = EncodedPath(KeyOf(p))}}

Listing ==
    {<<KeyOf(p), named[p]>> :
        p \in {p \in DOMAIN named : \A q \in DOMAIN named :
                 KeyOf(q) = KeyOf(p) =>
                     \/ named[q].at < named[p].at
                     \/ named[q].at = named[p].at /\ (p = q \/ p = EncodedPath(KeyOf(p)))}}

\* An operation that reads one save, or only looks.
ReadSave(k) ==
    /\ stage = "settled"
    /\ named' \in Adopted(k)
    /\ stage' = "idle" /\ naming' = Nothing
    /\ UNCHANGED <<record, up, step, known, clock, saved>>

\* prepareSaveWrite, for the first key that needs an encoded name.
BecomeEncoded(k) ==
    /\ stage = "settled" /\ naming = "plain"
    /\ EncodedPath(k) # k /\ Fits(k)
    /\ record' = [state |-> "encoded", plan |-> <<>>]
    /\ naming' = "encoded"
    /\ UNCHANGED <<named, up, stage, step, known, clock, saved>>

Puts(k, tree, p) ==
    /\ clock < MaxSaves
    /\ named' = With(tree, p, [key |-> k, at |-> clock + 1])
    /\ clock' = clock + 1
    /\ saved' = [saved EXCEPT ![k] = clock + 1]

\* Faulty: a directory without the record takes encoded names.
WritableUnrecorded(k) == naming \in {"plain", "encoded"}

\* refusesWrites, and the names a directory without the record takes.
Writable(k) ==
    \/ naming = "encoded"
    \/ naming = "plain" /\ (EncodedPath(k) = k \/ ~Fits(k))

\* StoreSave once the names are settled. A key whose encoded name is too long
\* is written only where an earlier build left it.
WriteSave(k) ==
    /\ stage = "settled" /\ Writable(k)
    /\ \/ /\ Fits(k)
          /\ \E tree \in Adopted(k) :
                Puts(k, tree, IF Exists(EncodedPath(k)) /\ tree = named
                                THEN CHOOSE e \in OnDisk(EncodedPath(k)) : TRUE
                                ELSE EncodedPath(k))
       \/ /\ ~Fits(k)
          /\ \E p \in Located(k) : Puts(k, named, p)
    /\ stage' = "idle" /\ naming' = Nothing
    /\ UNCHANGED <<record, up, step, known>>

-----------------------------------------------------------------------------
(***************************************************************************)
(* The process stops, and an earlier build runs.                           *)
(***************************************************************************)

Stop ==
    /\ up
    /\ up' = FALSE /\ stage' = "idle" /\ step' = 0 /\ naming' = Nothing /\ known' = Nothing
    /\ UNCHANGED <<named, record, clock, saved>>

Start ==
    /\ ~up
    /\ up' = TRUE
    /\ UNCHANGED <<named, record, stage, step, naming, known, clock, saved>>

\* External: every key is its own path. On a volume that folds names the file
\* it is answered with belongs to the key it is spelled as. A name that reads
\* both ways in an encoded directory is not written there.
EarlierBuildWrites(k) ==
    /\ ~up /\ record.state \in EarlierWrites[title] /\ clock < MaxSaves
    /\ record.state # "absent" => \A n \in DOMAIN k : Unambiguous(k[n])
    /\ LET at == IF Exists(k) THEN CHOOSE e \in OnDisk(k) : TRUE ELSE Spelled(k) IN
       /\ at \in title
       /\ named' = Written(named, at, [key |-> at, at |-> clock + 1])
       /\ saved' = [saved EXCEPT ![at] = clock + 1]
    /\ clock' = clock + 1
    /\ UNCHANGED <<record, up, stage, step, naming, known>>

Convert == MoveAside \/ CannotMove \/ AllMoved \/ Place \/ AllPlaced \/ MoveBack \/ Undone \/ CannotGoOn

Settle ==
    \/ SettleEncoded \/ SettleAsKnown \/ SettlePlain \/ SettleUnconverted
    \/ StartConversion \/ ResumeConversion

NamesNext ==
    /\ \/ Settle \/ Convert
       \/ \E k \in title :
            ReadSave(k) \/ BecomeEncoded(k) \/ WriteSave(k) \/ EarlierBuildWrites(k)
       \/ Stop \/ Start
    /\ UNCHANGED title

NamesSpec == NamesInit /\ [][NamesNext]_namesVars

-----------------------------------------------------------------------------
(***************************************************************************)
(* Properties.                                                             *)
(***************************************************************************)

Saves(k) == IF saved[k] = 0 THEN {} ELSE {[key |-> k, at |-> saved[k]]}

\* An earlier build wrote the key again while its conversion was stopped.
PutBack(k) ==
    /\ k \in DOMAIN named /\ named[k].key = k
    /\ \E n \in DOMAIN k : InPlan(SubSeq(k, 1, n))

\* A read of a key answers the last save written under it, by whichever build,
\* and no other key's, however far a conversion came, was undone, stopped or
\* resumed. While one can neither go on nor be undone, a read finds the last save
\* through the record: in the first pass always ("it is the save, as the one
\* written later is for a read", save_names.go), in the second unless an earlier
\* build put it back.
ReadsAnswerTheSave ==
    stage = "settled" => \A k \in title :
        IF naming = "converting"
        THEN saved[k] # 0 /\ (record.state = "placing" => ~PutBack(k)) =>
                {named[p] : p \in Located(k)} = Saves(k)
        ELSE {named[p] : p \in Located(k)} = Saves(k)

\* A listing, an export and a checkpoint hold every save and nothing else.
ListingIsComplete ==
    stage = "settled" /\ naming # "converting" =>
        Listing = UNION {{<<k, f>> : f \in Saves(k)} : k \in title}

\* No step of a conversion, an undo, an adoption or a write loses the last save
\* under any key, wherever the process stops.
NoSaveIsLost == \A k \in title : Saves(k) \subseteq {named[p] : p \in DOMAIN named}

\* A directory whose record says its names are encoded, or that has none, holds
\* no temporary name: nothing would ever look there again.
NoNameStaysTemporary ==
    record.state \in {"absent", "encoded"} =>
        \A p \in DOMAIN named : \A n \in DOMAIN p : p[n] \notin TemporaryNames
=============================================================================

--------------------------- MODULE SaveNamesProofs ---------------------------
(***************************************************************************)
(* For any segments, any encoding that keeps them apart, any volume, any     *)
(* titles and any number of writes: the last save under a key is never lost, *)
(* is what a read takes, is listed, and has no temporary name once a         *)
(* conversion is over.                                                      *)
(*                                                                         *)
(* Where a save is follows from the record alone. Each name of a file is its *)
(* own, its temporary one or its encoded one, as the state of the record     *)
(* allows; the names in a directory are apart on the volume; and of a key's  *)
(* files the one written last is kept (TreeOK). What a second file of a key  *)
(* is, which an earlier build may have put beside a moved one, and which own *)
(* names an encoded directory may keep, is ConvertingOK; how far the pass    *)
(* under way has come is Progress.                                         *)
(*                                                                         *)
(* First come paths, the volume and its renames; then one step of NamesNext  *)
(* at a time; then the four properties from the invariant.                  *)
(***************************************************************************)
EXTENDS SaveNames, FunctionTheorems, SequenceTheorems, FiniteSetTheorems, TLAPS

-----------------------------------------------------------------------------
(***************************************************************************)
(* Paths, name by name.                                                    *)
(***************************************************************************)
Names == SegmentNames \cup TemporaryNames

\* One path or directory is the other or above it.
Above(e, p) == Len(e) <= Len(p) /\ \A n \in 1..Len(e) : e[n] = p[n]

\* The volume takes one for the other.
Meets(d, e) == Len(d) = Len(e) /\ \A n \in 1..Len(d) : Fold[d[n]] = Fold[e[n]]

\* Intervals from 1 are the same when their ends are.
LEMMA SameInterval ==
    ASSUME NEW m \in Nat, NEW n \in Nat, 1..m = 1..n
    PROVE  m = n
<1>1. ASSUME NEW i \in Nat, NEW j \in Nat, 1..i = 1..j PROVE i <= j
  <2>1. CASE i = 0
    BY <2>1
  <2>2. CASE i # 0
    <3>1. i \in 1..i
      BY <2>2
    <3>2. i \in 1..j
      BY <1>1, <3>1
    <3> QED BY <3>2
  <2> QED BY <2>1, <2>2
<1>2. m <= n /\ n <= m
  BY <1>1
<1> QED BY <1>2

\* A path is a sequence of one name or two.
LEMMA PathIs ==
    ASSUME NEW p
    PROVE  p \in Paths <=> p \in Seq(Names) /\ Len(p) \in 1..2
<1>1. ASSUME p \in Paths PROVE p \in Seq(Names) /\ Len(p) \in 1..2
  <2>1. PICK n \in 1..2 : p \in [1..n -> Names]
    BY <1>1 DEF Paths, Names
  <2>2. p \in Seq(Names)
    BY <2>1, SeqDef
  <2>3. Len(p) = n
    <3>1. Len(p) \in Nat /\ DOMAIN p = 1..Len(p) /\ DOMAIN p = 1..n
      BY <2>1, <2>2, LenProperties
    <3>2. 1..Len(p) = 1..n
      BY <3>1, Zenon
    <3>3. n \in Nat
      OBVIOUS
    <3> QED BY <3>1, <3>2, <3>3, SameInterval
  <2> QED BY <2>2, <2>3
<1>2. ASSUME p \in Seq(Names), Len(p) \in 1..2 PROVE p \in Paths
  <2>1. p \in [1..Len(p) -> Names]
    BY <1>2, LenProperties
  <2> QED BY <1>2, <2>1 DEF Paths, Names
<1> QED BY <1>1, <1>2

\* A path's length and its names.
LEMMA PathShape ==
    ASSUME NEW p \in Paths
    PROVE  /\ p \in Seq(Names) /\ Len(p) \in 1..2 /\ DOMAIN p = 1..Len(p)
           /\ \A n \in 1..Len(p) : p[n] \in Names
BY PathIs, LenProperties, ElementOfSeq

\* Two paths are one when their names are.
LEMMA SamePath ==
    ASSUME NEW p \in Paths, NEW q \in Paths
    PROVE  p = q <=> Len(p) = Len(q) /\ \A n \in 1..Len(p) : p[n] = q[n]
BY PathShape, SeqEqual

\* The first names of a path.
LEMMA FirstNames ==
    ASSUME NEW p \in Paths, NEW n \in 1..Len(p)
    PROVE  /\ SubSeq(p, 1, n) \in Paths /\ Len(SubSeq(p, 1, n)) = n
           /\ \A j \in 1..n : SubSeq(p, 1, n)[j] = p[j]
<1>1. p \in Seq(Names) /\ Len(p) \in 1..2 /\ n \in Int /\ 1 \in Int /\ \A j \in 1..n : p[j] \in Names
  BY PathShape
<1>2. /\ SubSeq(p, 1, n) \in Seq(Names) /\ Len(SubSeq(p, 1, n)) = IF 1 <= n THEN n - 1 + 1 ELSE 0
      /\ \A j \in 1..(n - 1 + 1) : SubSeq(p, 1, n)[j] = p[1 + j - 1]
  BY <1>1, SubSeqProperties
<1>3. Len(SubSeq(p, 1, n)) = n /\ \A j \in 1..n : SubSeq(p, 1, n)[j] = p[j]
  BY <1>1, <1>2
<1>4. n \in 1..2
  BY <1>1
<1> QED BY <1>2, <1>3, <1>4, PathIs

\* Being above a path is being its first names.
LEMMA FirstNamesAre ==
    ASSUME NEW p \in Paths, NEW e \in Paths
    PROVE  Above(e, p) <=> Len(e) <= Len(p) /\ e = SubSeq(p, 1, Len(e))
<1>1. Len(e) \in 1..2 /\ Len(p) \in 1..2
  BY PathShape
<1>2. CASE Len(e) <= Len(p)
  <2>1. /\ SubSeq(p, 1, Len(e)) \in Paths /\ Len(SubSeq(p, 1, Len(e))) = Len(e)
        /\ \A j \in 1..Len(e) : SubSeq(p, 1, Len(e))[j] = p[j]
    BY <1>1, <1>2, FirstNames
  <2>2. e = SubSeq(p, 1, Len(e)) <=> \A n \in 1..Len(e) : e[n] = p[n]
    BY ZenonT(60), <2>1, SamePath
  <2> QED BY <1>2, <2>2 DEF Above
<1> QED BY <1>2 DEF Above

\* The library's prefixes, of paths.
LEMMA PrefixIsAbove ==
    ASSUME NEW e \in Paths, NEW p \in Paths
    PROVE  /\ IsPrefix(e, p) <=> Above(e, p)
           /\ IsStrictPrefix(e, p) <=> Above(e, p) /\ Len(e) < Len(p)
<1>1. Len(e) \in 1..2 /\ Len(p) \in 1..2 /\ e \in Seq(Names)
  BY PathShape
<1>2. SubSeq(e, 1, Len(e)) = e
  BY <1>1, SubSeqFull
<1>3. IsPrefix(e, p) <=> Above(e, p)
  BY <1>2, FirstNamesAre DEF IsPrefix
<1>4. Above(e, p) => (e # p <=> Len(e) < Len(p))
  BY <1>1, SamePath DEF Above
<1> QED BY <1>3, <1>4 DEF IsStrictPrefix

\* The last name of a path, and the directory it is in.
LEMMA LastIs ==
    ASSUME NEW p \in Paths
    PROVE  /\ Last(p) = p[Len(p)]
           /\ Len(p) = 2 => /\ Front(p) \in Paths /\ Len(Front(p)) = 1 /\ Front(p)[1] = p[1]
                            /\ Front(p) = SubSeq(p, 1, 1)
<1>1. CASE Len(p) = 2
  <2>1. 1 \in 1..Len(p)
    BY <1>1
  <2> QED BY <1>1, <2>1, FirstNames DEF Last, Front
<1> QED BY <1>1 DEF Last

\* A path with one of its names replaced.
LEMMA Renames ==
    ASSUME NEW p \in Paths, NEW n \in 1..Len(p), NEW x \in Names
    PROVE  /\ [p EXCEPT ![n] = x] \in Paths /\ Len([p EXCEPT ![n] = x]) = Len(p)
           /\ \A j \in 1..Len(p) : [p EXCEPT ![n] = x][j] = IF j = n THEN x ELSE p[j]
BY PathIs, PathShape, ExceptSeq

\* A name in a directory.
LEMMA ExtendIs ==
    ASSUME NEW d \in Paths, Len(d) = 1, NEW x \in Names
    PROVE  /\ Append(d, x) \in Paths /\ Len(Append(d, x)) = 2
           /\ Append(d, x)[1] = d[1] /\ Append(d, x)[2] = x
<1>1. d \in Seq(Names)
  BY PathShape
<1>2. /\ Append(d, x) \in Seq(Names) /\ Len(Append(d, x)) = Len(d) + 1
      /\ \A i \in 1..Len(d) : Append(d, x)[i] = d[i]
      /\ Append(d, x)[Len(d) + 1] = x
  BY ZenonT(60), <1>1, AppendProperties
<1>3. Len(Append(d, x)) = 2 /\ Append(d, x)[2] = x /\ Append(d, x)[1] = d[1] /\ 2 \in 1..2
  BY <1>2
<1> QED BY <1>2, <1>3, PathIs

\* The volume looks at all names at once.
LEMMA MeetsIs ==
    ASSUME NEW d \in Paths, NEW e \in Paths
    PROVE  Folded(d) = Folded(e) <=> Meets(d, e)
<1>1. DOMAIN d = 1..Len(d) /\ DOMAIN e = 1..Len(e) /\ Len(d) \in 1..2 /\ Len(e) \in 1..2
  BY PathShape
<1>2. 1..Len(d) = 1..Len(e) <=> Len(d) = Len(e)
  <2>1. Len(d) \in Nat /\ Len(e) \in Nat
    BY <1>1
  <2> QED BY <2>1, SameInterval
<1>3. ASSUME Folded(d) = Folded(e) PROVE Meets(d, e)
  <2>1. DOMAIN Folded(d) = 1..Len(d) /\ DOMAIN Folded(e) = 1..Len(e)
    BY <1>1 DEF Folded
  <2>2. Len(d) = Len(e)
    BY <1>2, <1>3, <2>1
  <2>3. \A n \in 1..Len(d) : Folded(d)[n] = Fold[d[n]] /\ Folded(e)[n] = Fold[e[n]]
    BY <1>1, <2>2 DEF Folded
  <2> QED BY <1>3, <2>2, <2>3 DEF Meets
<1>4. ASSUME Meets(d, e) PROVE Folded(d) = Folded(e)
  BY <1>1, <1>4 DEF Folded, Meets
<1> QED BY <1>3, <1>4

\* A path with its first names replaced by those of t.
Onto(p, t) == [n \in 1..Len(p) |-> IF n <= Len(t) THEN t[n] ELSE p[n]]

\* The path below another directory, as Renamed writes it.
LEMMA OntoIs ==
    ASSUME NEW p \in Paths, NEW t \in Paths, Len(t) <= Len(p)
    PROVE  /\ Onto(p, t) \in Paths /\ Len(Onto(p, t)) = Len(p)
           /\ \A n \in 1..Len(p) : Onto(p, t)[n] = IF n <= Len(t) THEN t[n] ELSE p[n]
           /\ t \o SubSeq(p, Len(t) + 1, Len(p)) = Onto(p, t)
<1>1. /\ p \in Seq(Names) /\ t \in Seq(Names) /\ Len(p) \in 1..2 /\ Len(t) \in 1..2
      /\ \A n \in 1..Len(p) : p[n] \in Names
      /\ \A n \in 1..Len(t) : t[n] \in Names
  BY PathShape
<1> DEFINE s == SubSeq(p, Len(t) + 1, Len(p))
<1>2. /\ s \in Seq(Names) /\ Len(s) = Len(p) - Len(t)
      /\ \A i \in 1..(Len(p) - Len(t)) : s[i] = p[Len(t) + i]
  <2>1. Len(t) + 1 \in Int /\ Len(p) \in Int /\ \A i \in (Len(t) + 1)..Len(p) : p[i] \in Names
    BY <1>1
  <2>2. /\ s \in Seq(Names) /\ Len(s) = IF Len(t) + 1 <= Len(p) THEN Len(p) - (Len(t) + 1) + 1 ELSE 0
        /\ \A i \in 1..(Len(p) - (Len(t) + 1) + 1) : s[i] = p[Len(t) + 1 + i - 1]
    BY <2>1, SubSeqProperties
  <2> HIDE DEF s
  <2> QED BY <1>1, <2>2
<1> HIDE DEF s
<1>3. /\ t \o s \in Seq(Names) /\ Len(t \o s) = Len(p)
      /\ \A i \in 1..Len(p) : (t \o s)[i] = IF i <= Len(t) THEN t[i] ELSE p[i]
  <2>1. /\ t \o s \in Seq(Names) /\ Len(t \o s) = Len(t) + Len(s)
        /\ \A i \in 1..Len(t) + Len(s) : (t \o s)[i] = IF i <= Len(t) THEN t[i] ELSE s[i - Len(t)]
    BY <1>1, <1>2, ConcatProperties
  <2> QED BY <1>1, <1>2, <2>1
<1>4. t \o s \in Paths
  BY <1>1, <1>3, PathIs
<1>5. t \o s = Onto(p, t)
  <2>1. t \o s = [n \in 1..Len(p) |-> (t \o s)[n]]
    BY <1>3, LenProperties
  <2> QED BY <1>3, <2>1 DEF Onto
<1> QED BY <1>3, <1>4, <1>5 DEF s

\* What a tree is after a rename.
Stands(tree, from, to) ==
    \A q \in DOMAIN tree : Above(to, q) /\ ~Above(from, q) =>
        \E p \in DOMAIN tree : Above(from, p) /\ q = Onto(p, to)

\* The files a rename leaves, and where each has gone.
LEMMA RenamedIs ==
    ASSUME NEW tree, DOMAIN tree \subseteq Paths, NEW from \in Paths, NEW to \in Paths,
           Len(from) = Len(to), Stands(tree, from, to)
    PROVE  /\ DOMAIN Renamed(tree, from, to) =
                 {p \in DOMAIN tree : ~Above(from, p) /\ ~Above(to, p)}
                 \cup {Onto(p, to) : p \in {q \in DOMAIN tree : Above(from, q)}}
           /\ \A p \in DOMAIN tree :
                 /\ Above(from, p) => Renamed(tree, from, to)[Onto(p, to)] = tree[p]
                 /\ ~Above(from, p) /\ ~Above(to, p) => Renamed(tree, from, to)[p] = tree[p]
<1> DEFINE below == {p \in DOMAIN tree : IsPrefix(from, p)}
           Under(p) == to \o SubSeq(p, Len(from) + 1, Len(p))
           Before(q) == from \o SubSeq(q, Len(to) + 1, Len(q))
           D == (DOMAIN tree \ below) \cup {Under(p) : p \in below}
           B == {q \in DOMAIN tree : Above(from, q)}
<1>1. below = B
  BY PrefixIsAbove
<1>2. ASSUME NEW p \in B
      PROVE  Under(p) = Onto(p, to) /\ Onto(p, to) \in Paths /\ Above(to, Onto(p, to)) /\ Before(Onto(p, to)) = p
  <2>1. p \in Paths /\ Len(from) <= Len(p) /\ Len(to) <= Len(p) /\ \A n \in 1..Len(from) : p[n] = from[n]
    BY <1>2 DEF Above
  <2>2. Under(p) = Onto(p, to)
    BY <2>1, OntoIs
  <2>3. /\ Onto(p, to) \in Paths /\ Len(Onto(p, to)) = Len(p)
        /\ \A n \in 1..Len(p) : Onto(p, to)[n] = IF n <= Len(to) THEN to[n] ELSE p[n]
    BY <2>1, OntoIs
  <2>4. Len(to) \in 1..2 /\ Len(p) \in 1..2
    BY <2>1, PathShape
  <2>5. Above(to, Onto(p, to))
    BY <2>1, <2>3, <2>4 DEF Above
  <2>6. /\ Before(Onto(p, to)) \in Paths /\ Len(Before(Onto(p, to))) = Len(p)
        /\ \A n \in 1..Len(p) : Before(Onto(p, to))[n] = IF n <= Len(from) THEN from[n] ELSE Onto(p, to)[n]
    <3>1. PICK o \in Paths : o = Onto(p, to)
      BY <2>3
    <3>2. Len(o) = Len(p) /\ Len(from) <= Len(o)
      BY <2>1, <2>3, <3>1
    <3>3. Before(o) = Onto(o, from)
      BY SMTT(60), <3>2, OntoIs
    <3>4. /\ Onto(o, from) \in Paths /\ Len(Onto(o, from)) = Len(o)
          /\ \A n \in 1..Len(o) : Onto(o, from)[n] = IF n <= Len(from) THEN from[n] ELSE o[n]
      BY <3>2, OntoIs
    <3> HIDE DEF Before
    <3> QED BY <3>1, <3>2, <3>3, <3>4
  <2>7. \A n \in 1..Len(p) : Before(Onto(p, to))[n] = p[n]
    BY <2>1, <2>3, <2>4, <2>6
  <2>8. Before(Onto(p, to)) = p
    BY <2>1, <2>6, <2>7, SamePath
  <2> QED BY <2>2, <2>3, <2>5, <2>8
<1>3. {Under(p) : p \in below} = {Onto(p, to) : p \in B}
  <2>1. \A p \in B : Under(p) = Onto(p, to)
    BY <1>2
  <2> HIDE DEF below, Under, B
  <2> QED BY <1>1, <2>1
<1>4. D = {p \in DOMAIN tree : ~Above(from, p) /\ ~Above(to, p)} \cup {Onto(p, to) : p \in B}
  BY <1>1, <1>3 DEF Stands
<1>5. Renamed(tree, from, to) = [q \in D |-> IF IsPrefix(to, q) THEN tree[Before(q)] ELSE tree[q]]
  BY DEF Renamed
<1> HIDE DEF below, Under, Before, D
<1>6. DOMAIN Renamed(tree, from, to) = D
  BY <1>5
<1>7. ASSUME NEW p \in DOMAIN tree, Above(from, p) PROVE Renamed(tree, from, to)[Onto(p, to)] = tree[p]
  <2>1. p \in B /\ Onto(p, to) \in D
    BY <1>4, <1>7
  <2>2. IsPrefix(to, Onto(p, to)) /\ Before(Onto(p, to)) = p
    BY <1>2, <2>1, PrefixIsAbove
  <2> QED BY <1>5, <2>1, <2>2
<1>8. ASSUME NEW p \in DOMAIN tree, ~Above(from, p), ~Above(to, p) PROVE Renamed(tree, from, to)[p] = tree[p]
  <2>1. p \in D /\ ~IsPrefix(to, p)
    BY <1>4, <1>8, PrefixIsAbove
  <2> QED BY <1>5, <2>1
<1> QED BY <1>4, <1>6, <1>7, <1>8

-----------------------------------------------------------------------------
(***************************************************************************)
(* What the volume answers.                                                *)
(***************************************************************************)
\* p is what the volume takes q for, or below it.
Covers(p, q) == Len(q) <= Len(p) /\ \A n \in 1..Len(q) : Fold[p[n]] = Fold[q[n]]

\* There is what is above some file.
LEMMA EntriesAre ==
    ASSUME DOMAIN named \subseteq Paths
    PROVE  /\ Entries \subseteq Paths
           /\ \A e \in Paths : e \in Entries <=> \E p \in DOMAIN named : Above(e, p)
           /\ \A p \in DOMAIN named : \A n \in 1..Len(p) : SubSeq(p, 1, n) \in Entries
<1>1. Entries \subseteq Paths
  <2>1. ASSUME NEW p \in DOMAIN named, NEW n \in 1..Len(p) PROVE SubSeq(p, 1, n) \in Paths
    BY FirstNames
  <2>2. ASSUME NEW e \in Entries PROVE e \in Paths
    <3>1. PICK p \in DOMAIN named : e \in {SubSeq(p, 1, n) : n \in 1..Len(p)}
      BY <2>2 DEF Entries
    <3>2. PICK n \in 1..Len(p) : e = SubSeq(p, 1, n)
      BY <3>1
    <3> QED BY <2>1, <3>2
  <2> QED BY <2>2
<1>2. ASSUME NEW e \in Paths PROVE e \in Entries <=> \E p \in DOMAIN named : Above(e, p)
  <2>1. ASSUME e \in Entries PROVE \E p \in DOMAIN named : Above(e, p)
    <3>1. PICK p \in DOMAIN named : \E n \in 1..Len(p) : e = SubSeq(p, 1, n)
      BY <2>1 DEF Entries
    <3>0. PICK n \in 1..Len(p) : e = SubSeq(p, 1, n)
      BY <3>1
    <3>2. p \in Paths /\ Len(p) \in 1..2
      BY PathShape
    <3>3. Len(e) = n /\ \A j \in 1..n : e[j] = p[j]
      BY <3>0, <3>2, FirstNames
    <3> QED BY <3>2, <3>3 DEF Above
  <2>2. ASSUME NEW p \in DOMAIN named, Above(e, p) PROVE e \in Entries
    <3>1. e = SubSeq(p, 1, Len(e)) /\ Len(e) \in 1..Len(p)
      <4>1. p \in Paths /\ Len(e) \in 1..2 /\ Len(p) \in 1..2
        BY PathShape
      <4> QED BY SMTT(60), <2>2, <4>1, FirstNamesAre
    <3>2. e \in {SubSeq(p, 1, n) : n \in 1..Len(p)}
      BY <3>1
    <3> QED BY <3>2 DEF Entries
  <2> QED BY <2>1, <2>2
<1> QED BY <1>1, <1>2 DEF Entries

\* A lookup finds what the volume takes for the path it is given.
LEMMA AnswersAre ==
    ASSUME DOMAIN named \subseteq Paths, NEW q \in Paths
    PROVE  /\ OnDisk(q) = {e \in Entries : Meets(e, q)}
           /\ OnDisk(q) \subseteq Paths
           /\ Exists(q) <=> \E p \in DOMAIN named : Covers(p, q)
           /\ \A p \in DOMAIN named : Covers(p, q) => SubSeq(p, 1, Len(q)) \in OnDisk(q)
<1>1. Entries \subseteq Paths /\ \A e \in Paths : e \in Entries <=> \E p \in DOMAIN named : Above(e, p)
  BY EntriesAre
<1>2. OnDisk(q) = {e \in Entries : Meets(e, q)}
  BY <1>1, MeetsIs DEF OnDisk
<1>3. ASSUME NEW p \in DOMAIN named, Covers(p, q) PROVE SubSeq(p, 1, Len(q)) \in OnDisk(q)
  <2>1. p \in Paths /\ Len(q) \in 1..Len(p)
    <3>1. Len(q) \in 1..2 /\ Len(p) \in 1..2
      BY PathShape
    <3>2. Len(q) <= Len(p)
      BY <1>3 DEF Covers
    <3>3. Len(q) \in 1..Len(p)
      BY <3>1, <3>2
    <3> QED BY <3>3
  <2>2. /\ SubSeq(p, 1, Len(q)) \in Paths /\ Len(SubSeq(p, 1, Len(q))) = Len(q)
        /\ \A j \in 1..Len(q) : SubSeq(p, 1, Len(q))[j] = p[j]
    BY <2>1, FirstNames
  <2>3. SubSeq(p, 1, Len(q)) \in Entries
    BY <2>1, EntriesAre
  <2>4. Meets(SubSeq(p, 1, Len(q)), q)
    BY <1>3, <2>2 DEF Meets, Covers
  <2> QED BY <1>2, <2>3, <2>4
<1>4. ASSUME NEW e \in OnDisk(q) PROVE \E p \in DOMAIN named : Covers(p, q)
  <2>1. e \in Entries /\ Meets(e, q) /\ e \in Paths
    BY <1>1, <1>2
  <2>2. PICK p \in DOMAIN named : Above(e, p)
    BY <1>1, <2>1
  <2>3. Covers(p, q)
    BY <2>1, <2>2 DEF Covers, Above, Meets
  <2> QED BY <2>3
<1> QED BY <1>1, <1>2, <1>3, <1>4 DEF Exists

\* Paths have one name or two.
LEMMA TwoNames ==
    ASSUME NEW p \in Paths
    PROVE  /\ Len(p) = 1 \/ Len(p) = 2
           /\ p[1] \in Names /\ (Len(p) = 2 => p[2] \in Names)
<1>1. Len(p) \in 1..2 /\ \A n \in 1..Len(p) : p[n] \in Names
  BY PathShape
<1> QED BY <1>1

\* Above, Meets, Covers and equality, spelled out for one name or two.
LEMMA TwoNamesApiece ==
    ASSUME NEW e \in Paths, NEW p \in Paths
    PROVE  /\ Above(e, p) <=> /\ Len(e) = 2 => Len(p) = 2 /\ e[2] = p[2]
                              /\ e[1] = p[1]
           /\ Meets(e, p) <=> /\ Len(e) = Len(p) /\ Fold[e[1]] = Fold[p[1]]
                              /\ Len(e) = 2 => Fold[e[2]] = Fold[p[2]]
           /\ Covers(p, e) <=> /\ Len(e) = 2 => Len(p) = 2 /\ Fold[p[2]] = Fold[e[2]]
                               /\ Fold[p[1]] = Fold[e[1]]
           /\ e = p <=> Len(e) = Len(p) /\ e[1] = p[1] /\ (Len(e) = 2 => e[2] = p[2])
<1>1. (Len(p) = 1 \/ Len(p) = 2) /\ (Len(e) = 1 \/ Len(e) = 2)
  BY TwoNames
<1>2. Above(e, p) <=> /\ Len(e) = 2 => Len(p) = 2 /\ e[2] = p[2]
                      /\ e[1] = p[1]
  BY SMTT(60), <1>1 DEF Above
<1>3. Meets(e, p) <=> /\ Len(e) = Len(p) /\ Fold[e[1]] = Fold[p[1]]
                      /\ Len(e) = 2 => Fold[e[2]] = Fold[p[2]]
  BY <1>1 DEF Meets
<1>4. Covers(p, e) <=> /\ Len(e) = 2 => Len(p) = 2 /\ Fold[p[2]] = Fold[e[2]]
                       /\ Fold[p[1]] = Fold[e[1]]
  BY <1>1 DEF Covers
<1>5. e = p <=> Len(e) = Len(p) /\ e[1] = p[1] /\ (Len(e) = 2 => e[2] = p[2])
  BY <1>1, SamePath
<1> QED BY <1>2, <1>3, <1>4, <1>5

\* The last name of what is above a path is among the path's.
LEMMA LastAbove ==
    ASSUME NEW e \in Paths, NEW p \in Paths, Above(e, p)
    PROVE  Len(e) \in 1..Len(p) /\ e[Len(e)] = p[Len(e)]
<1>1. (Len(e) = 1 \/ Len(e) = 2) /\ (Len(p) = 1 \/ Len(p) = 2)
  BY TwoNames
<1>2. Len(e) \in 1..Len(p)
  BY <1>1 DEF Above
<1>3. Len(e) \in 1..Len(e)
  BY <1>1
<1> QED BY <1>2, <1>3 DEF Above

\* Paths of one name are one when the name is.
LEMMA OneName ==
    ASSUME NEW e \in Paths, NEW f \in Paths, Len(f) = 1
    PROVE  e = f <=> Len(e) = 1 /\ e[1] = f[1]
<1>1. ASSUME Len(e) = 1, e[1] = f[1] PROVE e = f
  <2>1. \A n \in 1..Len(e) : e[n] = f[n]
    BY <1>1
  <2> QED BY <1>1, <2>1, SamePath
<1> QED BY <1>1

-----------------------------------------------------------------------------
(***************************************************************************)
(* A rename to a free place.                                               *)
(***************************************************************************)

\* No two names in a directory of the tree are one for the volume.
Apart(tree) ==
    \A p, q \in DOMAIN tree : Fold[p[1]] = Fold[q[1]] =>
        p[1] = q[1] /\ (Len(p) = 2 /\ Len(q) = 2 /\ Fold[p[2]] = Fold[q[2]] => p[2] = q[2])

Free(tree, t) == \A q \in DOMAIN tree : ~Covers(q, t)

\* The directory of t is spelled as it is in the tree, or is not there at all.
SpelledIn(tree, t) ==
    Len(t) = 2 => \/ \E q \in DOMAIN tree : q[1] = t[1]
                  \/ \A q \in DOMAIN tree : Fold[q[1]] # Fold[t[1]]

\* Every file of one tree is a file of the other, under the name m gives it.
Relocates(tree, m, after) ==
    /\ m \in [DOMAIN tree -> Paths]
    /\ \A p \in DOMAIN tree : m[p] \in DOMAIN after /\ after[m[p]] = tree[p] /\ Len(m[p]) = Len(p)
    /\ \A q \in DOMAIN after : \E p \in DOMAIN tree : q = m[p]
    /\ \A p, q \in DOMAIN tree : m[p] = m[q] => p = q

\* Everything below e is below t instead.
Brings(tree, m, e, t) ==
    \A p \in DOMAIN tree :
        /\ ~Above(e, p) => m[p] = p
        /\ Above(e, p) => m[p][1] = t[1] /\ (Len(p) = 2 => m[p][2] = IF Len(t) = 2 THEN t[2] ELSE p[2])

\* A rename to a free place moves what is below and nothing else, loses no
\* file, and leaves the names of a directory apart.
LEMMA FreeRename ==
    ASSUME NEW tree, DOMAIN tree \subseteq Paths, Apart(tree),
           NEW e \in Paths, NEW t \in Paths, Len(e) = Len(t), Free(tree, t), SpelledIn(tree, t)
    PROVE  /\ \E m : Relocates(tree, m, Renamed(tree, e, t)) /\ Brings(tree, m, e, t)
           /\ DOMAIN Renamed(tree, e, t) \subseteq Paths
           /\ Apart(Renamed(tree, e, t))
<1> DEFINE m == [p \in DOMAIN tree |-> IF Above(e, p) THEN Onto(p, t) ELSE p]
<1>1. \A q \in DOMAIN tree : ~Above(t, q)
  <2>1. ASSUME NEW q \in DOMAIN tree, Above(t, q) PROVE FALSE
    BY <2>1, TwoNamesApiece DEF Free
  <2> QED BY <2>1
<1>2. Stands(tree, e, t)
  BY <1>1 DEF Stands
<1> HIDE DEF m
<1>3. PICK after : after = Renamed(tree, e, t)
  OBVIOUS
<1>4. /\ DOMAIN after = {p \in DOMAIN tree : ~Above(e, p) /\ ~Above(t, p)}
                        \cup {Onto(p, t) : p \in {q \in DOMAIN tree : Above(e, q)}}
      /\ \A p \in DOMAIN tree :
            /\ Above(e, p) => after[Onto(p, t)] = tree[p]
            /\ ~Above(e, p) /\ ~Above(t, p) => after[p] = tree[p]
  <2>1. /\ DOMAIN Renamed(tree, e, t) =
                {p \in DOMAIN tree : ~Above(e, p) /\ ~Above(t, p)}
                \cup {Onto(p, t) : p \in {q \in DOMAIN tree : Above(e, q)}}
        /\ \A p \in DOMAIN tree :
              /\ Above(e, p) => Renamed(tree, e, t)[Onto(p, t)] = tree[p]
              /\ ~Above(e, p) /\ ~Above(t, p) => Renamed(tree, e, t)[p] = tree[p]
    BY <1>2, RenamedIs, Zenon
  <2> QED BY <1>3, <2>1, Zenon
<1>5. ASSUME NEW p \in DOMAIN tree, Above(e, p)
      PROVE  /\ Onto(p, t) \in Paths /\ Len(Onto(p, t)) = Len(p)
             /\ Onto(p, t)[1] = t[1]
             /\ Len(p) = 2 => Onto(p, t)[2] = IF Len(t) = 2 THEN t[2] ELSE p[2]
  <2>1. Len(t) <= Len(p)
    BY <1>5 DEF Above
  <2>2. /\ Onto(p, t) \in Paths /\ Len(Onto(p, t)) = Len(p)
        /\ \A n \in 1..Len(p) : Onto(p, t)[n] = IF n <= Len(t) THEN t[n] ELSE p[n]
    BY <2>1, OntoIs
  <2>3. (Len(p) = 1 \/ Len(p) = 2) /\ (Len(t) = 1 \/ Len(t) = 2)
    BY TwoNames
  <2> QED BY <2>2, <2>3
<1> USE DEF m
<1>6. m \in [DOMAIN tree -> Paths]
  BY <1>5
<1>7. Brings(tree, m, e, t)
  BY <1>5 DEF Brings
<1>8. \A p \in DOMAIN tree : Len(m[p]) = Len(p) /\ m[p] \in DOMAIN after /\ after[m[p]] = tree[p]
  BY <1>1, <1>4, <1>5
<1>9. \A q \in DOMAIN after : \E p \in DOMAIN tree : q = m[p]
  BY <1>1, <1>4
<1> HIDE DEF m
<1>10. \A p \in DOMAIN tree : p \in Paths /\ m[p] \in Paths /\ (Len(p) = 1 \/ Len(p) = 2) /\ (Len(t) = 1 \/ Len(t) = 2)
  BY <1>6, TwoNames
<1>11. ASSUME NEW p \in DOMAIN tree, NEW q \in DOMAIN tree, m[p] = m[q] PROVE p = q
  <2>1. Len(p) = Len(q) /\ p \in Paths /\ q \in Paths
    BY <1>8, <1>11
  <2>2. Above(e, p) <=> Above(e, q)
    <3>1. ASSUME NEW a \in DOMAIN tree, NEW b \in DOMAIN tree, m[a] = m[b], Above(e, a), ~Above(e, b) PROVE FALSE
      <4>1. m[b] = b /\ m[a][1] = t[1] /\ (Len(a) = 2 => m[a][2] = IF Len(t) = 2 THEN t[2] ELSE a[2])
        BY <1>7, <3>1 DEF Brings
      <4>2. Len(a) = Len(b)
        BY <1>8, <3>1
      <4>3. Len(e) = 2 => Len(a) = 2
        BY <3>1, TwoNamesApiece
      <4>4. Above(t, b)
        <5>1. t[1] = b[1] /\ (Len(t) = 2 => Len(b) = 2 /\ t[2] = b[2])
          BY <3>1, <4>1, <4>2, <4>3
        <5>2. b \in Paths
          OBVIOUS
        <5> QED BY <5>1, <5>2, TwoNamesApiece
      <4> QED BY <1>1, <4>4
    <3> QED BY <1>11, <3>1
  <2>3. CASE ~Above(e, p)
    BY <1>7, <1>11, <2>2, <2>3 DEF Brings
  <2>4. CASE Above(e, p)
    <3>1. /\ Len(p) = 2 => m[p][2] = IF Len(t) = 2 THEN t[2] ELSE p[2]
          /\ Len(q) = 2 => m[q][2] = IF Len(t) = 2 THEN t[2] ELSE q[2]
      BY <1>7, <2>2, <2>4 DEF Brings
    <3>2. p[1] = q[1] /\ (Len(e) = 2 => Len(p) = 2 /\ p[2] = q[2])
      <4>1. e[1] = p[1] /\ (Len(e) = 2 => Len(p) = 2 /\ e[2] = p[2])
        BY <2>1, <2>4, TwoNamesApiece
      <4>2. e[1] = q[1] /\ (Len(e) = 2 => e[2] = q[2])
        BY <2>1, <2>2, <2>4, TwoNamesApiece
      <4> QED BY <4>1, <4>2
    <3>3. Len(p) = 2 => p[2] = q[2]
      BY <1>11, <2>1, <3>1, <3>2
    <3> QED BY <2>1, <3>2, <3>3, TwoNamesApiece
  <2> QED BY <2>3, <2>4
<1>12. Relocates(tree, m, after)
  BY <1>6, <1>8, <1>9, <1>11 DEF Relocates
<1>13. DOMAIN after \subseteq Paths
  BY <1>6, <1>9
<1>14. Apart(after)
  <2>1. ASSUME NEW p \in DOMAIN tree, NEW q \in DOMAIN tree, Fold[m[p][1]] = Fold[m[q][1]]
        PROVE  /\ m[p][1] = m[q][1]
               /\ Len(p) = 2 /\ Len(q) = 2 /\ Fold[m[p][2]] = Fold[m[q][2]] => m[p][2] = m[q][2]
    <3>1. CASE ~Above(e, p) /\ ~Above(e, q)
      BY <1>7, <2>1, <3>1 DEF Brings, Apart
    <3>2. CASE Above(e, p) /\ Above(e, q)
      <4>1. /\ m[p][1] = t[1] /\ (Len(p) = 2 => m[p][2] = IF Len(t) = 2 THEN t[2] ELSE p[2])
            /\ m[q][1] = t[1] /\ (Len(q) = 2 => m[q][2] = IF Len(t) = 2 THEN t[2] ELSE q[2])
        BY <1>7, <3>2 DEF Brings
      <4>2. p[1] = q[1]
        BY <3>2, TwoNamesApiece
      <4> QED BY <4>1, <4>2 DEF Apart
    <3>3. ASSUME NEW a \in DOMAIN tree, NEW b \in DOMAIN tree, Above(e, a), ~Above(e, b), Fold[m[a][1]] = Fold[m[b][1]]
          PROVE  /\ m[a][1] = m[b][1]
                 /\ ~(Len(a) = 2 /\ Len(b) = 2 /\ Fold[m[a][2]] = Fold[m[b][2]])
      <4>1. m[b] = b /\ m[a][1] = t[1] /\ (Len(a) = 2 => m[a][2] = IF Len(t) = 2 THEN t[2] ELSE a[2])
        BY <1>7, <3>3 DEF Brings
      <4>2. ~Covers(b, t) /\ b \in Paths /\ a \in Paths
        BY DEF Free
      <4>3. CASE Len(t) = 1
        <5>1. Covers(b, t)
          BY <3>3, <4>1, <4>2, <4>3, TwoNamesApiece
        <5> QED BY <4>2, <5>1
      <4>4. CASE Len(t) = 2
        <5>1. PICK q1 \in DOMAIN tree : q1[1] = t[1]
          BY <3>3, <4>1, <4>4 DEF SpelledIn
        <5>2. m[a][1] = m[b][1]
          BY <3>3, <4>1, <5>1 DEF Apart
        <5>3. Fold[m[a][1]] = Fold[t[1]] /\ Len(a) = 2 /\ m[a][2] = t[2]
          BY <3>3, <4>1, <4>2, <4>4, TwoNamesApiece
        <5>4. ~(Len(b) = 2 /\ Fold[m[a][2]] = Fold[m[b][2]])
          BY <3>3, <4>1, <4>2, <4>4, <5>3, TwoNamesApiece
        <5> QED BY <5>2, <5>4
      <4> QED BY <1>10, <4>3, <4>4
    <3> QED BY <2>1, <3>1, <3>2, <3>3
  <2>2. \A p \in DOMAIN tree : Len(m[p]) = Len(p)
    BY <1>8
  <2> QED BY <1>9, <2>1, <2>2 DEF Apart
<1> QED BY <1>3, <1>7, <1>12, <1>13, <1>14

\* The spelling the volume gives a path is one it takes for it.
LEMMA SpelledIs ==
    ASSUME DOMAIN named \subseteq Paths, Apart(named), NEW q \in Paths
    PROVE  /\ Spelled(q) \in Paths /\ Len(Spelled(q)) = Len(q)
           /\ Meets(Spelled(q), q)
           /\ Spelled(q)[Len(q)] = q[Len(q)]
           /\ SpelledIn(named, Spelled(q))
           /\ Len(q) = 2 => \A p \in DOMAIN named : Fold[p[1]] = Fold[q[1]] => Spelled(q)[1] = p[1]
           /\ (\A p \in DOMAIN named : Fold[p[1]] # Fold[q[1]]) => Spelled(q) = q
<1>1. Len(q) = 1 \/ Len(q) = 2
  BY TwoNames
<1>2. CASE Len(q) = 1
  <2>1. Spelled(q) = q
    BY <1>2 DEF Spelled
  <2> QED BY <1>2, <2>1, TwoNamesApiece DEF SpelledIn
<1>3. CASE Len(q) = 2
  <2>1. PICK f \in Paths : f = Front(q) /\ Len(f) = 1 /\ f[1] = q[1]
    BY <1>3, LastIs
  <2>2. Last(q) = q[2] /\ q[2] \in Names
    BY <1>3, LastIs, TwoNames
  <2>3. Spelled(q) = IF ~Exists(f) THEN q ELSE Append(CHOOSE x \in OnDisk(f) : TRUE, q[2])
    BY <1>3, <2>1, <2>2 DEF Spelled
  <2>4. \A p \in DOMAIN named : Covers(p, f) <=> Fold[p[1]] = Fold[q[1]]
    BY <2>1, TwoNamesApiece
  <2>5. Exists(f) <=> \E p \in DOMAIN named : Covers(p, f)
    BY AnswersAre
  <2>6. CASE ~Exists(f)
    <3>1. Spelled(q) = q
      BY <2>3, <2>6
    <3>2. \A p \in DOMAIN named : Fold[p[1]] # Fold[q[1]]
      BY <2>4, <2>5, <2>6
    <3> QED BY <1>3, <3>1, <3>2, TwoNamesApiece DEF SpelledIn
  <2>7. CASE Exists(f)
    <3>1. PICK d : d = CHOOSE x \in OnDisk(f) : TRUE
      OBVIOUS
    <3>2. d \in OnDisk(f)
      BY <2>7, <3>1 DEF Exists
    <3>3. OnDisk(f) = {e \in Entries : Meets(e, f)} /\ OnDisk(f) \subseteq Paths
      BY AnswersAre
    <3>4. d \in Entries /\ d \in Paths /\ Meets(d, f)
      BY <3>2, <3>3
    <3>5. PICK p \in DOMAIN named : Above(d, p)
      BY <3>4, EntriesAre
    <3>6. Len(d) = 1 /\ Fold[d[1]] = Fold[q[1]] /\ d[1] = p[1]
      BY <2>1, <3>4, <3>5, TwoNamesApiece
    <3>7. Spelled(q) = Append(d, q[2])
      BY <2>3, <2>7, <3>1
    <3>8. /\ Spelled(q) \in Paths /\ Len(Spelled(q)) = 2
          /\ Spelled(q)[1] = d[1] /\ Spelled(q)[2] = q[2]
      BY <2>2, <3>4, <3>6, <3>7, ExtendIs
    <3>9. \A r \in DOMAIN named : Fold[r[1]] = Fold[q[1]] => r[1] = p[1]
      BY <3>6 DEF Apart
    <3>10. Meets(Spelled(q), q)
      BY <1>3, <3>6, <3>8, TwoNamesApiece
    <3>11. SpelledIn(named, Spelled(q))
      BY <3>6, <3>8 DEF SpelledIn
    <3>12. Fold[p[1]] = Fold[q[1]]
      BY <3>6
    <3> QED BY <1>3, <3>6, <3>8, <3>9, <3>10, <3>11, <3>12
  <2> QED BY <2>6, <2>7
<1> QED BY <1>1, <1>2, <1>3

\* A rename of the program's, to a name that is free.
LEMMA RenameStep ==
    ASSUME DOMAIN named \subseteq Paths, Apart(named),
           NEW from \in Paths, NEW to \in Paths, Len(from) = Len(to), ~Exists(to), Rename(from, to)
    PROVE  /\ \E e \in Paths, t \in Paths :
                 /\ Meets(e, from) /\ \E p \in DOMAIN named : Above(e, p)
                 /\ t = Spelled(to)
                 /\ \E m : Relocates(named, m, named') /\ Brings(named, m, e, t)
           /\ DOMAIN named' \subseteq Paths
           /\ Apart(named')
<1>1. PICK e \in OnDisk(from) : named' = Renamed(named, e, Spelled(to))
  BY DEF Rename
<1>2. e \in Paths /\ Meets(e, from) /\ e \in Entries
  BY AnswersAre
<1>3. \E p \in DOMAIN named : Above(e, p)
  BY <1>2, EntriesAre
<1>4. PICK t \in Paths : t = Spelled(to) /\ Len(t) = Len(to) /\ Meets(t, to) /\ SpelledIn(named, t)
  BY SpelledIs
<1>5. Free(named, t)
  <2>1. ASSUME NEW p \in DOMAIN named, Covers(p, t) PROVE FALSE
    <3>1. p \in Paths
      OBVIOUS
    <3>2. Covers(p, to)
      BY <1>4, <2>1, <3>1, TwoNamesApiece
    <3> QED BY <3>2, AnswersAre
  <2> QED BY <2>1 DEF Free
<1>6. Len(e) = Len(t)
  BY <1>2, <1>4 DEF Meets
<1>7. /\ \E m : Relocates(named, m, Renamed(named, e, t)) /\ Brings(named, m, e, t)
      /\ DOMAIN Renamed(named, e, t) \subseteq Paths
      /\ Apart(Renamed(named, e, t))
  BY <1>2, <1>4, <1>5, <1>6, FreeRename
<1>8. named' = Renamed(named, e, t)
  BY <1>1, <1>4
<1> QED BY <1>2, <1>3, <1>4, <1>7, <1>8

\* One that only changes the last name.
Takes(tree, m, e, x) ==
    \A p \in DOMAIN tree :
        /\ ~Above(e, p) => m[p] = p
        /\ Above(e, p) /\ Len(e) = 1 => m[p][1] = x /\ (Len(p) = 2 => m[p][2] = p[2])
        /\ Above(e, p) /\ Len(e) = 2 => m[p][1] = p[1] /\ m[p][2] = x

\* A rename within a directory, to a name that is free.
LEMMA RenameLast ==
    ASSUME DOMAIN named \subseteq Paths, Apart(named),
           NEW from \in Paths, NEW to \in Paths, Len(from) = Len(to), Len(to) = 2 => from[1] = to[1],
           ~Exists(to), Rename(from, to)
    PROVE  /\ \E e \in Paths :
                 /\ Meets(e, from) /\ \E p \in DOMAIN named : Above(e, p)
                 /\ \E m : Relocates(named, m, named') /\ Takes(named, m, e, to[Len(to)])
           /\ DOMAIN named' \subseteq Paths
           /\ Apart(named')
<1>1. PICK e \in Paths, t \in Paths :
         /\ Meets(e, from) /\ \E p \in DOMAIN named : Above(e, p)
         /\ t = Spelled(to)
         /\ \E m : Relocates(named, m, named') /\ Brings(named, m, e, t)
  BY RenameStep
<1>2. PICK m : Relocates(named, m, named') /\ Brings(named, m, e, t)
  BY <1>1
<1>3. /\ Len(t) = Len(to) /\ t[Len(to)] = to[Len(to)]
      /\ Len(to) = 2 => \A p \in DOMAIN named : Fold[p[1]] = Fold[to[1]] => t[1] = p[1]
  BY <1>1, SpelledIs
<1>4. Len(e) = Len(to) /\ Fold[e[1]] = Fold[from[1]] /\ (Len(to) = 1 \/ Len(to) = 2)
  BY <1>1, TwoNames, TwoNamesApiece
<1>5. Takes(named, m, e, to[Len(to)])
  <2>1. ASSUME NEW p \in DOMAIN named, Above(e, p)
        PROVE  /\ Len(e) = 1 => m[p][1] = to[Len(to)] /\ (Len(p) = 2 => m[p][2] = p[2])
               /\ Len(e) = 2 => m[p][1] = p[1] /\ m[p][2] = to[Len(to)]
    <3>1. m[p][1] = t[1] /\ (Len(p) = 2 => m[p][2] = IF Len(t) = 2 THEN t[2] ELSE p[2])
      BY <1>2, <2>1 DEF Brings
    <3>2. e[1] = p[1] /\ (Len(e) = 2 => Len(p) = 2)
      BY <2>1, TwoNamesApiece
    <3>3. CASE Len(to) = 1
      BY <1>3, <1>4, <3>1, <3>3
    <3>4. CASE Len(to) = 2
      <4>1. t[1] = p[1]
        BY <1>3, <1>4, <3>2, <3>4
      <4> QED BY <1>3, <1>4, <3>1, <3>2, <3>4, <4>1
    <3> QED BY <1>4, <3>3, <3>4
  <2>2. \A p \in DOMAIN named : ~Above(e, p) => m[p] = p
    BY <1>2 DEF Brings
  <2> QED BY <2>1, <2>2 DEF Takes
<1>6. DOMAIN named' \subseteq Paths /\ Apart(named')
  BY RenameStep
<1> QED BY <1>1, <1>2, <1>5, <1>6

-----------------------------------------------------------------------------
(***************************************************************************)
(* The inductive invariant.                                                *)
(***************************************************************************)

Plan == record.plan
Key(p) == named[p].key

\* The plan's entry i is the first n segments of the key, one of them is.
Lists(i, k, n) == Len(Plan[i]) = n /\ Above(Plan[i], k)
Listed(k, n) == \E i \in DOMAIN Plan : Lists(i, k, n)

\* The four ways a file's n-th name may be spelled.
Own(p, n)     == p[n] = Key(p)[n]
Aside(p, n)   == \E i \in DOMAIN Plan : Lists(i, Key(p), n) /\ p[n] = Temporary[i]
Placed(p, n)  == Listed(Key(p), n) /\ p[n] = Encode[Key(p)[n]]
Encoded(p, n) == Key(p)[n] \notin Long /\ p[n] = Encode[Key(p)[n]]

NamesApart ==
    \A x, y \in SegmentsOf(title) \cup {Encode[s] : s \in SegmentsOf(title)} : Fold[x] = Fold[y] => x = y

\* An own name an encoded directory may keep.
Stays(s) == Unambiguous(s) /\ (s \in Long \/ Encode[s] = s \/ NamesApart)

\* An earlier build may put back what the first pass moved.
Remakes == "moving" \in EarlierWrites[title]

Used(i) == \E p \in DOMAIN named : \E n \in 1..Len(p) : p[n] = Temporary[i]

PlanOK ==
    /\ \A i, j \in DOMAIN Plan : Plan[i] = Plan[j] => i = j
    /\ \A i, j \in DOMAIN Plan : i < j => ~(Above(Plan[i], Plan[j]) /\ Len(Plan[i]) < Len(Plan[j]))
    /\ \A i \in DOMAIN Plan :
         /\ Plan[i] \in Paths
         /\ \E k \in title : Above(Plan[i], k)
         /\ Converts(Plan[i][Len(Plan[i])])
    /\ DOMAIN Plan \subseteq DOMAIN Temporary
    /\ record.state \in {"absent", "encoded"} => Plan = <<>>

ControlOK ==
    /\ stage = "moving" => record.state = "moving" /\ up /\ step > 0
    /\ stage = "undoing" => record.state = "moving" /\ up /\ step <= Len(Plan)
    /\ stage = "placing" => record.state = "placing" /\ up /\ step > 0
    /\ stage = "settled" =>
         /\ up
         /\ naming \in {"plain", "encoded", "earlier", "converting"}
         /\ naming \in {"plain", "earlier"} => record.state = "absent"
         /\ naming = "encoded" => record.state = "encoded"
         /\ naming = "converting" => record.state \in {"moving", "placing"}
    /\ stage # "settled" => naming = Nothing

Reads(p, n) ==
    \/ Own(p, n)
    \/ record.state \in {"moving", "placing"} /\ Aside(p, n)
    \/ record.state = "placing" /\ Placed(p, n)
    \/ record.state = "encoded" /\ Encoded(p, n)

Spelt ==
    \A p \in DOMAIN named :
        Key(p) \in title /\ Len(p) = Len(Key(p)) /\ \A n \in 1..Len(p) : Reads(p, n)

FoldApart == Apart(named)

KeysApart ==
    record.state = "moving" =>
        \A p \in DOMAIN named, i \in DOMAIN Plan : Covers(Key(p), Plan[i]) => Above(Plan[i], Key(p))

Times ==
    /\ \A k \in title : saved[k] <= clock
    /\ \A p \in DOMAIN named : named[p].at <= saved[Key(p)]
    /\ \A p, q \in DOMAIN named : Key(p) = Key(q) /\ named[p].at = named[q].at => p = q

Kept == \A k \in title : saved[k] # 0 => \E p \in DOMAIN named : Key(p) = k /\ named[p].at = saved[k]

OwnNewest ==
    record.state \in {"moving", "placing"} =>
        \A p \in DOMAIN named : p = Key(p) => named[p].at = saved[p]

Sole ==
    record.state \in {"moving", "placing"} =>
        \A p, q \in DOMAIN named : Key(p) = Key(q) /\ p # Key(p) /\ q # Key(q) => p = q

Single ==
    record.state = "moving" => \A p, q \in DOMAIN named : Key(p) = Key(q) => p = q \/ Remakes

StayOwn ==
    \A p \in DOMAIN named : \A n \in 1..Len(p) : Own(p, n) =>
        /\ record.state \in {"placing", "encoded"} => Stays(p[n])
        /\ record.state = "moving" =>
              /\ ~Listed(Key(p), n) => Stays(p[n])
              /\ \A i \in DOMAIN Plan : Lists(i, Key(p), n) /\ Used(i) => Stays(p[n]) /\ Remakes

Inner ==
    record.state = "placing" =>
        \A p \in DOMAIN named : Len(p) = 2 /\ Aside(p, 2) =>
            Aside(p, 1) \/ (Own(p, 1) /\ ~Listed(Key(p), 1))

Proper ==
    record.state = "placing" =>
        \A p \in DOMAIN named : \A n \in 1..Len(p) : Own(p, n) /\ Listed(Key(p), n) => p = Key(p)

Nested ==
    record.state = "moving" =>
        \A p \in DOMAIN named : Len(p) = 2 /\ Own(p, 2) /\ Listed(Key(p), 2) => Own(p, 1)

Progress ==
    /\ stage = "moving" =>
         \A j \in DOMAIN Plan : j < step =>
            \A p \in DOMAIN named : Above(Plan[j], p) => Stays(Plan[j][Len(Plan[j])]) /\ Remakes
    /\ stage = "placing" => \A j \in DOMAIN Plan : j < step => ~Used(j)
    /\ stage = "undoing" => \A j \in DOMAIN Plan : j > step => ~Used(j)

PlainOK ==
    naming = "plain" => \A p \in DOMAIN named : \A n \in 1..Len(p) :
        Unambiguous(p[n]) /\ (p[n] \in Long \/ Encode[p[n]] = p[n])

\* What a step of the conversion may disturb, and what any may.
TreeOK == Spelt /\ FoldApart /\ KeysApart /\ Times /\ Kept
ConvertingOK == OwnNewest /\ Sole /\ Single /\ StayOwn /\ Inner /\ Proper /\ Nested

NamesInv == NamesTypeOK /\ PlanOK /\ ControlOK /\ TreeOK /\ ConvertingOK /\ Progress /\ PlainOK

-----------------------------------------------------------------------------
(***************************************************************************)
(* Names.                                                                  *)
(***************************************************************************)

\* What the assumption says of the names.
LEMMA NamesAre ==
    ASSUME NamesAssumption
    PROVE  /\ \A s \in Segments : s \in SegmentNames /\ Encode[s] \in SegmentNames
           /\ \A s, r \in Segments : Encode[s] = Encode[r] => s = r
           /\ \A i \in DOMAIN Temporary : Temporary[i] \in TemporaryNames /\ Temporary[i] \notin SegmentNames
           /\ \A i \in DOMAIN Temporary, n \in Names : Fold[n] = Fold[Temporary[i]] => n = Temporary[i]
           /\ \A s \in Long : s \in Segments /\ Encode[s] # s
           /\ \A s, r \in Segments \ Long : Fold[Encode[s]] = Fold[Encode[r]] => s = r
<1>1. \A s \in Segments : s \in SegmentNames /\ Encode[s] \in SegmentNames
  BY DEF NamesAssumption, SegmentNames
<1>2. \A i \in DOMAIN Temporary : Temporary[i] \in TemporaryNames
  BY DEF TemporaryNames
<1>3. \A t \in TemporaryNames : t \notin SegmentNames
  BY DEF NamesAssumption
<1>4. \A t \in TemporaryNames, n \in Names : Fold[n] = Fold[t] => n = t
  BY DEF NamesAssumption, Names
<1> QED BY <1>1, <1>2, <1>3, <1>4 DEF NamesAssumption

\* An encoded name reads as the segment it encodes, and as no other.
LEMMA ReadsAs ==
    ASSUME NamesAssumption
    PROVE  /\ \A s \in Segments : ReadName(Encode[s]) = s
           /\ \A s \in Segments : Encode[s] = s => Unambiguous(s)
           /\ \A s, r \in Segments : Unambiguous(s) /\ Encode[r] = s => r = s
<1>1. ASSUME NEW s \in Segments PROVE ReadName(Encode[s]) = s
  <2>1. \E r \in Segments : Encode[r] = Encode[s]
    OBVIOUS
  <2>2. PICK c : c = CHOOSE r \in Segments : Encode[r] = Encode[s]
    OBVIOUS
  <2>3. c \in Segments /\ Encode[c] = Encode[s]
    BY <2>1, <2>2
  <2>4. c = s
    BY <2>3 DEF NamesAssumption
  <2> QED BY <2>1, <2>2, <2>4 DEF ReadName
<1> QED BY <1>1 DEF Unambiguous

\* The keys of a title are paths of its segments, none above another.
LEMMA KeysAre ==
    ASSUME NamesAssumption, title \in Titles
    PROVE  /\ title \subseteq SaveKeys
           /\ \A k \in title : k \in Paths /\ \A n \in 1..Len(k) : k[n] \in Segments /\ k[n] \in SegmentsOf(title)
           /\ \A k, l \in title : Above(k, l) => k = l
<1>1. title \subseteq SaveKeys
  BY DEF NamesAssumption
<1>2. ASSUME NEW k \in title
      PROVE  k \in Paths /\ \A n \in 1..Len(k) : k[n] \in Segments /\ k[n] \in SegmentsOf(title)
  <2>1. k \in Seq(Segments) /\ Len(k) \in 1..2
    BY <1>1 DEF NamesAssumption
  <2>2. \A n \in 1..Len(k) : k[n] \in Segments
    BY <2>1, ElementOfSeq
  <2>3. k \in Seq(Names)
    <3>1. \A n \in 1..Len(k) : k[n] \in Names
      BY <2>2, NamesAre DEF Names
    <3>2. k = [n \in 1..Len(k) |-> k[n]] /\ Len(k) \in Nat
      BY <2>1, LenProperties
    <3>3. k \in [1..Len(k) -> Names]
      BY <3>1, <3>2
    <3> QED BY <3>2, <3>3, SeqDef
  <2>4. k \in Paths
    BY <2>1, <2>3, PathIs
  <2>5. ASSUME NEW n \in 1..Len(k) PROVE k[n] \in SegmentsOf(title)
    <3>1. PICK p \in Paths : p = SubSeq(k, 1, n) /\ Len(p) = n /\ p[n] = k[n]
      <4>1. n \in 1..n
        BY <2>1
      <4> QED BY <2>4, <4>1, FirstNames
    <3>2. Last(p) = k[n]
      BY <3>1, LastIs
    <3>3. p \in {SubSeq(k, 1, i) : i \in 1..Len(k)}
      BY <3>1
    <3>4. p \in PathsOf(title)
      BY <3>3 DEF PathsOf
    <3> QED BY <3>2, <3>4 DEF SegmentsOf
  <2> QED BY <2>2, <2>4, <2>5
<1>3. ASSUME NEW k \in title, NEW l \in title, Above(k, l) PROVE k = l
  <2>1. IsPrefix(k, l)
    BY <1>2, <1>3, PrefixIsAbove
  <2> QED BY <1>1, <2>1 DEF NamesAssumption
<1> QED BY <1>1, <1>2, <1>3

\* A step that touches neither the files nor the record.
LEMMA Quiet ==
    ASSUME PlanOK, TreeOK, ConvertingOK, UNCHANGED <<title, named, record, clock, saved>>
    PROVE  PlanOK' /\ TreeOK' /\ ConvertingOK' /\ \A i : Used(i)' <=> Used(i)
<1>1. title' = title /\ named' = named /\ record' = record /\ clock' = clock /\ saved' = saved
  OBVIOUS
<1>2. NamesApart' <=> NamesApart
  BY <1>1 DEF NamesApart
<1>3. \A s : Stays(s)' <=> Stays(s)
  BY <1>2 DEF Stays
<1>4. Remakes' <=> Remakes
  BY <1>1 DEF Remakes
<1>5. \A p, n : (Own(p, n)' <=> Own(p, n)) /\ (Aside(p, n)' <=> Aside(p, n)) /\ (Reads(p, n)' <=> Reads(p, n))
  BY <1>1 DEF Own, Aside, Reads, Placed, Encoded, Lists, Listed, Key, Plan
<1>6. \A k, n : Listed(k, n)' <=> Listed(k, n)
  BY <1>1 DEF Lists, Listed, Key, Plan
<1>7. \A i : Used(i)' <=> Used(i)
  BY <1>1 DEF Used
<1>8. \A i, k, n : Lists(i, k, n)' <=> Lists(i, k, n)
  BY <1>1 DEF Lists, Plan
<1>9. PlanOK'
  BY <1>1 DEF PlanOK, Plan
<1>10. TreeOK'
  BY <1>1, <1>5 DEF TreeOK, Spelt, FoldApart, KeysApart, Times, Kept, Key, Plan, Apart
<1>11. ConvertingOK'
  BY <1>1, <1>3, <1>4, <1>5, <1>6, <1>7, <1>8
     DEF ConvertingOK, OwnNewest, Sole, Single, StayOwn, Inner, Proper, Nested, Key, Plan
<1> QED BY <1>7, <1>9, <1>10, <1>11

Assumed == NamesAssumption /\ DirectoriesAssumption

\* The files are those of the title's keys, a name for each segment.
LEMMA FilesAre ==
    ASSUME Assumed, NamesTypeOK, Spelt
    PROVE  /\ DOMAIN named \subseteq Paths
           /\ \A p \in DOMAIN named :
                /\ p \in Paths /\ Key(p) \in title /\ Key(p) \in Paths /\ Len(p) = Len(Key(p))
                /\ Len(p) = 1 \/ Len(p) = 2
                /\ \A n \in 1..Len(p) : Key(p)[n] \in Segments /\ Reads(p, n) /\ p[n] \in Names
<1>1. DOMAIN named \subseteq Paths /\ title \in Titles
  BY DEF NamesTypeOK
<1>2. \A k \in title : k \in Paths /\ \A n \in 1..Len(k) : k[n] \in Segments
  BY <1>1, KeysAre DEF Assumed
<1>3. ASSUME NEW p \in DOMAIN named
      PROVE  /\ p \in Paths /\ Key(p) \in title /\ Key(p) \in Paths /\ Len(p) = Len(Key(p))
             /\ Len(p) = 1 \/ Len(p) = 2
             /\ \A n \in 1..Len(p) : Key(p)[n] \in Segments /\ Reads(p, n) /\ p[n] \in Names
  <2>1. p \in Paths
    BY <1>1
  <2>2. Key(p) \in title /\ Len(p) = Len(Key(p)) /\ \A n \in 1..Len(p) : Reads(p, n)
    BY DEF Spelt
  <2>3. Key(p) \in Paths /\ \A n \in 1..Len(p) : Key(p)[n] \in Segments
    BY <1>2, <2>2
  <2>4. (Len(p) = 1 \/ Len(p) = 2) /\ \A n \in 1..Len(p) : p[n] \in Names
    BY <2>1, TwoNames, PathShape
  <2> QED BY <2>1, <2>2, <2>3, <2>4
<1> QED BY <1>1, <1>3

\* A file that has all its own names is where an earlier build looks for it.
LEMMA AllOwn ==
    ASSUME Assumed, NamesTypeOK, Spelt, NEW p \in DOMAIN named
    PROVE  p = Key(p) <=> \A n \in 1..Len(p) : Own(p, n)
<1>1. p \in Paths /\ Key(p) \in Paths /\ Len(p) = Len(Key(p))
  BY FilesAre
<1>2. p = Key(p) <=> \A n \in 1..Len(p) : p[n] = Key(p)[n]
  BY <1>1, SamePath
<1> QED BY <1>2 DEF Own

\* The entries of the plan are paths, each with a temporary name of its own.
LEMMA PlanIs ==
    ASSUME Assumed, NamesTypeOK, PlanOK
    PROVE  /\ Plan \in Seq(Paths) /\ Len(Plan) \in Nat /\ DOMAIN Plan = 1..Len(Plan)
           /\ \A i \in DOMAIN Plan :
                /\ Plan[i] \in Paths /\ (Len(Plan[i]) = 1 \/ Len(Plan[i]) = 2)
                /\ \A n \in 1..Len(Plan[i]) :
                     Plan[i][n] \in Segments /\ Plan[i][n] \in SegmentNames /\ Plan[i][n] \in SegmentsOf(title)
                /\ i \in DOMAIN Temporary /\ Temporary[i] \in Names /\ Temporary[i] \notin SegmentNames
           /\ \A i, j \in DOMAIN Plan : Temporary[i] = Temporary[j] => i = j
<1>1. Plan \in Seq(Paths) /\ title \in Titles
  BY DEF NamesTypeOK, Plan
<1>2. Len(Plan) \in Nat /\ DOMAIN Plan = 1..Len(Plan)
  BY <1>1, LenProperties
<1>3. ASSUME NEW i \in DOMAIN Plan
      PROVE  /\ Plan[i] \in Paths /\ (Len(Plan[i]) = 1 \/ Len(Plan[i]) = 2)
             /\ \A n \in 1..Len(Plan[i]) :
                  Plan[i][n] \in Segments /\ Plan[i][n] \in SegmentNames /\ Plan[i][n] \in SegmentsOf(title)
  <2>1. PICK k \in title : Above(Plan[i], k)
    BY DEF PlanOK
  <2>2. Plan[i] \in Paths
    BY DEF PlanOK
  <2>3. k \in Paths /\ \A n \in 1..Len(k) : k[n] \in Segments /\ k[n] \in SegmentsOf(title)
    BY <1>1, KeysAre DEF Assumed
  <2>4. (Len(Plan[i]) = 1 \/ Len(Plan[i]) = 2) /\ (Len(k) = 1 \/ Len(k) = 2)
    BY <2>2, <2>3, TwoNames
  <2>5. \A n \in 1..Len(Plan[i]) : n \in 1..Len(k) /\ Plan[i][n] = k[n]
    BY <2>1, <2>4 DEF Above
  <2>6. \A s \in Segments : s \in SegmentNames
    BY NamesAre DEF Assumed
  <2> QED BY <2>2, <2>3, <2>4, <2>5, <2>6
<1>4. \A i \in DOMAIN Plan : i \in DOMAIN Temporary
  BY DEF PlanOK
<1>5. \A i \in DOMAIN Temporary : Temporary[i] \in Names /\ Temporary[i] \notin SegmentNames
  BY NamesAre DEF Assumed, Names
<1>6. \A i, j \in DOMAIN Temporary : Temporary[i] = Temporary[j] => i = j
  BY DEF Assumed, DirectoriesAssumption
<1> QED BY <1>1, <1>2, <1>3, <1>4, <1>5, <1>6

\* A file under a temporary name is the one the plan has it for.
LEMMA TemporaryIs ==
    ASSUME Assumed, NamesTypeOK, PlanOK, Spelt,
           NEW p \in DOMAIN named, NEW n \in 1..Len(p), NEW i \in DOMAIN Plan, p[n] = Temporary[i]
    PROVE  Lists(i, Key(p), n) /\ Aside(p, n) /\ ~Own(p, n)
<1>1. Key(p)[n] \in Segments /\ Reads(p, n)
  BY FilesAre
<1>2. Key(p)[n] \in SegmentNames /\ Encode[Key(p)[n]] \in SegmentNames
  BY <1>1, NamesAre DEF Assumed
<1>3. Temporary[i] \notin SegmentNames
  BY PlanIs
<1>4. Aside(p, n)
  BY <1>1, <1>2, <1>3 DEF Reads, Own, Placed, Encoded
<1>5. PICK j \in DOMAIN Plan : Lists(j, Key(p), n) /\ p[n] = Temporary[j]
  BY <1>4 DEF Aside
<1>6. j = i
  BY <1>5, PlanIs
<1> QED BY <1>2, <1>3, <1>4, <1>5, <1>6 DEF Own

\* In the first pass a name that is no temporary one is its own.
LEMMA OwnIs ==
    ASSUME Assumed, NamesTypeOK, PlanOK, Spelt, record.state \in {"absent", "moving"},
           NEW p \in DOMAIN named, NEW n \in 1..Len(p), p[n] \in SegmentNames
    PROVE  Own(p, n)
<1>1. Reads(p, n)
  BY FilesAre
<1>2. CASE Aside(p, n)
  <2>1. PICK i \in DOMAIN Plan : p[n] = Temporary[i]
    BY <1>2 DEF Aside
  <2> QED BY <2>1, PlanIs
<1> QED BY <1>1, <1>2 DEF Reads

\* Below a path of the volume's that holds a temporary name.
LEMMA Holds ==
    ASSUME Assumed, NamesTypeOK, PlanOK, Spelt,
           NEW p \in DOMAIN named, NEW q \in Paths, Covers(p, q),
           NEW n \in 1..Len(q), NEW i \in DOMAIN Plan, q[n] = Temporary[i]
    PROVE  n \in 1..Len(p) /\ p[n] = Temporary[i] /\ Used(i)
<1>1. p \in Paths /\ (Len(p) = 1 \/ Len(p) = 2) /\ (Len(q) = 1 \/ Len(q) = 2)
  BY FilesAre, TwoNames
<1>2. n \in 1..Len(p) /\ Fold[p[n]] = Fold[q[n]] /\ p[n] \in Names
  <2>1. Len(q) <= Len(p) /\ Fold[p[n]] = Fold[q[n]]
    BY DEF Covers
  <2>2. n \in 1..Len(p)
    BY <1>1, <2>1
  <2> QED BY <1>1, <2>1, <2>2, FilesAre
<1>3. i \in DOMAIN Temporary
  BY PlanIs
<1>4. p[n] = Temporary[i]
  BY <1>2, <1>3, NamesAre DEF Assumed
<1> QED BY <1>2, <1>4 DEF Used

\* The temporary path of an entry differs from it in the last name.
LEMMA TemporaryPathIs ==
    ASSUME Assumed, NamesTypeOK, PlanOK, NEW i \in DOMAIN Plan
    PROVE  /\ TemporaryPath(i) \in Paths /\ Len(TemporaryPath(i)) = Len(Plan[i])
           /\ TemporaryPath(i)[Len(Plan[i])] = Temporary[i]
           /\ Len(Plan[i]) = 2 => TemporaryPath(i)[1] = Plan[i][1]
<1>1. Plan[i] \in Paths /\ (Len(Plan[i]) = 1 \/ Len(Plan[i]) = 2) /\ Temporary[i] \in Names
  BY PlanIs
<1>2. Len(Plan[i]) \in 1..Len(Plan[i])
  BY <1>1
<1>3. TemporaryPath(i) = [Plan[i] EXCEPT ![Len(Plan[i])] = Temporary[i]]
  BY DEF TemporaryPath, Plan
<1>4. PICK o \in Paths : o = Plan[i]
  BY <1>1
<1>5. /\ [o EXCEPT ![Len(o)] = Temporary[i]] \in Paths /\ Len([o EXCEPT ![Len(o)] = Temporary[i]]) = Len(o)
      /\ \A j \in 1..Len(o) : [o EXCEPT ![Len(o)] = Temporary[i]][j] = IF j = Len(o) THEN Temporary[i] ELSE o[j]
  BY <1>1, <1>2, <1>4, Renames
<1> QED BY <1>1, <1>3, <1>4, <1>5

\* Where the second pass looks for an entry: its directory has a temporary
\* name when it is listed too.
LEMMA PlacingPathIs ==
    ASSUME Assumed, NamesTypeOK, PlanOK, NEW i \in DOMAIN Plan
    PROVE  /\ PlacingPath(i) \in Paths /\ Len(PlacingPath(i)) = Len(Plan[i])
           /\ PlacingPath(i)[Len(Plan[i])] = Temporary[i]
           /\ \A j \in DOMAIN Plan : Len(Plan[j]) = 1 /\ Plan[j][1] = Plan[i][1] => PlacingPath(i)[1] = Temporary[j]
           /\ (\A j \in DOMAIN Plan : ~(Len(Plan[j]) = 1 /\ Plan[j][1] = Plan[i][1])) /\ Len(Plan[i]) = 2
                 => PlacingPath(i)[1] = Plan[i][1]
<1>1. PICK o \in Paths : o = Plan[i] /\ (Len(o) = 1 \/ Len(o) = 2)
  BY PlanIs
<1> DEFINE At(n) == \E j \in DOMAIN Plan : Plan[j] = SubSeq(o, 1, n)
           It(n) == CHOOSE j \in DOMAIN Plan : Plan[j] = SubSeq(o, 1, n)
<1>2. PlacingPath(i) = [n \in DOMAIN o |-> IF At(n) THEN Temporary[It(n)] ELSE o[n]]
  BY <1>1, Zenon DEF PlacingPath, Plan
<1>3. \A n \in 1..Len(o) : At(n) => It(n) \in DOMAIN Plan /\ Plan[It(n)] = SubSeq(o, 1, n)
  OBVIOUS
<1>4. \A n \in 1..Len(o) : \A j \in DOMAIN Plan : Plan[j] = SubSeq(o, 1, n) => At(n) /\ It(n) = j
  <2>1. \A a, b \in DOMAIN Plan : Plan[a] = Plan[b] => a = b
    BY DEF PlanOK
  <2> QED BY <1>3, <2>1
<1> HIDE DEF At, It
<1>5. DOMAIN o = 1..Len(o) /\ \A n \in 1..Len(o) : o[n] \in Names
  BY PathShape
<1>6. \A n \in 1..Len(o) : At(n) => It(n) \in DOMAIN Plan /\ Temporary[It(n)] \in Names
  BY <1>3, PlanIs
<1>7. PICK q : q = PlacingPath(i)
  OBVIOUS
<1>8. q \in [1..Len(o) -> Names] /\ \A n \in 1..Len(o) : q[n] = IF At(n) THEN Temporary[It(n)] ELSE o[n]
  BY <1>2, <1>5, <1>6, <1>7
<1>9. q \in Paths /\ Len(q) = Len(o)
  <2>1. q \in Seq(Names)
    BY <1>1, <1>8, SeqDef
  <2>2. Len(q) = Len(o)
    <3>1. DOMAIN q = 1..Len(q) /\ DOMAIN q = 1..Len(o) /\ Len(q) \in Nat /\ Len(o) \in Nat
      BY <1>1, <1>8, <2>1, LenProperties
    <3>2. 1..Len(q) = 1..Len(o)
      BY <3>1, Zenon
    <3> QED BY <3>1, <3>2, SameInterval
  <2> QED BY <1>1, <2>1, <2>2, PathIs
<1>10. SubSeq(o, 1, Len(o)) = o
  <2>1. o \in Seq(Names)
    BY PathShape
  <2> QED BY <2>1, SubSeqFull
<1>11. q[Len(o)] = Temporary[i]
  BY <1>1, <1>4, <1>8, <1>10
<1>12. SubSeq(o, 1, 1) \in Paths /\ Len(SubSeq(o, 1, 1)) = 1 /\ SubSeq(o, 1, 1)[1] = o[1]
  <2>1. 1 \in 1..Len(o) /\ 1 \in 1..1
    BY <1>1
  <2> QED BY <2>1, FirstNames
<1>13. \A j \in DOMAIN Plan : Plan[j] = SubSeq(o, 1, 1) <=> Len(Plan[j]) = 1 /\ Plan[j][1] = o[1]
  <2>1. PICK f \in Paths : f = SubSeq(o, 1, 1) /\ Len(f) = 1 /\ f[1] = o[1]
    BY <1>12
  <2>2. \A j \in DOMAIN Plan : Plan[j] \in Paths
    BY PlanIs
  <2>3. \A j \in DOMAIN Plan : Plan[j] = f <=> Len(Plan[j]) = 1 /\ Plan[j][1] = f[1]
    <3>1. ASSUME NEW e \in Paths PROVE e = f <=> Len(e) = 1 /\ e[1] = f[1]
      BY <2>1, OneName
    <3> QED BY <2>2, <3>1
  <2> QED BY <2>1, <2>3, Zenon
<1>14. \A j \in DOMAIN Plan : Len(Plan[j]) = 1 /\ Plan[j][1] = o[1] => q[1] = Temporary[j]
  <2>1. 1 \in 1..Len(o)
    BY <1>1
  <2>2. \A j \in DOMAIN Plan : Plan[j] = SubSeq(o, 1, 1) => q[1] = Temporary[j]
    BY <1>4, <1>8, <2>1
  <2> QED BY <1>13, <2>2
<1>15. (\A j \in DOMAIN Plan : ~(Len(Plan[j]) = 1 /\ Plan[j][1] = o[1])) => q[1] = o[1]
  <2>1. 1 \in 1..Len(o)
    BY <1>1
  <2>2. (\A j \in DOMAIN Plan : Plan[j] # SubSeq(o, 1, 1)) => q[1] = o[1]
    BY <1>3, <1>8, <2>1
  <2> QED BY <1>13, <2>2
<1> QED BY <1>1, <1>7, <1>9, <1>11, <1>14, <1>15

\* What is inside a listed directory is listed before it.
LEMMA PlanOrder ==
    ASSUME Assumed, NamesTypeOK, PlanOK, NEW i \in DOMAIN Plan, NEW j \in DOMAIN Plan,
           Above(Plan[i], Plan[j]), Len(Plan[i]) = 1, Len(Plan[j]) = 2
    PROVE  j < i
<1>1. i < j => ~(Above(Plan[i], Plan[j]) /\ Len(Plan[i]) < Len(Plan[j]))
  BY DEF PlanOK
<1>2. Len(Plan[i]) < Len(Plan[j])
  OBVIOUS
<1>3. ~(i < j)
  BY <1>1, <1>2
<1>4. i # j
  OBVIOUS
<1>5. i \in Nat /\ j \in Nat
  BY PlanIs
<1> QED BY <1>3, <1>4, <1>5

\* Each name of a file is that of an entry.
LEMMA EntryOf ==
    ASSUME DOMAIN named \subseteq Paths, NEW p \in DOMAIN named, NEW n \in 1..Len(p)
    PROVE  \E e \in Entries : e \in Paths /\ Len(e) = n /\ Last(e) = p[n] /\ Above(e, p)
<1>1. p \in Paths /\ (Len(p) = 1 \/ Len(p) = 2)
  BY TwoNames
<1>2. PICK e : e = SubSeq(p, 1, n)
  OBVIOUS
<1>3. e \in Entries
  BY <1>2, EntriesAre
<1>4. e \in Paths /\ Len(e) = n /\ \A j \in 1..n : e[j] = p[j]
  BY <1>1, <1>2, FirstNames
<1>5. n \in 1..n /\ n <= Len(p)
  BY <1>1
<1>6. Last(e) = p[n]
  BY <1>4, <1>5, LastIs
<1>7. Above(e, p)
  BY <1>4, <1>5 DEF Above
<1> QED BY <1>3, <1>4, <1>6, <1>7

\* Where nothing is to convert and nothing cannot stay, every name stays.
LEMMA NothingToConvert ==
    ASSUME Assumed, NamesTypeOK, Spelt, NEW p \in DOMAIN named, NEW n \in 1..Len(p),
           Own(p, n), ~CannotStay
    PROVE  ~Converts(p[n]) => Unambiguous(p[n]) /\ (p[n] \in Long \/ Encode[p[n]] = p[n])
<1>1. p[n] \in Segments
  BY FilesAre DEF Own
<1>2. PICK e \in Entries : Last(e) = p[n]
  BY FilesAre, EntryOf
<1>3. p[n] \in Long => Unambiguous(p[n])
  BY <1>2 DEF CannotStay
<1>4. Encode[p[n]] = p[n] => Unambiguous(p[n])
  BY <1>1, ReadsAs DEF Assumed
<1> QED BY <1>3, <1>4 DEF Converts

\* Settling on plain names keeps the invariant: nothing is to be converted.
LEMMA SettlePlainStep ==
    ASSUME Assumed, NamesInv, SettlePlain, UNCHANGED title
    PROVE  NamesInv'
<1>1. NamesTypeOK /\ PlanOK /\ TreeOK /\ ConvertingOK /\ Spelt
  BY DEF NamesInv, TreeOK
<1>2. /\ up /\ record.state = "absent" /\ ToConvert = {} /\ ~CannotStay
      /\ stage' = "settled" /\ step' = 0 /\ naming' = "plain" /\ known' = known
      /\ UNCHANGED <<title, named, record, up, clock, saved>>
  BY DEF SettlePlain, Settled
<1>3. PlanOK' /\ TreeOK' /\ ConvertingOK'
  BY <1>1, <1>2, Quiet
<1>4. NamesTypeOK'
  <2>1. Len(record.plan) \in Nat
    BY <1>1 DEF NamesTypeOK
  <2> QED BY <1>1, <1>2, <2>1 DEF NamesTypeOK
<1>5. ControlOK' /\ Progress'
  BY <1>2 DEF ControlOK, Progress
<1>6. ASSUME NEW p \in DOMAIN named, NEW n \in 1..Len(p)
      PROVE  Unambiguous(p[n]) /\ (p[n] \in Long \/ Encode[p[n]] = p[n])
  <2>1. Own(p, n) /\ p[n] \in Segments
    BY <1>1, <1>2, FilesAre DEF Reads, Own
  <2>2. ~Converts(p[n])
    <3>1. PICK e \in Entries : Last(e) = p[n]
      BY <1>1, FilesAre, EntryOf
    <3> QED BY <1>2, <2>1, <3>1 DEF ToConvert
  <2> QED BY <1>1, <1>2, <2>1, <2>2, NothingToConvert
<1>7. PlainOK'
  BY <1>2, <1>6 DEF PlainOK
<1> QED BY <1>3, <1>4, <1>5, <1>7 DEF NamesInv

\* The steps that change neither the files nor the record keep the invariant.
LEMMA IdleStep ==
    ASSUME Assumed, NamesInv, UNCHANGED title,
           \/ SettleEncoded \/ SettleAsKnown \/ SettleUnconverted \/ ResumeConversion
           \/ CannotMove \/ CannotGoOn \/ Stop \/ Start
    PROVE  NamesInv'
<1>1. NamesTypeOK /\ PlanOK /\ ControlOK /\ TreeOK /\ ConvertingOK
  BY DEF NamesInv
<1>2. UNCHANGED <<title, named, record, clock, saved>>
  BY DEF SettleEncoded, SettleAsKnown, SettleUnconverted, ResumeConversion, CannotMove, CannotGoOn, Stop, Start
<1>3. PlanOK' /\ TreeOK' /\ ConvertingOK'
  BY <1>1, <1>2, Quiet
<1>4. Len(record.plan) \in Nat /\ DOMAIN Plan = 1..Len(Plan)
  <2>1. record.plan \in Seq(Paths)
    BY <1>1 DEF NamesTypeOK
  <2> QED BY <2>1, LenProperties DEF Plan
<1>5. NamesTypeOK'
  <2>1. /\ title \in Titles /\ DOMAIN named \subseteq Paths /\ \A p \in DOMAIN named : named[p] \in File
        /\ record \in [state : {"absent", "encoded", "moving", "placing"}, plan : Seq(Paths)]
        /\ clock \in 1..MaxSaves /\ saved \in [SaveKeys -> 0..MaxSaves]
    BY <1>1 DEF NamesTypeOK
  <2>2. record.state \in {"absent", "encoded", "moving", "placing"}
    BY <2>1
  <2>3. up' \in BOOLEAN
    BY <1>1, Zenon
       DEF NamesTypeOK, SettleEncoded, SettleAsKnown, SettleUnconverted, ResumeConversion, CannotMove, CannotGoOn,
           Stop, Start
  <2>4. stage' \in {"idle", "moving", "placing", "undoing", "settled"}
    BY <1>1, <2>2
       DEF NamesTypeOK, SettleEncoded, SettleAsKnown, SettleUnconverted, ResumeConversion, CannotMove, CannotGoOn,
           Stop, Start, Settled, Unconverted, Stuck
  <2>5. step' \in 0..Len(record.plan) + 1
    BY <1>1, <1>4
       DEF NamesTypeOK, SettleEncoded, SettleAsKnown, SettleUnconverted, ResumeConversion, CannotMove, CannotGoOn,
           Stop, Start, Settled, Unconverted, Stuck, Plan
  <2>6. /\ naming' \in {Nothing, "plain", "encoded", "earlier", "converting"}
        /\ known' \in {Nothing, "earlier", "converting"}
    BY <1>1
       DEF NamesTypeOK, SettleEncoded, SettleAsKnown, SettleUnconverted, ResumeConversion, CannotMove, CannotGoOn,
           Stop, Start, Settled, Unconverted, Stuck, Nothing
  <2> QED BY <1>2, <2>1, <2>3, <2>4, <2>5, <2>6, Zenon DEF NamesTypeOK
<1>6. ControlOK'
  BY <1>1, <1>2, <1>4
     DEF NamesTypeOK, ControlOK, SettleEncoded, SettleAsKnown, SettleUnconverted, ResumeConversion, CannotMove,
         CannotGoOn, Stop, Start, Settled, Unconverted, Stuck, Nothing, Plan
<1>7. Progress'
  <2>1. \/ stage' = "settled" \/ stage' = "idle"
        \/ stage' \in {"moving", "placing"} /\ step' = 1
        \/ stage' = "undoing" /\ step' = Len(Plan)
        \/ stage' = stage /\ step' = step
    BY DEF SettleEncoded, SettleAsKnown, SettleUnconverted, ResumeConversion, CannotMove, CannotGoOn,
           Stop, Start, Settled, Unconverted, Stuck, Plan
  <2>2. CASE stage' = "settled" \/ stage' = "idle"
    BY <2>2 DEF Progress
  <2>3. CASE \/ stage' \in {"moving", "placing"} /\ step' = 1
             \/ stage' = "undoing" /\ step' = Len(Plan)
    BY <1>2, <1>4, <2>3 DEF Progress, Plan
  <2>4. CASE Start
    BY <1>1, <2>4 DEF Start, ControlOK, Progress
  <2>5. CASE ~Start /\ stage' = stage /\ step' = step
    <3>1. stage' = "settled" \/ stage' = "idle"
      BY <1>1, <2>1, <2>5
         DEF SettleEncoded, SettleAsKnown, SettleUnconverted, ResumeConversion, CannotMove, CannotGoOn,
             Stop, Start, Settled, Unconverted, Stuck, NamesTypeOK
    <3> QED BY <3>1 DEF Progress
  <2> QED BY <2>1, <2>2, <2>3, <2>4, <2>5
<1>8. PlainOK'
  <2>1. naming' # "plain"
    BY <1>1 DEF SettleEncoded, SettleAsKnown, SettleUnconverted, ResumeConversion, CannotMove, CannotGoOn,
             Stop, Start, Settled, Unconverted, Stuck, ControlOK, Nothing, NamesTypeOK
  <2> QED BY <2>1 DEF PlainOK
<1> QED BY <1>3, <1>5, <1>6, <1>7, <1>8 DEF NamesInv

\* What holds of the files whatever they are called survives a rename.
LEMMA Relocated ==
    ASSUME NamesTypeOK, Spelt, Times, Kept, KeysApart, NEW m, Relocates(named, m, named'),
           UNCHANGED <<title, clock, saved>>
    PROVE  /\ Times' /\ Kept'
           /\ \A q \in DOMAIN named' : named'[q] \in File
           /\ \A q \in DOMAIN named' : \E p \in DOMAIN named : q = m[p]
           /\ \A p \in DOMAIN named :
                m[p] \in DOMAIN named' /\ m[p] \in Paths /\ Len(m[p]) = Len(p)
                /\ Key(m[p])' = Key(p) /\ named'[m[p]].at = named[p].at
           /\ \A p, q \in DOMAIN named : m[p] = m[q] => p = q
           /\ UNCHANGED record => KeysApart'
<1>1. \A q \in DOMAIN named' : \E p \in DOMAIN named : q = m[p]
  BY DEF Relocates
<1>2. \A p \in DOMAIN named :
        m[p] \in DOMAIN named' /\ m[p] \in Paths /\ Len(m[p]) = Len(p) /\ named'[m[p]] = named[p]
  BY DEF Relocates
<1>3. \A p, q \in DOMAIN named : m[p] = m[q] => p = q
  BY DEF Relocates
<1>4. \A p \in DOMAIN named : Key(m[p])' = Key(p) /\ named'[m[p]].at = named[p].at
  BY <1>2 DEF Key
<1>5. Times'
  <2>1. \A k \in title' : saved'[k] <= clock'
    BY DEF Times
  <2>2. \A q \in DOMAIN named' : named'[q].at <= saved'[Key(q)']
    BY <1>1, <1>4 DEF Times
  <2>3. \A p, q \in DOMAIN named' : Key(p)' = Key(q)' /\ named'[p].at = named'[q].at => p = q
    BY <1>1, <1>4 DEF Times
  <2> QED BY <2>1, <2>2, <2>3 DEF Times
<1>6. Kept'
  BY <1>2, <1>4 DEF Kept
<1>7. \A q \in DOMAIN named' : named'[q] \in File
  BY <1>1, <1>2 DEF NamesTypeOK
<1>8. ASSUME UNCHANGED record PROVE KeysApart'
  BY <1>1, <1>4, <1>8 DEF KeysApart, Plan
<1> QED BY <1>1, <1>2, <1>3, <1>4, <1>5, <1>6, <1>7, <1>8

\* The names of a file after a rename within a directory, one by one.
LEMMA TakesIs ==
    ASSUME DOMAIN named \subseteq Paths, NEW m, NEW e \in Paths, NEW x, Takes(named, m, e, x)
    PROVE  \A p \in DOMAIN named :
             /\ ~Above(e, p) => m[p] = p
             /\ \A n \in 1..Len(p) : m[p][n] = IF Above(e, p) /\ n = Len(e) THEN x ELSE p[n]
<1>1. ASSUME NEW p \in DOMAIN named, NEW n \in 1..Len(p)
      PROVE  m[p][n] = IF Above(e, p) /\ n = Len(e) THEN x ELSE p[n]
  <2>1. p \in Paths /\ (Len(p) = 1 \/ Len(p) = 2) /\ (Len(e) = 1 \/ Len(e) = 2)
    BY TwoNames
  <2>2. n = 1 \/ (n = 2 /\ Len(p) = 2)
    <3>1. CASE Len(p) = 1
      BY <3>1
    <3>2. CASE Len(p) = 2
      BY <3>2
    <3> QED BY <2>1, <3>1, <3>2
  <2> QED BY <2>1, <2>2 DEF Takes
<1> QED BY <1>1 DEF Takes

\* In the first pass what a listed name meets is that name, and own.
LEMMA OnlyItself ==
    ASSUME Assumed, NamesTypeOK, PlanOK, Spelt, KeysApart, record.state = "moving",
           NEW i \in DOMAIN Plan, NEW p \in DOMAIN named, Covers(p, Plan[i])
    PROVE  Above(Plan[i], p) /\ Lists(i, Key(p), Len(Plan[i])) /\ \A n \in 1..Len(Plan[i]) : n \in 1..Len(p) /\ Own(p, n)
<1>1. /\ Plan[i] \in Paths /\ (Len(Plan[i]) = 1 \/ Len(Plan[i]) = 2)
      /\ \A n \in 1..Len(Plan[i]) : Plan[i][n] \in SegmentNames
  BY PlanIs
<1>2. p \in Paths /\ Key(p) \in Paths /\ Len(Key(p)) = Len(p) /\ (Len(p) = 1 \/ Len(p) = 2)
  BY FilesAre
<1>3. Len(Plan[i]) <= Len(p) /\ \A n \in 1..Len(Plan[i]) : Fold[p[n]] = Fold[Plan[i][n]]
  BY DEF Covers
<1>4. ASSUME NEW n \in 1..Len(Plan[i]) PROVE n \in 1..Len(p) /\ Own(p, n)
  <2>1. n \in 1..Len(p)
    BY <1>1, <1>2, <1>3
  <2>2. p[n] \in Names
    BY <2>1, FilesAre
  <2>3. ASSUME p[n] \in TemporaryNames PROVE FALSE
    <3>1. PICK j \in DOMAIN Temporary : p[n] = Temporary[j]
      BY <2>3 DEF TemporaryNames
    <3>2. Plan[i][n] \in Names /\ Fold[Plan[i][n]] = Fold[Temporary[j]]
      BY <1>1, <1>3, <3>1 DEF Names
    <3>3. Plan[i][n] = Temporary[j]
      BY <3>2, NamesAre DEF Assumed
    <3> QED BY <1>1, <3>3, NamesAre DEF Assumed
  <2>4. p[n] \in SegmentNames
    BY <2>2, <2>3 DEF Names
  <2> QED BY <2>1, <2>4, OwnIs
<1>5. Covers(Key(p), Plan[i])
  BY <1>2, <1>3, <1>4 DEF Covers, Own
<1>6. Above(Plan[i], Key(p))
  BY <1>5 DEF KeysApart
<1>7. Above(Plan[i], p)
  BY <1>3, <1>4, <1>6 DEF Above, Own
<1> QED BY <1>4, <1>6, <1>7 DEF Lists

\* In the first pass what the volume takes for an entry is the entry itself.
LEMMA MeetsItself ==
    ASSUME Assumed, NamesTypeOK, PlanOK, Spelt, KeysApart, record.state = "moving",
           NEW i \in DOMAIN Plan, NEW e \in Paths, Meets(e, Plan[i]), NEW p \in DOMAIN named, Above(e, p)
    PROVE  e = Plan[i]
<1>1. Plan[i] \in Paths /\ p \in Paths
  BY PlanIs, FilesAre
<1>2. Covers(p, Plan[i])
  BY <1>1 DEF Covers, Above, Meets
<1>3. Above(Plan[i], p)
  BY <1>2, OnlyItself
<1>4. PICK o \in Paths : o = Plan[i]
  BY <1>1
<1>5. Above(o, p) /\ Len(e) = Len(o)
  BY <1>3, <1>4 DEF Meets
<1>6. e = o
  BY <1>1, <1>5, TwoNamesApiece
<1> QED BY <1>4, <1>6

\* The first pass passes over an entry: the invariant is kept.
LEMMA MoveAsideStays ==
    ASSUME Assumed, NamesInv, UNCHANGED title, MoveAside,
           Exists(TemporaryPath(step)) \/ ~Exists(Plan[step]), UNCHANGED named, Advance
    PROVE  NamesInv'
<1>1. /\ NamesTypeOK /\ PlanOK /\ ControlOK /\ TreeOK /\ ConvertingOK /\ Spelt /\ KeysApart /\ FoldApart /\ StayOwn
      /\ Progress
  BY DEF NamesInv, TreeOK, ConvertingOK
<1>2. /\ stage = "moving" /\ step <= Len(Plan) /\ step' = step + 1
      /\ UNCHANGED <<title, named, record, up, stage, naming, known, clock, saved>>
  BY DEF MoveAside, Advance, Plan
<1>3. step > 0 /\ record.state = "moving" /\ step \in DOMAIN Plan
  <2>1. step \in 0..Len(Plan) + 1 /\ step > 0 /\ record.state = "moving"
    BY <1>1, <1>2 DEF NamesTypeOK, ControlOK, Plan
  <2> QED BY <1>1, <1>2, <2>1, PlanIs
<1>4. /\ PlanOK' /\ TreeOK' /\ ConvertingOK'
      /\ \A i : Used(i)' <=> Used(i)
  BY <1>1, <1>2, Quiet
<1>5. NamesTypeOK' /\ ControlOK' /\ PlainOK'
  <2>1. step' \in 0..Len(record.plan) + 1
    BY <1>1, <1>2, <1>3, PlanIs DEF Plan
  <2>2. NamesTypeOK'
    BY <1>1, <1>2, <2>1 DEF NamesTypeOK
  <2>3. ControlOK'
    BY <1>1, <1>2, <1>3, PlanIs DEF ControlOK
  <2>4. PlainOK'
    BY <1>1, <1>2 DEF ControlOK, PlainOK, Nothing
  <2> QED BY <2>2, <2>3, <2>4
<1>6. ASSUME NEW p \in DOMAIN named, Above(Plan[step], p)
      PROVE  Stays(Plan[step][Len(Plan[step])]) /\ Remakes
  <2>1. DOMAIN named \subseteq Paths /\ p \in Paths /\ Plan[step] \in Paths
    BY <1>1, <1>3, FilesAre, PlanIs
  <2>2. Covers(p, Plan[step])
    BY <1>6 DEF Covers, Above
  <2>3. Exists(Plan[step])
    BY <2>1, <2>2, AnswersAre
  <2>4. Exists(TemporaryPath(step))
    BY <2>3
  <2>5. /\ TemporaryPath(step) \in Paths /\ Len(TemporaryPath(step)) = Len(Plan[step])
        /\ TemporaryPath(step)[Len(Plan[step])] = Temporary[step]
        /\ Len(Plan[step]) = 1 \/ Len(Plan[step]) = 2
    BY <1>1, <1>3, TemporaryPathIs, PlanIs
  <2>6. PICK q \in DOMAIN named : Covers(q, TemporaryPath(step))
    BY <2>1, <2>4, <2>5, AnswersAre
  <2>7. Used(step)
    <3>1. Len(Plan[step]) \in 1..Len(TemporaryPath(step))
      BY SMTT(60), <2>5
    <3> QED BY <1>1, <1>3, <2>5, <2>6, <3>1, Holds
  <2>8. /\ Lists(step, Key(p), Len(Plan[step])) /\ Len(Plan[step]) \in 1..Len(p)
        /\ Own(p, Len(Plan[step])) /\ p[Len(Plan[step])] = Plan[step][Len(Plan[step])]
    <3>1. Len(Plan[step]) \in 1..Len(Plan[step])
      BY SMTT(60), <2>5
    <3> QED BY <1>1, <1>3, <1>6, <2>2, <3>1, OnlyItself DEF Above
  <2> QED BY <1>1, <1>3, <2>7, <2>8 DEF StayOwn
<1>7. Progress'
  <2>1. \A j \in DOMAIN Plan : j < step + 1 => j < step \/ j = step
    BY <1>1, <1>2, <1>3, PlanIs DEF NamesTypeOK
  <2>2. \A j \in DOMAIN Plan : j < step + 1 =>
          \A p \in DOMAIN named : Above(Plan[j], p) => Stays(Plan[j][Len(Plan[j])]) /\ Remakes
    BY <1>1, <1>2, <1>6, <2>1 DEF Progress
  <2>3. \A s : (Stays(s) /\ Remakes)' <=> Stays(s) /\ Remakes
    BY <1>2 DEF Stays, Remakes, NamesApart
  <2>4. Plan' = Plan
    BY <1>2 DEF Plan
  <2> QED BY <1>2, <2>2, <2>3, <2>4 DEF Progress
<1> QED BY <1>4, <1>5, <1>7 DEF NamesInv

\* The first pass moves an entry aside: the invariant is kept.
LEMMA MoveAsideMoves ==
    ASSUME Assumed, NamesInv, UNCHANGED title, MoveAside,
           ~Exists(TemporaryPath(step)), Exists(Plan[step]), Rename(Plan[step], TemporaryPath(step)), Advance
    PROVE  NamesInv'
<1>1. /\ NamesTypeOK /\ PlanOK /\ ControlOK /\ TreeOK /\ ConvertingOK /\ Spelt /\ KeysApart /\ FoldApart
      /\ Progress /\ Times /\ Kept
  BY DEF NamesInv, TreeOK
<1>2. OwnNewest /\ Sole /\ Single /\ StayOwn /\ Nested
  BY <1>1 DEF ConvertingOK
<1>3. /\ stage = "moving" /\ step <= Len(Plan) /\ step' = step + 1
      /\ UNCHANGED <<title, record, up, stage, naming, known, clock, saved>>
  BY DEF MoveAside, Advance, Plan
<1>4. step > 0 /\ record.state = "moving" /\ step \in DOMAIN Plan
  <2>1. step \in 0..Len(Plan) + 1 /\ step > 0 /\ record.state = "moving"
    BY <1>1, <1>3 DEF NamesTypeOK, ControlOK, Plan
  <2> QED BY <1>1, <1>3, <2>1, PlanIs
<1>5. PICK L : L = Len(Plan[step])
  OBVIOUS
<1>6. PICK T : T = Temporary[step]
  OBVIOUS
<1>7. PICK o : o = Plan[step]
  OBVIOUS
<1>8. /\ o \in Paths /\ Len(o) = L /\ (L = 1 \/ L = 2)
      /\ \A n \in 1..L : o[n] \in Segments /\ o[n] \in SegmentNames
      /\ T \in Names /\ T \notin SegmentNames
  BY <1>1, <1>4, <1>5, <1>6, <1>7, PlanIs
<1>9. DOMAIN named \subseteq Paths /\ Apart(named)
  BY <1>1, FilesAre DEF FoldApart
<1>10. PICK m : Relocates(named, m, named') /\ Takes(named, m, o, T)
  <2>1. /\ TemporaryPath(step) \in Paths /\ Len(TemporaryPath(step)) = L
        /\ TemporaryPath(step)[L] = T
        /\ L = 2 => TemporaryPath(step)[1] = o[1]
    BY <1>1, <1>4, <1>5, <1>6, <1>7, TemporaryPathIs
  <2>2. PICK e \in Paths :
           /\ Meets(e, o) /\ \E p \in DOMAIN named : Above(e, p)
           /\ \E m : Relocates(named, m, named') /\ Takes(named, m, e, T)
    <3>1. PICK to \in Paths : to = TemporaryPath(step)
      BY <2>1
    <3>2. Len(o) = Len(to) /\ (Len(to) = 2 => o[1] = to[1]) /\ ~Exists(to) /\ Rename(o, to)
      BY <1>7, <1>8, <2>1, <3>1
    <3>3. \E e \in Paths :
                 /\ Meets(e, o) /\ \E p \in DOMAIN named : Above(e, p)
                 /\ \E m : Relocates(named, m, named') /\ Takes(named, m, e, to[Len(to)])
      BY <1>8, <1>9, <3>2, RenameLast
    <3>4. to[Len(to)] = T
      BY <2>1, <3>1
    <3> QED BY <3>3, <3>4, Zenon
  <2>3. e = o
    BY <1>1, <1>4, <1>7, <2>2, MeetsItself
  <2> QED BY <2>2, <2>3
<1>11. /\ DOMAIN named' \subseteq Paths /\ Apart(named')
  <2>1. PICK to \in Paths : /\ to = TemporaryPath(step) /\ Len(to) = L
                            /\ L = 2 => to[1] = o[1]
    BY <1>1, <1>4, <1>5, <1>6, <1>7, TemporaryPathIs
  <2>2. Len(o) = Len(to) /\ (Len(to) = 2 => o[1] = to[1]) /\ ~Exists(to) /\ Rename(o, to)
    BY <1>7, <1>8, <2>1
  <2>3. DOMAIN named' \subseteq Paths
    BY <1>8, <1>9, <2>2, RenameLast
  <2>4. Apart(named')
    BY <1>8, <1>9, <2>2, RenameLast
  <2> QED BY <2>3, <2>4
<1>12. /\ Times' /\ Kept' /\ KeysApart'
       /\ \A q \in DOMAIN named' : named'[q] \in File
       /\ \A q \in DOMAIN named' : \E p \in DOMAIN named : q = m[p]
       /\ \A p \in DOMAIN named :
            m[p] \in DOMAIN named' /\ m[p] \in Paths /\ Len(m[p]) = Len(p)
            /\ Key(m[p])' = Key(p) /\ named'[m[p]].at = named[p].at
  BY <1>1, <1>3, <1>10, Relocated
<1>13. /\ \A p \in DOMAIN named : ~Above(o, p) => m[p] = p
       /\ \A p \in DOMAIN named : \A n \in 1..Len(p) : m[p][n] = IF Above(o, p) /\ n = L THEN T ELSE p[n]
  BY <1>8, <1>9, <1>10, TakesIs
\* What moves was own.
<1>14. ASSUME NEW p \in DOMAIN named, Above(o, p)
       PROVE  Lists(step, Key(p), L) /\ L \in 1..Len(p) /\ \A n \in 1..L : n \in 1..Len(p) /\ Own(p, n)
  <2>1. Covers(p, Plan[step])
    BY <1>7, <1>14 DEF Covers, Above
  <2>2. Lists(step, Key(p), L) /\ \A n \in 1..L : n \in 1..Len(p) /\ Own(p, n)
    BY <1>1, <1>4, <1>5, <2>1, OnlyItself
  <2>3. L \in 1..L
    BY <1>8
  <2> QED BY <2>2, <2>3
\* What is own and listed moves.
<1>15. ASSUME NEW p \in DOMAIN named, Lists(step, Key(p), L), L \in 1..Len(p), Own(p, L)
       PROVE  Above(o, p)
  <2>1. L = 2 => Len(p) = 2 /\ Own(p, 1)
    <3>1. ASSUME L = 2 PROVE Len(p) = 2 /\ Listed(Key(p), 2)
      <4>1. Len(p) = 1 \/ Len(p) = 2
        BY <1>1, FilesAre
      <4> QED BY <1>4, <1>15, <3>1, <4>1 DEF Listed
    <3> QED BY <1>2, <1>4, <1>15, <3>1 DEF Nested
  <2>2. Above(o, Key(p))
    BY <1>7, <1>15 DEF Lists
  <2>3. p \in Paths /\ Key(p) \in Paths /\ Len(Key(p)) = Len(p)
    BY <1>1, FilesAre
  <2>4. CASE L = 1
    BY <1>8, <1>15, <2>2, <2>3, <2>4, TwoNamesApiece DEF Own
  <2>5. CASE L = 2
    BY <1>8, <1>15, <2>1, <2>2, <2>3, <2>5, TwoNamesApiece DEF Own
  <2> QED BY <1>8, <2>4, <2>5
<1>16. ASSUME NEW p \in DOMAIN named, NEW n \in 1..Len(p)
       PROVE  /\ n \in 1..Len(m[p]) /\ m[p][n] = (IF Above(o, p) /\ n = L THEN T ELSE p[n])
              /\ Own(m[p], n)' <=> Own(p, n) /\ ~(Above(o, p) /\ n = L)
  <2>1. Key(p)[n] \in SegmentNames
    BY <1>1, FilesAre, NamesAre DEF Assumed
  <2>2. n \in 1..Len(m[p]) /\ m[p][n] = (IF Above(o, p) /\ n = L THEN T ELSE p[n])
    BY <1>12, <1>13
  <2>3. Own(m[p], n)' <=> m[p][n] = Key(p)[n]
    BY <1>12 DEF Own
  <2>4. Own(p, n) <=> p[n] = Key(p)[n]
    BY DEF Own
  <2> QED BY <1>8, <2>1, <2>2, <2>3, <2>4
<1>17. Plan' = Plan /\ \A i, k, n : (Lists(i, k, n)' <=> Lists(i, k, n)) /\ (Listed(k, n)' <=> Listed(k, n))
  BY <1>3 DEF Plan, Lists, Listed
<1>18. ASSUME NEW p \in DOMAIN named, NEW n \in 1..Len(p)
       PROVE  Aside(m[p], n)' <=> Aside(p, n) \/ (Above(o, p) /\ n = L)
  <2>1. Aside(m[p], n)' <=> \E i \in DOMAIN Plan : Lists(i, Key(p), n) /\ m[p][n] = Temporary[i]
    BY <1>12, <1>17 DEF Aside
  <2>2. CASE ~(Above(o, p) /\ n = L)
    BY <1>16, <2>1, <2>2 DEF Aside
  <2>3. CASE Above(o, p) /\ n = L
    BY <1>4, <1>6, <1>14, <1>16, <2>1, <2>3
  <2> QED BY <2>2, <2>3
<1>19. Spelt'
  <2>1. ASSUME NEW p \in DOMAIN named
        PROVE  Key(m[p])' \in title' /\ Len(m[p]) = Len(Key(m[p])') /\ \A n \in 1..Len(m[p]) : Reads(m[p], n)'
    <3>1. Key(p) \in title /\ Len(p) = Len(Key(p)) /\ \A n \in 1..Len(p) : Reads(p, n)
      BY <1>1 DEF Spelt
    <3>2. ASSUME NEW n \in 1..Len(p) PROVE Reads(m[p], n)'
      <4>1. Own(p, n) \/ Aside(p, n)
        BY <1>4, <3>1 DEF Reads
      <4>2. Own(m[p], n)' \/ Aside(m[p], n)'
        BY <1>16, <1>18, <4>1
      <4> QED BY <1>3, <1>4, <4>2 DEF Reads
    <3> QED BY <1>3, <1>12, <3>1, <3>2
  <2> QED BY <1>12, <2>1 DEF Spelt
<1>20. TreeOK'
  BY <1>11, <1>12, <1>19 DEF TreeOK, FoldApart
<1>21. PlanOK'
  BY <1>1, <1>3 DEF PlanOK, Plan
<1>22. record'.state = "moving" /\ (Remakes' <=> Remakes) /\ \A s : Stays(s)' <=> Stays(s)
  BY <1>3, <1>4 DEF Remakes, Stays, NamesApart
\* No file is own that was not, and one that is did not move.
<1>23. ASSUME NEW p \in DOMAIN named PROVE m[p] = Key(p) <=> p = Key(p) /\ ~Above(o, p)
  <2>1. p \in Paths /\ Key(p) \in Paths /\ m[p] \in Paths /\ Len(m[p]) = Len(p) /\ Len(Key(p)) = Len(p)
    BY <1>1, <1>12, FilesAre
  <2>2. CASE ~Above(o, p)
    BY <1>13, <2>2
  <2>3. CASE Above(o, p)
    <3>1. L \in 1..Len(p) /\ m[p][L] = T
      BY <1>14, <1>16, <2>3
    <3>2. Key(p)[L] \in SegmentNames
      BY <1>1, <3>1, FilesAre, NamesAre DEF Assumed
    <3>3. m[p] # Key(p)
      BY <1>8, <3>1, <3>2
    <3> QED BY <2>3, <3>3
  <2> QED BY <2>2, <2>3
<1>24. OwnNewest'
  <2>1. ASSUME NEW p \in DOMAIN named, m[p] = Key(p) PROVE named'[m[p]].at = saved'[m[p]]
    BY <1>2, <1>3, <1>4, <1>12, <1>23, <2>1 DEF OwnNewest
  <2> QED BY <1>12, <2>1 DEF OwnNewest
<1>25. Sole'
  <2>1. ASSUME NEW p \in DOMAIN named, NEW q \in DOMAIN named, Key(p) = Key(q),
               Above(o, p), p = Key(p), q # Key(q)
        PROVE  FALSE
    <3>1. Remakes
      BY <1>2, <1>4, <2>1 DEF Single
    <3>2. Lists(step, Key(q), L) /\ L \in 1..Len(p)
      BY <1>14, <2>1
    <3>3. /\ p \in Paths /\ q \in Paths /\ Len(p) = Len(Key(p)) /\ Len(q) = Len(Key(q)) /\ Key(q) \in Paths /\ Key(q) \in title
          /\ (Len(q) = 1 \/ Len(q) = 2) /\ \A n \in 1..Len(q) : Reads(q, n)
      BY <1>1, FilesAre
    <3>4. ~Above(o, q)
      <4>1. ASSUME Above(o, q) PROVE FALSE
        <5>1. L \in 1..Len(q) /\ \A n \in 1..L : Own(q, n)
          BY <1>14, <4>1
        <5>2. PICK n \in 1..Len(q) : ~Own(q, n)
          <6>1. ASSUME \A n \in 1..Len(q) : Own(q, n) PROVE FALSE
            <7>1. q = Key(q)
              BY <3>3, <6>1, SamePath DEF Own
            <7> QED BY <2>1, <7>1
          <6> QED BY <6>1
        <5>3. n = 2 /\ L = 1 /\ Len(q) = 2 /\ 1 \in 1..L /\ 2 \in 1..Len(q)
          BY <1>8, <3>3, <5>1, <5>2
        <5>4. Reads(q, 2) /\ ~Own(q, 2)
          BY <3>3, <5>2, <5>3
        <5>5. Aside(q, 2)
          BY <1>4, <5>4 DEF Reads
        <5>6. PICK j \in DOMAIN Plan : Lists(j, Key(q), 2)
          BY <5>5 DEF Aside
        <5>7. Converts(Plan[j][2]) /\ Converts(o[1])
          BY <1>1, <1>4, <1>7, <1>8, <5>3, <5>6 DEF PlanOK, Lists
        <5>8. Plan[j][2] = Key(q)[2] /\ o[1] = Key(q)[1]
          <6>1. Plan[j] \in Paths /\ Above(Plan[j], Key(q)) /\ Len(Plan[j]) = 2 /\ Above(o, Key(q))
            BY <1>1, <1>7, <3>2, <5>6, PlanIs DEF Lists
          <6> QED BY <1>8, <3>3, <6>1, TwoNamesApiece
        <5> QED BY <1>1, <3>1, <3>3, <5>3, <5>7, <5>8 DEF Assumed, DirectoriesAssumption, Remakes, NamesTypeOK
      <4> QED BY <4>1
    <3>5. L \in 1..Len(q) /\ ~Own(q, L)
      BY <1>15, <2>1, <3>2, <3>3, <3>4
    <3>6. Aside(q, L)
      BY <1>4, <3>3, <3>5 DEF Reads
    <3>7. q[L] = T
      <4>1. PICK j \in DOMAIN Plan : Lists(j, Key(q), L) /\ q[L] = Temporary[j]
        BY <3>6 DEF Aside
      <4>2. PICK b \in Paths : b = Plan[j]
        BY <1>1, PlanIs
      <4>3. Len(b) = L /\ Above(b, Key(q)) /\ Above(o, Key(q))
        BY <1>7, <3>2, <4>1, <4>2 DEF Lists
      <4>4. b = o
        BY <1>8, <3>3, <4>3, TwoNamesApiece
      <4>5. j = step
        BY <1>1, <1>4, <1>7, <4>2, <4>4 DEF PlanOK
      <4> QED BY <1>6, <4>1, <4>5
    <3>8. L = 2 => q[1] = o[1]
      <4>1. ASSUME L = 2, ~Own(q, 1) PROVE FALSE
        <5>1. 1 \in 1..Len(q) /\ Len(q) = 2
          BY <3>3, <3>5, <4>1
        <5>2. Aside(q, 1)
          BY <1>4, <3>3, <4>1, <5>1 DEF Reads
        <5>3. PICK j \in DOMAIN Plan : Lists(j, Key(q), 1)
          BY <5>2 DEF Aside
        <5>4. PICK b \in Paths : b = Plan[j]
          BY <1>1, PlanIs
        <5>5. Len(b) = 1 /\ Above(b, Key(q)) /\ Above(o, Key(q)) /\ Converts(b[1]) /\ Converts(o[2])
          BY <1>1, <1>4, <1>7, <1>8, <3>2, <4>1, <5>3, <5>4 DEF Lists, PlanOK
        <5>6. Converts(Key(q)[1]) /\ Converts(Key(q)[2]) /\ Len(Key(q)) = 2
          BY <1>8, <3>3, <4>1, <5>1, <5>5, TwoNamesApiece
        <5> QED BY <1>1, <3>1, <3>3, <5>6 DEF Assumed, DirectoriesAssumption, Remakes, NamesTypeOK
      <4>2. Above(o, Key(q))
        BY <1>7, <3>2 DEF Lists
      <4> QED BY <1>8, <3>3, <4>1, <4>2, TwoNamesApiece DEF Own
    <3>9. Exists(TemporaryPath(step))
      <4>1. PICK to \in Paths : /\ to = TemporaryPath(step) /\ Len(to) = L /\ to[L] = T
                                /\ L = 2 => to[1] = o[1]
        BY <1>1, <1>4, <1>5, <1>6, <1>7, TemporaryPathIs
      <4>2. Covers(q, to)
        <5>1. CASE L = 1
          BY <3>3, <3>7, <4>1, <5>1, TwoNamesApiece
        <5>2. CASE L = 2
          <6>1. Len(q) = 2
            BY <3>3, <3>5, <5>2
          <6> QED BY <3>3, <3>7, <3>8, <4>1, <5>2, <6>1, TwoNamesApiece
        <5> QED BY <1>8, <5>1, <5>2
      <4> QED BY <1>9, <4>1, <4>2, AnswersAre
    <3> QED BY <3>9
  <2>2. ASSUME NEW p \in DOMAIN named, NEW q \in DOMAIN named, Key(p) = Key(q), m[p] # Key(p), m[q] # Key(q)
        PROVE  p = q
    <3>1. CASE p = Key(p) /\ q = Key(q)
      BY <2>2, <3>1
    <3>2. CASE p = Key(p) /\ q # Key(q)
      BY <1>23, <2>1, <2>2, <3>2
    <3>3. CASE p # Key(p) /\ q = Key(q)
      BY <1>23, <2>1, <2>2, <3>3
    <3>4. CASE p # Key(p) /\ q # Key(q)
      BY <1>2, <1>4, <2>2, <3>4 DEF Sole
    <3> QED BY <3>1, <3>2, <3>3, <3>4
  <2> QED BY <1>12, <2>2 DEF Sole
<1>26. Single'
  BY <1>2, <1>4, <1>12, <1>22 DEF Single
<1>27. StayOwn'
  <2>1. ASSUME NEW p \in DOMAIN named, NEW n \in 1..Len(p), Own(m[p], n)'
        PROVE  /\ ~Listed(Key(p), n) => Stays(p[n])
               /\ \A i \in DOMAIN Plan : Lists(i, Key(p), n) /\ Used(i)' => Stays(p[n]) /\ Remakes
    <3>1. Own(p, n) /\ ~(Above(o, p) /\ n = L)
      BY <1>16, <2>1
    <3>2. ~Listed(Key(p), n) => Stays(p[n])
      BY <1>2, <1>4, <3>1 DEF StayOwn
    <3>3. ASSUME NEW i \in DOMAIN Plan, Lists(i, Key(p), n), Used(i)' PROVE Stays(p[n]) /\ Remakes
      <4>1. CASE Used(i)
        BY <1>2, <1>4, <3>1, <3>3, <4>1 DEF StayOwn
      <4>2. CASE ~Used(i)
        <5>1. PICK q \in DOMAIN named : \E j \in 1..Len(m[q]) : m[q][j] = Temporary[i]
          BY <1>12, <3>3 DEF Used
        <5>2. PICK j \in 1..Len(q) : m[q][j] = Temporary[i]
          BY <1>12, <5>1
        <5>3. Temporary[i] = T
          BY <1>16, <4>2, <5>2 DEF Used
        <5>4. i = step
          BY <1>1, <1>4, <1>6, <5>3, PlanIs
        <5>5. n = L
          BY <1>5, <3>3, <5>4 DEF Lists
        <5> QED BY <1>15, <3>1, <3>3, <5>4, <5>5
      <4> QED BY <4>1, <4>2
    <3> QED BY <3>2, <3>3
  <2>2. ASSUME NEW p \in DOMAIN named, NEW n \in 1..Len(m[p]), Own(m[p], n)'
        PROVE  /\ ~Listed(Key(m[p]), n)' => Stays(m[p][n])'
               /\ \A i \in DOMAIN Plan' : (Lists(i, Key(m[p]), n) /\ Used(i))' => (Stays(m[p][n]) /\ Remakes)'
    <3>1. n \in 1..Len(p)
      BY <1>12
    <3>2. m[p][n] = p[n]
      BY <1>16, <2>2, <3>1
    <3> QED BY <1>12, <1>17, <1>22, <2>1, <2>2, <3>1, <3>2
  <2> QED BY <1>12, <1>22, <2>2 DEF StayOwn
<1>28. Nested'
  <2>1. ASSUME NEW p \in DOMAIN named, Len(m[p]) = 2, Own(m[p], 2)', Listed(Key(m[p]), 2)'
        PROVE  Own(m[p], 1)'
    <3>1. Len(p) = 2 /\ 1 \in 1..Len(p) /\ 2 \in 1..Len(p)
      <4>1. Len(p) = 2
        BY <1>12, <2>1
      <4> QED BY <4>1
    <3>2. Own(p, 2) /\ Listed(Key(p), 2) /\ ~(Above(o, p) /\ 2 = L)
      BY <1>12, <1>16, <1>17, <2>1, <3>1
    <3>3. Own(p, 1)
      BY <1>2, <1>4, <3>1, <3>2 DEF Nested
    <3>4. ASSUME Above(o, p), L = 1 PROVE FALSE
      <4>1. PICK j \in DOMAIN Plan : Lists(j, Key(p), 2)
        BY <3>2 DEF Listed
      <4>2. PICK b \in Paths : b = Plan[j]
        BY <1>1, PlanIs
      <4>3. p \in Paths /\ Key(p) \in Paths /\ Len(Key(p)) = 2 /\ Key(p) \in title
        BY <1>1, <3>1, FilesAre
      <4>4. Len(b) = 2 /\ Above(b, Key(p))
        BY <4>1, <4>2 DEF Lists
      <4>5. Above(o, b) /\ Above(b, p)
        BY <1>8, <3>1, <3>2, <3>3, <3>4, <4>3, <4>4, TwoNamesApiece DEF Own
      <4>12. Len(Plan[step]) = 1 /\ Len(Plan[j]) = 2 /\ Above(Plan[step], Plan[j])
        <5>1. Len(o) = 1
          BY <1>8, <3>4
        <5> QED BY <1>7, <4>2, <4>4, <4>5, <5>1
      <4>8. j < step
        BY <1>1, <1>4, <4>12, PlanOrder
      <4>9. Remakes
        BY <1>1, <1>3, <4>2, <4>5, <4>8 DEF Progress
      <4>10. Converts(b[2]) /\ Converts(o[1])
        BY <1>1, <1>4, <1>7, <1>8, <3>4, <4>2, <4>4 DEF PlanOK
      <4>11. b[2] = Key(p)[2] /\ o[1] = Key(p)[1]
        BY <1>8, <4>3, <4>4, <4>5, TwoNamesApiece
      <4> QED BY <1>1, <4>3, <4>9, <4>10, <4>11 DEF Assumed, DirectoriesAssumption, Remakes, NamesTypeOK
    <3> QED BY <1>16, <3>1, <3>3, <3>4
  <2> QED BY <1>12, <2>1 DEF Nested
<1>29. Inner' /\ Proper'
  BY <1>22 DEF Inner, Proper
<1>30. Progress'
  <2>1. ASSUME NEW j \in DOMAIN Plan, j < step + 1, NEW p \in DOMAIN named, Above(Plan[j], m[p])
        PROVE  Stays(Plan[j][Len(Plan[j])]) /\ Remakes
    <3>1. PICK b \in Paths : b = Plan[j] /\ (Len(b) = 1 \/ Len(b) = 2) /\ \A n \in 1..Len(b) : b[n] \in SegmentNames
      BY <1>1, PlanIs
    <3>2. m[p] \in Paths /\ p \in Paths /\ Len(m[p]) = Len(p)
      BY <1>9, <1>12
    <3>3. Len(b) <= Len(p) /\ \A n \in 1..Len(b) : b[n] = m[p][n]
      BY <2>1, <3>1, <3>2 DEF Above
    <3>4. \A n \in 1..Len(b) : n \in 1..Len(p)
      BY <3>1, <3>2, <3>3, TwoNames
    <3>5. \A n \in 1..Len(b) : b[n] = p[n] /\ ~(Above(o, p) /\ n = L)
      BY <1>8, <1>13, <3>1, <3>3, <3>4
    <3>6. Above(b, p)
      BY <3>3, <3>5 DEF Above
    <3>7. j # step
      <4>1. ASSUME j = step PROVE FALSE
        <5>1. b = o /\ L \in 1..Len(b)
          BY <1>7, <1>8, <3>1, <4>1
        <5> QED BY <3>5, <3>6, <5>1
      <4> QED BY <4>1
    <3>8. j < step
      BY <1>1, <1>4, <2>1, <3>7, PlanIs
    <3> QED BY <1>1, <1>3, <3>1, <3>6, <3>8 DEF Progress
  <2>2. \A j \in DOMAIN Plan : j < step + 1 =>
          \A q \in DOMAIN named' : Above(Plan[j], q) => Stays(Plan[j][Len(Plan[j])]) /\ Remakes
    BY <1>12, <2>1
  <2> QED BY <1>3, <1>17, <1>22, <2>2 DEF Progress
<1>31. NamesTypeOK' /\ ControlOK' /\ PlainOK'
  <2>1. step' \in 0..Len(record.plan) + 1
    BY <1>1, <1>3, <1>4, PlanIs DEF Plan
  <2>2. NamesTypeOK'
    BY <1>1, <1>3, <1>11, <1>12, <2>1 DEF NamesTypeOK
  <2>3. ControlOK'
    BY <1>1, <1>3, <1>4, PlanIs DEF ControlOK
  <2>4. PlainOK'
    BY <1>1, <1>3 DEF ControlOK, PlainOK, Nothing
  <2> QED BY <2>2, <2>3, <2>4
<1>32. ConvertingOK'
  BY <1>24, <1>25, <1>26, <1>27, <1>28, <1>29 DEF ConvertingOK
<1> QED BY <1>20, <1>21, <1>30, <1>31, <1>32 DEF NamesInv

\* In the second pass a temporary name is found where the pass looks for it.
LEMMA AsideIs ==
    ASSUME Assumed, NamesTypeOK, PlanOK, Spelt, Inner, record.state = "placing",
           NEW p \in DOMAIN named, NEW n \in 1..Len(p), NEW i \in DOMAIN Plan, p[n] = Temporary[i]
    PROVE  /\ n = Len(Plan[i]) /\ Lists(i, Key(p), n) /\ ~Own(p, n)
           /\ Key(p)[n] = Plan[i][n]
           /\ Above(PlacingPath(i), p)
<1>1. Lists(i, Key(p), n) /\ Aside(p, n) /\ ~Own(p, n)
  BY TemporaryIs
<1>2. p \in Paths /\ Key(p) \in Paths /\ Len(p) = Len(Key(p)) /\ (Len(p) = 1 \/ Len(p) = 2)
  BY FilesAre
<1>3. PICK o \in Paths : o = Plan[i]
  BY PlanIs
<1>4. Len(o) = n /\ Above(o, Key(p)) /\ (n = 1 \/ n = 2)
  BY <1>1, <1>2, <1>3, TwoNames DEF Lists
<1>5. Key(p)[1] = o[1] /\ Key(p)[n] = o[n]
  BY <1>2, <1>3, <1>4, TwoNamesApiece
<1>6. PICK q \in Paths :
        /\ q = PlacingPath(i) /\ Len(q) = n /\ q[n] = Temporary[i]
        /\ \A j \in DOMAIN Plan : Len(Plan[j]) = 1 /\ Plan[j][1] = o[1] => q[1] = Temporary[j]
        /\ (\A j \in DOMAIN Plan : ~(Len(Plan[j]) = 1 /\ Plan[j][1] = o[1])) /\ n = 2 => q[1] = o[1]
  <2>1. PICK q : q = PlacingPath(i)
    OBVIOUS
  <2>2. Len(Plan[i]) = n /\ Plan[i][1] = o[1]
    BY <1>3, <1>4
  <2>3. q \in Paths /\ Len(q) = Len(Plan[i]) /\ q[Len(Plan[i])] = Temporary[i]
    BY <2>1, PlacingPathIs
  <2>4. \A j \in DOMAIN Plan : Len(Plan[j]) = 1 /\ Plan[j][1] = Plan[i][1] => q[1] = Temporary[j]
    BY <2>1, PlacingPathIs
  <2>5. (\A j \in DOMAIN Plan : ~(Len(Plan[j]) = 1 /\ Plan[j][1] = Plan[i][1])) /\ Len(Plan[i]) = 2
            => q[1] = Plan[i][1]
    BY <2>1, PlacingPathIs
  <2> HIDE <1>3
  <2> QED BY <2>1, <2>2, <2>3, <2>4, <2>5
<1>7. Above(q, p)
  <2>1. CASE n = 1
    BY <1>2, <1>6, <2>1, TwoNamesApiece
  <2>2. CASE n = 2
    <3>1. Len(p) = 2
      BY <1>2, <2>2
    <3>2. Aside(p, 1) \/ (Own(p, 1) /\ ~Listed(Key(p), 1))
      BY <1>1, <2>2, <3>1 DEF Inner
    <3>3. q[1] = p[1]
      <4>1. CASE Aside(p, 1)
        <5>1. PICK j \in DOMAIN Plan : Lists(j, Key(p), 1) /\ p[1] = Temporary[j]
          BY <4>1 DEF Aside
        <5>2. PICK b \in Paths : b = Plan[j]
          BY PlanIs
        <5>3. Len(b) = 1 /\ b[1] = Key(p)[1]
          BY <1>2, <5>1, <5>2, TwoNamesApiece DEF Lists
        <5> QED BY <1>5, <1>6, <5>1, <5>2, <5>3
      <4>2. CASE Own(p, 1) /\ ~Listed(Key(p), 1)
        <5>1. ASSUME NEW j \in DOMAIN Plan, Len(Plan[j]) = 1, Plan[j][1] = o[1] PROVE FALSE
          <6>1. PICK b \in Paths : b = Plan[j]
            BY PlanIs
          <6>2. Above(b, Key(p)) /\ Len(b) = 1
            <7>1. Len(b) = 1 /\ b[1] = Key(p)[1]
              BY <1>5, <5>1, <6>1
            <7>2. Len(b) <= Len(Key(p))
              BY <1>2, <7>1
            <7> QED BY <7>1, <7>2 DEF Above
          <6> QED BY <4>2, <6>1, <6>2 DEF Listed, Lists
        <5> QED BY <1>5, <1>6, <2>2, <4>2, <5>1 DEF Own
      <4> QED BY <3>2, <4>1, <4>2
    <3> QED BY <1>2, <1>6, <2>2, <3>1, <3>3, TwoNamesApiece
  <2> QED BY <1>4, <2>1, <2>2
<1> QED BY <1>1, <1>3, <1>4, <1>5, <1>6, <1>7

\* The second pass passes over an entry: the invariant is kept.
LEMMA PlaceStays ==
    ASSUME Assumed, NamesInv, UNCHANGED title, Place, ~Exists(PlacingPath(step)), UNCHANGED named
    PROVE  NamesInv'
<1>1. NamesTypeOK /\ PlanOK /\ ControlOK /\ TreeOK /\ ConvertingOK /\ Spelt /\ Inner /\ Progress
  BY DEF NamesInv, TreeOK, ConvertingOK
<1>2. /\ stage = "placing" /\ step <= Len(Plan) /\ step' = step + 1
      /\ UNCHANGED <<title, named, record, up, stage, naming, known, clock, saved>>
  BY DEF Place, Advance, Plan
<1>3. step > 0 /\ record.state = "placing" /\ step \in DOMAIN Plan
  <2>1. step \in 0..Len(Plan) + 1 /\ step > 0 /\ record.state = "placing"
    BY <1>1, <1>2 DEF NamesTypeOK, ControlOK, Plan
  <2> QED BY <1>1, <1>2, <2>1, PlanIs
<1>4. /\ PlanOK' /\ TreeOK' /\ ConvertingOK'
      /\ \A i : Used(i)' <=> Used(i)
  BY <1>1, <1>2, Quiet
<1>5. NamesTypeOK' /\ ControlOK' /\ PlainOK'
  <2>1. step' \in 0..Len(record.plan) + 1
    BY <1>1, <1>2, <1>3, PlanIs DEF Plan
  <2>2. NamesTypeOK'
    BY <1>1, <1>2, <2>1 DEF NamesTypeOK
  <2>3. ControlOK'
    BY <1>1, <1>2, <1>3, PlanIs DEF ControlOK
  <2>4. PlainOK'
    BY <1>1, <1>2 DEF ControlOK, PlainOK, Nothing
  <2> QED BY <2>2, <2>3, <2>4
<1>6. ~Used(step)
  <2>1. ASSUME NEW p \in DOMAIN named, NEW n \in 1..Len(p), p[n] = Temporary[step] PROVE FALSE
    <3>1. Above(PlacingPath(step), p)
      BY <1>1, <1>3, <2>1, AsideIs
    <3>2. PlacingPath(step) \in Paths /\ DOMAIN named \subseteq Paths
      BY <1>1, <1>3, PlacingPathIs, FilesAre
    <3>3. Covers(p, PlacingPath(step))
      BY <3>1 DEF Covers, Above
    <3> QED BY <3>2, <3>3, AnswersAre
  <2> QED BY <2>1 DEF Used
<1>7. Progress'
  <2>1. \A j \in DOMAIN Plan : j < step + 1 => j < step \/ j = step
    BY <1>1, <1>3, PlanIs
  <2>2. \A j \in DOMAIN Plan : j < step + 1 => ~Used(j)
    BY <1>1, <1>2, <1>6, <2>1 DEF Progress
  <2>3. Plan' = Plan
    BY <1>2 DEF Plan
  <2> QED BY <1>2, <1>4, <2>2, <2>3 DEF Progress
<1> QED BY <1>4, <1>5, <1>7 DEF NamesInv

\* The second pass places an entry: the invariant is kept.
LEMMA PlaceMoves ==
    ASSUME Assumed, NamesInv, UNCHANGED title, Place,
           ~Exists(Destination), Exists(PlacingPath(step)), Rename(PlacingPath(step), Destination)
    PROVE  NamesInv'
<1>1. /\ NamesTypeOK /\ PlanOK /\ ControlOK /\ TreeOK /\ ConvertingOK /\ Spelt /\ KeysApart /\ FoldApart
      /\ Progress /\ Times /\ Kept
  BY DEF NamesInv, TreeOK
<1>2. OwnNewest /\ Sole /\ StayOwn /\ Inner /\ Proper
  BY <1>1 DEF ConvertingOK
<1>3. /\ stage = "placing" /\ step <= Len(Plan) /\ step' = step + 1
      /\ UNCHANGED <<title, record, up, stage, naming, known, clock, saved>>
  BY DEF Place, Advance, Plan
<1>4. step > 0 /\ record.state = "placing" /\ step \in DOMAIN Plan
  <2>1. step \in 0..Len(Plan) + 1 /\ step > 0 /\ record.state = "placing"
    BY <1>1, <1>3 DEF NamesTypeOK, ControlOK, Plan
  <2> QED BY <1>1, <1>3, <2>1, PlanIs
<1>5. PICK L : L = Len(Plan[step])
  OBVIOUS
<1>6. PICK T : T = Temporary[step]
  OBVIOUS
<1>7. PICK E : E = Encode[Plan[step][L]]
  OBVIOUS
<1>8. /\ (L = 1 \/ L = 2) /\ Plan[step] \in Paths
      /\ T \in Names /\ T \notin SegmentNames
      /\ Plan[step][L] \in Segments /\ E # Plan[step][L] /\ E \in SegmentNames /\ E \in Names
  <2>1. (L = 1 \/ L = 2) /\ Plan[step] \in Paths /\ T \in Names /\ T \notin SegmentNames
    BY <1>1, <1>4, <1>5, <1>6, PlanIs
  <2>2. Plan[step][L] \in Segments
    BY <1>1, <1>4, <1>5, <2>1, PlanIs
  <2>3. E # Plan[step][L]
    BY <1>1, <1>4, <1>5, <1>7 DEF PlanOK, Converts
  <2> QED BY <1>7, <2>1, <2>2, <2>3, NamesAre DEF Assumed, Names
<1>9. DOMAIN named \subseteq Paths /\ Apart(named)
  BY <1>1, FilesAre DEF FoldApart
<1>10. PICK o \in Paths : o = PlacingPath(step) /\ Len(o) = L /\ o[L] = T
  BY <1>1, <1>4, <1>5, <1>6, PlacingPathIs
<1>11. PICK to \in Paths : to = Destination /\ Len(to) = L /\ to[L] = E /\ (L = 2 => to[1] = o[1])
  <2>1. L \in 1..Len(o)
    BY <1>8, <1>10
  <2>2. /\ [o EXCEPT ![L] = E] \in Paths /\ Len([o EXCEPT ![L] = E]) = Len(o)
        /\ \A j \in 1..Len(o) : [o EXCEPT ![L] = E][j] = IF j = L THEN E ELSE o[j]
    BY <1>8, <2>1, Renames
  <2>3. Destination = [o EXCEPT ![L] = E]
    <3>1. Last(record.plan[step]) = Plan[step][L]
      BY <1>5, <1>8, LastIs DEF Plan
    <3> QED BY <1>5, <1>7, <1>10, <3>1 DEF Destination, Plan
  <2>4. [o EXCEPT ![L] = E][L] = E /\ (L = 2 => [o EXCEPT ![L] = E][1] = o[1])
    <3>1. L \in 1..Len(o) /\ (L = 2 => 1 \in 1..Len(o) /\ 1 # L)
      BY <1>8, <1>10
    <3> QED BY <2>2, <3>1
  <2> QED BY <1>10, <2>2, <2>3, <2>4
\* What moves is what has the temporary name.
<1>14. ASSUME NEW p \in DOMAIN named, NEW n \in 1..Len(p), p[n] = T
       PROVE  Above(o, p) /\ n = L /\ Lists(step, Key(p), L) /\ Key(p)[L] = Plan[step][L] /\ ~Own(p, L)
  BY <1>1, <1>2, <1>4, <1>5, <1>6, <1>10, <1>14, AsideIs
<1>15. ASSUME NEW p \in DOMAIN named, Above(o, p)
       PROVE  L \in 1..Len(p) /\ p[L] = T
  <2>1. p \in Paths /\ (Len(p) = 1 \/ Len(p) = 2)
    BY <1>1, FilesAre
  <2>2. L <= Len(p) /\ \A n \in 1..L : o[n] = p[n]
    BY <1>10, <1>15 DEF Above
  <2> QED BY <1>8, <1>10, <2>1, <2>2
<1>12. /\ \E m : Relocates(named, m, named') /\ Takes(named, m, o, E)
       /\ DOMAIN named' \subseteq Paths /\ Apart(named')
  <2>1. Len(o) = Len(to) /\ (Len(to) = 2 => o[1] = to[1]) /\ ~Exists(to) /\ Rename(o, to)
    BY <1>10, <1>11
  <2>2. \E e \in Paths :
                 /\ Meets(e, o) /\ \E p \in DOMAIN named : Above(e, p)
                 /\ \E m : Relocates(named, m, named') /\ Takes(named, m, e, to[Len(to)])
    BY <1>9, <2>1, RenameLast
  <2>3. PICK e \in Paths :
                 /\ Meets(e, o) /\ \E p \in DOMAIN named : Above(e, p)
                 /\ \E m : Relocates(named, m, named') /\ Takes(named, m, e, to[Len(to)])
    BY <2>2
  <2>4. PICK p \in DOMAIN named : Above(e, p)
    BY <2>3
  <2>5. p \in Paths /\ Len(e) = L
    BY <1>9, <1>10, <2>3 DEF Meets
  <2>6. Covers(p, o)
    BY <1>10, <2>3, <2>4, <2>5, TwoNamesApiece
  <2>7. L \in 1..Len(p) /\ p[L] = T
    BY <1>1, <1>4, <1>6, <1>8, <1>10, <2>6, Holds
  <2>8. Above(o, p)
    BY <1>14, <2>7
  <2>9. e = o
    BY <1>10, <2>4, <2>5, <2>8, TwoNamesApiece
  <2>10. DOMAIN named' \subseteq Paths
    BY <1>9, <2>1, RenameLast
  <2>11. Apart(named')
    BY <1>9, <2>1, RenameLast
  <2>12. to[Len(to)] = E
    BY <1>11
  <2> QED BY <2>3, <2>9, <2>10, <2>11, <2>12, Zenon
<1>13. PICK m : Relocates(named, m, named') /\ Takes(named, m, o, E)
  BY <1>12
<1>16. /\ Times' /\ Kept' /\ KeysApart'
       /\ \A q \in DOMAIN named' : named'[q] \in File
       /\ \A q \in DOMAIN named' : \E p \in DOMAIN named : q = m[p]
       /\ \A p \in DOMAIN named :
            m[p] \in DOMAIN named' /\ m[p] \in Paths /\ Len(m[p]) = Len(p)
            /\ Key(m[p])' = Key(p) /\ named'[m[p]].at = named[p].at
  BY <1>1, <1>3, <1>13, Relocated
<1>17. /\ \A p \in DOMAIN named : ~Above(o, p) => m[p] = p
       /\ \A p \in DOMAIN named : \A n \in 1..Len(p) : m[p][n] = IF Above(o, p) /\ n = L THEN E ELSE p[n]
  BY <1>9, <1>10, <1>13, TakesIs
<1>18. Plan' = Plan /\ \A i, k, n : (Lists(i, k, n)' <=> Lists(i, k, n)) /\ (Listed(k, n)' <=> Listed(k, n))
  BY <1>3 DEF Plan, Lists, Listed
<1>19. ASSUME NEW p \in DOMAIN named, NEW n \in 1..Len(p)
       PROVE  /\ n \in 1..Len(m[p]) /\ m[p][n] = (IF p[n] = T THEN E ELSE p[n])
              /\ Own(m[p], n)' <=> Own(p, n)
              /\ \A i \in DOMAIN Plan : m[p][n] = Temporary[i] <=> p[n] = Temporary[i] /\ i # step
  <2>1. m[p][n] = (IF p[n] = T THEN E ELSE p[n])
    BY <1>14, <1>15, <1>17
  <2>2. n \in 1..Len(m[p])
    BY <1>16
  <2>3. Own(m[p], n)' <=> m[p][n] = Key(p)[n]
    BY <1>16 DEF Own
  <2>4. p[n] = T => m[p][n] # Key(p)[n] /\ ~Own(p, n)
    BY <1>8, <1>14, <2>1
  <2>5. p[n] # T => (Own(p, n) <=> m[p][n] = Key(p)[n])
    BY <2>1 DEF Own
  <2>6. ASSUME NEW i \in DOMAIN Plan PROVE m[p][n] = Temporary[i] <=> p[n] = Temporary[i] /\ i # step
    <3>1. Temporary[i] \notin SegmentNames /\ (Temporary[i] = T => i = step)
      BY <1>1, <1>4, <1>6, PlanIs
    <3> QED BY <1>6, <1>8, <2>1, <3>1
  <2> QED BY <2>1, <2>2, <2>3, <2>4, <2>5, <2>6
<1>20. ASSUME NEW p \in DOMAIN named, NEW n \in 1..Len(p)
       PROVE  /\ Aside(m[p], n)' <=> Aside(p, n) /\ p[n] # T
              /\ p[n] = T => Placed(m[p], n)'
              /\ Placed(p, n) => Placed(m[p], n)'
  <2>1. Aside(m[p], n)' <=> \E i \in DOMAIN Plan : Lists(i, Key(p), n) /\ m[p][n] = Temporary[i]
    BY <1>16, <1>18 DEF Aside
  <2>2. Aside(m[p], n)' <=> Aside(p, n) /\ p[n] # T
    BY <1>1, <1>4, <1>6, <1>19, <2>1, PlanIs DEF Aside
  <2>3. Placed(m[p], n)' <=> Listed(Key(p), n) /\ m[p][n] = Encode[Key(p)[n]]
    <3>1. Key(m[p])' = Key(p)
      BY <1>16, <1>18
    <3>2. Placed(m[p], n)' <=> Listed(Key(m[p]), n)' /\ m[p][n] = Encode[Key(m[p])'[n]]
      BY DEF Placed
    <3>3. Listed(Key(m[p]), n)' <=> Listed(Key(p), n)
      BY <1>16, <1>18 DEF Listed, Lists
    <3> QED BY <3>1, <3>2, <3>3
  <2>4. p[n] = T => Placed(m[p], n)'
    BY <1>4, <1>7, <1>14, <1>19, <2>3 DEF Listed
  <2>5. ASSUME Placed(p, n) PROVE Placed(m[p], n)'
    <3>1. Listed(Key(p), n) /\ p[n] = Encode[Key(p)[n]]
      BY <2>5 DEF Placed
    <3>2. p[n] \in SegmentNames
      BY <1>1, <3>1, FilesAre, NamesAre DEF Assumed
    <3> QED BY <1>8, <1>19, <2>3, <3>1, <3>2
  <2> QED BY <2>2, <2>4, <2>5
<1>21. Spelt'
  <2>1. ASSUME NEW p \in DOMAIN named
        PROVE  Key(m[p])' \in title' /\ Len(m[p]) = Len(Key(m[p])') /\ \A n \in 1..Len(m[p]) : Reads(m[p], n)'
    <3>1. Key(p) \in title /\ Len(p) = Len(Key(p)) /\ \A n \in 1..Len(p) : Reads(p, n)
      BY <1>1 DEF Spelt
    <3>2. ASSUME NEW n \in 1..Len(p) PROVE Reads(m[p], n)'
      <4>1. Own(p, n) \/ Aside(p, n) \/ Placed(p, n)
        BY <1>4, <3>1 DEF Reads
      <4>2. Own(m[p], n)' \/ Aside(m[p], n)' \/ Placed(m[p], n)'
        BY <1>19, <1>20, <4>1
      <4> QED BY <1>3, <1>4, <4>2 DEF Reads
    <3> QED BY <1>3, <1>16, <3>1, <3>2
  <2> QED BY <1>16, <2>1 DEF Spelt
<1>22. TreeOK'
  BY <1>12, <1>16, <1>21 DEF TreeOK, FoldApart
<1>23. PlanOK'
  BY <1>1, <1>3 DEF PlanOK, Plan
<1>24. record'.state = "placing" /\ (Remakes' <=> Remakes) /\ \A s : Stays(s)' <=> Stays(s)
  BY <1>3, <1>4 DEF Remakes, Stays, NamesApart
<1>25. ASSUME NEW p \in DOMAIN named PROVE m[p] = Key(p) <=> p = Key(p)
  <2>1. p \in Paths /\ Key(p) \in Paths /\ m[p] \in Paths /\ Len(m[p]) = Len(p) /\ Len(Key(p)) = Len(p)
    BY <1>1, <1>16, FilesAre
  <2>2. \A n \in 1..Len(p) : m[p][n] = Key(p)[n] <=> p[n] = Key(p)[n]
    BY <1>16, <1>19 DEF Own
  <2> QED BY <2>1, <2>2, SamePath
<1>26. OwnNewest' /\ Sole'
  <2>1. ASSUME NEW p \in DOMAIN named, m[p] = Key(p) PROVE named'[m[p]].at = saved'[m[p]]
    BY <1>2, <1>3, <1>4, <1>16, <1>25, <2>1 DEF OwnNewest
  <2>2. ASSUME NEW p \in DOMAIN named, NEW q \in DOMAIN named, Key(p) = Key(q), m[p] # Key(p), m[q] # Key(q)
        PROVE  p = q
    BY <1>2, <1>4, <1>25, <2>2 DEF Sole
  <2>3. OwnNewest'
    BY <1>16, <2>1 DEF OwnNewest
  <2>4. Sole'
    BY <1>16, <2>2 DEF Sole
  <2> QED BY <2>3, <2>4
<1>27. StayOwn'
  <2>1. ASSUME NEW p \in DOMAIN named, NEW n \in 1..Len(m[p]), Own(m[p], n)' PROVE Stays(m[p][n])'
    <3>1. n \in 1..Len(p) /\ Own(p, n)
      BY <1>16, <1>19, <2>1
    <3>2. m[p][n] = p[n]
      BY <1>14, <1>19, <3>1
    <3> QED BY <1>2, <1>4, <1>24, <3>1, <3>2 DEF StayOwn
  <2> QED BY <1>16, <1>24, <2>1 DEF StayOwn
<1>28. Inner'
  <2>1. ASSUME NEW p \in DOMAIN named, Len(m[p]) = 2, Aside(m[p], 2)'
        PROVE  Aside(m[p], 1)' \/ (Own(m[p], 1)' /\ ~Listed(Key(m[p]), 1)')
    <3>1. Len(p) = 2
      BY <1>16, <2>1
    <3>2. 1 \in 1..Len(p) /\ 2 \in 1..Len(p)
      BY <3>1
    <3>3. Aside(p, 2) /\ p[2] # T
      BY <1>20, <2>1, <3>2
    <3>4. p[1] # T
      <4>1. ASSUME p[1] = T PROVE FALSE
        <5>1. L = 1 /\ Lists(step, Key(p), 1)
          BY <1>14, <3>2, <4>1
        <5>2. PICK j \in DOMAIN Plan : Lists(j, Key(p), 2) /\ p[2] = Temporary[j]
          BY <3>3 DEF Aside
        <5>3. Plan[step] \in Paths /\ Plan[j] \in Paths /\ Key(p) \in Paths
          BY <1>1, <1>8, PlanIs, FilesAre
        <5>4. Len(Plan[step]) = 1 /\ Len(Plan[j]) = 2 /\ Above(Plan[step], Key(p)) /\ Above(Plan[j], Key(p))
          BY <5>1, <5>2 DEF Lists
        <5>5. PICK a \in Paths, b \in Paths : a = Plan[step] /\ b = Plan[j]
          BY <5>3
        <5>6. Above(a, b)
          BY <5>3, <5>4, <5>5, TwoNamesApiece
        <5>7. j < step
          BY <1>1, <1>4, <5>4, <5>5, <5>6, PlanOrder
        <5>8. Used(j)
          BY <3>2, <5>2 DEF Used
        <5> QED BY <1>1, <1>3, <5>7, <5>8 DEF Progress
      <4> QED BY <4>1
    <3>5. Aside(p, 1) \/ (Own(p, 1) /\ ~Listed(Key(p), 1))
      BY <1>2, <1>4, <3>1, <3>3 DEF Inner
    <3>6. Listed(Key(m[p]), 1)' <=> Listed(Key(p), 1)
      BY <1>16, <1>18 DEF Listed, Lists
    <3> QED BY <1>19, <1>20, <3>2, <3>4, <3>5, <3>6
  <2> QED BY <1>16, <2>1 DEF Inner
<1>29. Proper'
  <2>1. ASSUME NEW p \in DOMAIN named, NEW n \in 1..Len(m[p]), Own(m[p], n)', Listed(Key(m[p]), n)'
        PROVE  m[p] = Key(m[p])'
    <3>1. n \in 1..Len(p) /\ Own(p, n)
      BY <1>16, <1>19, <2>1
    <3>2. Listed(Key(p), n)
      BY <1>16, <1>18, <2>1 DEF Listed, Lists
    <3>3. p = Key(p)
      BY <1>2, <1>4, <3>1, <3>2 DEF Proper
    <3> QED BY <1>16, <1>25, <3>3
  <2> QED BY <1>16, <2>1 DEF Proper
<1>30. Single' /\ Nested'
  BY <1>24 DEF Single, Nested
<1>31. ConvertingOK'
  BY <1>26, <1>27, <1>28, <1>29, <1>30 DEF ConvertingOK
<1>32. Progress'
  <2>1. ASSUME NEW j \in DOMAIN Plan, j < step + 1, Used(j)' PROVE FALSE
    <3>1. PICK q \in DOMAIN named' : \E n \in 1..Len(q) : q[n] = Temporary[j]
      BY <2>1 DEF Used
    <3>2. PICK p \in DOMAIN named : q = m[p]
      BY <1>16
    <3>3. PICK n \in 1..Len(p) : m[p][n] = Temporary[j]
      BY <1>16, <3>1, <3>2
    <3>4. p[n] = Temporary[j] /\ j # step
      BY <1>19, <3>3
    <3>5. j < step
      BY <1>1, <1>4, <2>1, <3>4, PlanIs
    <3> QED BY <1>1, <1>3, <3>4, <3>5 DEF Progress, Used
  <2> QED BY <1>3, <1>18, <2>1 DEF Progress
<1>33. NamesTypeOK' /\ ControlOK' /\ PlainOK'
  <2>1. step' \in 0..Len(record.plan) + 1
    BY <1>1, <1>3, <1>4, PlanIs DEF Plan
  <2>2. NamesTypeOK'
    BY <1>1, <1>3, <1>12, <1>16, <2>1 DEF NamesTypeOK
  <2>3. ControlOK'
    BY <1>1, <1>3, <1>4, PlanIs DEF ControlOK
  <2>4. PlainOK'
    BY <1>1, <1>3 DEF ControlOK, PlainOK, Nothing
  <2> QED BY <2>2, <2>3, <2>4
<1> QED BY <1>22, <1>23, <1>31, <1>32, <1>33 DEF NamesInv

\* A step that only changes what the record says.
LEMMA Recorded ==
    ASSUME Times, Kept, FoldApart, NamesTypeOK, UNCHANGED <<title, named, clock, saved>>
    PROVE  /\ Times' /\ Kept' /\ FoldApart'
           /\ \A p : Key(p)' = Key(p)
           /\ \A p, n : Own(p, n)' <=> Own(p, n)
           /\ \A s : Stays(s)' <=> Stays(s)
           /\ Remakes' <=> Remakes
           /\ \A i : Used(i)' <=> Used(i)
<1>1. Times' /\ Kept' /\ FoldApart'
  BY DEF Times, Kept, FoldApart, Key, Apart
<1>2. (\A p : Key(p)' = Key(p)) /\ \A p, n : Own(p, n)' <=> Own(p, n)
  BY DEF Key, Own
<1>3. (\A s : Stays(s)' <=> Stays(s)) /\ (Remakes' <=> Remakes)
  BY DEF Stays, NamesApart, Remakes
<1>4. \A i : Used(i)' <=> Used(i)
  BY DEF Used
<1> QED BY <1>1, <1>2, <1>3, <1>4

\* The first pass ends: the invariant is kept, for what has its own name stays.
LEMMA AllMovedStep ==
    ASSUME Assumed, NamesInv, UNCHANGED title, AllMoved
    PROVE  NamesInv'
<1>1. /\ NamesTypeOK /\ PlanOK /\ ControlOK /\ TreeOK /\ ConvertingOK /\ Spelt /\ KeysApart /\ FoldApart
      /\ Progress /\ Times /\ Kept
  BY DEF NamesInv, TreeOK
<1>2. OwnNewest /\ Sole /\ Single /\ StayOwn /\ Nested
  BY <1>1 DEF ConvertingOK
<1>3. /\ stage = "moving" /\ step = Len(Plan) + 1
      /\ stage' = "placing" /\ step' = 1 /\ record' = [record EXCEPT !.state = "placing"]
      /\ UNCHANGED <<title, named, up, naming, known, clock, saved>>
  BY DEF AllMoved, Plan
<1>4. record.state = "moving" /\ up /\ naming = Nothing
  BY <1>1, <1>3 DEF ControlOK
<1>5. record' \in [state : {"absent", "encoded", "moving", "placing"}, plan : Seq(Paths)]
      /\ record'.state = "placing" /\ Plan' = Plan
  BY <1>1, <1>3 DEF NamesTypeOK, Plan
<1>6. /\ Times' /\ Kept' /\ FoldApart' /\ (\A p : Key(p)' = Key(p)) /\ (\A p, n : Own(p, n)' <=> Own(p, n))
      /\ (\A s : Stays(s)' <=> Stays(s)) /\ (Remakes' <=> Remakes)
  BY <1>1, <1>3, Recorded
<1>7. \A i, k, n : (Lists(i, k, n)' <=> Lists(i, k, n)) /\ (Listed(k, n)' <=> Listed(k, n))
  BY <1>5 DEF Lists, Listed
<1>8. \A p, n : Aside(p, n)' <=> Aside(p, n)
  BY <1>5, <1>6, <1>7 DEF Aside, Lists
<1>9. Spelt'
  <2>1. ASSUME NEW p \in DOMAIN named, NEW n \in 1..Len(p) PROVE Reads(p, n)'
    <3>1. Own(p, n) \/ Aside(p, n)
      BY <1>1, <1>4 DEF Spelt, Reads
    <3>2. Own(p, n)' \/ Aside(p, n)'
      BY <1>6, <1>8, <3>1
    <3> QED BY <1>5, <3>2 DEF Reads
  <2> QED BY <1>1, <1>3, <1>6, <2>1 DEF Spelt
<1>10. TreeOK'
  BY <1>5, <1>6, <1>9 DEF TreeOK, KeysApart
<1>11. PlanOK'
  BY <1>1, <1>3, <1>5 DEF PlanOK
<1>12. OwnNewest' /\ Sole'
  BY <1>2, <1>3, <1>4, <1>6 DEF OwnNewest, Sole
\* What is still own and listed is a directory an earlier build put back.
<1>13. ASSUME NEW p \in DOMAIN named, NEW n \in 1..Len(p), Own(p, n), NEW i \in DOMAIN Plan, Lists(i, Key(p), n)
       PROVE  Stays(p[n]) /\ Remakes /\ (n = 2 => Own(p, 1))
  <2>1. p \in Paths /\ Key(p) \in Paths /\ Len(p) = Len(Key(p)) /\ (Len(p) = 1 \/ Len(p) = 2)
    BY <1>1, FilesAre
  <2>2. PICK b \in Paths : b = Plan[i] /\ (Len(b) = 1 \/ Len(b) = 2)
    BY <1>1, PlanIs
  <2>3. Len(b) = n /\ Above(b, Key(p))
    BY <1>13, <2>2 DEF Lists
  <2>4. n = 2 => Own(p, 1)
    <3>1. ASSUME n = 2 PROVE Own(p, 1)
      <4>1. Len(p) = 2 /\ Own(p, 2) /\ Listed(Key(p), 2)
        <5>1. Len(p) = 2
          BY <2>1, <3>1
        <5> QED BY <1>13, <3>1, <5>1 DEF Listed
      <4> QED BY <1>2, <1>4, <4>1 DEF Nested
    <3> QED BY <3>1
  <2>5. Above(b, p) /\ b[n] = p[n]
    <3>1. CASE n = 1
      BY <1>13, <2>1, <2>3, <3>1, TwoNamesApiece DEF Own
    <3>2. CASE n = 2
      BY <1>13, <2>1, <2>3, <2>4, <3>2, TwoNamesApiece DEF Own
    <3> QED BY <2>2, <2>3, <3>1, <3>2
  <2>6. i < step
    BY <1>1, <1>3, PlanIs
  <2>7. Stays(Plan[i][Len(Plan[i])]) /\ Remakes
    BY <1>1, <1>3, <2>2, <2>5, <2>6 DEF Progress
  <2> QED BY <2>2, <2>3, <2>4, <2>5, <2>7
<1>14. StayOwn'
  <2>1. ASSUME NEW p \in DOMAIN named, NEW n \in 1..Len(p), Own(p, n) PROVE Stays(p[n])
    <3>1. CASE Listed(Key(p), n)
      BY <1>13, <2>1, <3>1 DEF Listed
    <3>2. CASE ~Listed(Key(p), n)
      BY <1>2, <1>4, <2>1, <3>2 DEF StayOwn
    <3> QED BY <3>1, <3>2
  <2> QED BY <1>3, <1>5, <1>6, <2>1 DEF StayOwn
<1>15. Inner'
  <2>1. ASSUME NEW p \in DOMAIN named, Len(p) = 2, Aside(p, 2)
        PROVE  Aside(p, 1) \/ (Own(p, 1) /\ ~Listed(Key(p), 1))
    <3>1. 1 \in 1..Len(p) /\ 2 \in 1..Len(p)
      BY <2>1
    <3>2. Own(p, 1) \/ Aside(p, 1)
      BY <1>1, <1>4, <3>1 DEF Spelt, Reads
    <3>3. ASSUME Own(p, 1), Listed(Key(p), 1) PROVE FALSE
      <4>1. PICK i \in DOMAIN Plan : Lists(i, Key(p), 1)
        BY <3>3 DEF Listed
      <4>2. Remakes
        BY <1>13, <3>1, <3>3, <4>1
      <4>3. PICK j \in DOMAIN Plan : Lists(j, Key(p), 2)
        BY <2>1 DEF Aside
      <4>4. PICK a \in Paths, b \in Paths : a = Plan[i] /\ b = Plan[j]
        BY <1>1, PlanIs
      <4>5. Len(a) = 1 /\ Above(a, Key(p)) /\ Len(b) = 2 /\ Above(b, Key(p))
        BY <4>1, <4>3, <4>4 DEF Lists
      <4>6. Key(p) \in Paths /\ Key(p) \in title /\ Len(Key(p)) = 2
        BY <1>1, <2>1, FilesAre
      <4>7. a[1] = Key(p)[1] /\ b[2] = Key(p)[2]
        BY <4>5, <4>6, TwoNamesApiece
      <4>8. Converts(a[1]) /\ Converts(b[2])
        BY <1>1, <4>4, <4>5 DEF PlanOK
      <4> QED BY <1>1, <4>2, <4>6, <4>7, <4>8 DEF Assumed, DirectoriesAssumption, Remakes, NamesTypeOK
    <3> QED BY <3>2, <3>3
  <2>2. \A p : Listed(Key(p), 1)' <=> Listed(Key(p), 1)
    BY <1>5, <1>6 DEF Listed, Lists
  <2> QED BY <1>3, <1>6, <1>8, <2>1, <2>2 DEF Inner
<1>16. Proper'
  <2>1. ASSUME NEW p \in DOMAIN named, NEW n \in 1..Len(p), Own(p, n), Listed(Key(p), n)
        PROVE  p = Key(p)
    <3>1. PICK i \in DOMAIN Plan : Lists(i, Key(p), n)
      BY <2>1 DEF Listed
    <3>2. Remakes /\ (n = 2 => Own(p, 1))
      BY <1>13, <2>1, <3>1
    <3>3. p \in Paths /\ Key(p) \in Paths /\ Key(p) \in title /\ Len(p) = Len(Key(p)) /\ (Len(p) = 1 \/ Len(p) = 2)
          /\ \A a \in 1..Len(p) : Own(p, a) \/ Aside(p, a)
      BY <1>1, <1>4, FilesAre DEF Reads
    <3>4. CASE Len(p) = 1
      <4>1. n = 1 /\ \A a \in 1..Len(p) : a = 1
        BY <3>4
      <4>2. \A a \in 1..Len(p) : Own(p, a)
        BY <2>1, <4>1
      <4> QED BY <1>1, <4>2, AllOwn
    <3>5. CASE Len(p) = 2 /\ n = 2
      <4>1. \A a \in 1..Len(p) : Own(p, a)
        <5>1. Own(p, 1) /\ Own(p, 2) /\ Len(p) = 2
          BY <2>1, <3>2, <3>5
        <5> QED BY <5>1
      <4> QED BY <1>1, <4>1, AllOwn
    <3>6. CASE Len(p) = 2 /\ n = 1
      <4>1. 2 \in 1..Len(p)
        BY <3>6
      <4>2. ASSUME Aside(p, 2) PROVE FALSE
        <5>1. PICK j \in DOMAIN Plan : Lists(j, Key(p), 2)
          BY <4>2 DEF Aside
        <5>2. PICK a \in Paths, b \in Paths : a = Plan[i] /\ b = Plan[j]
          BY <1>1, PlanIs
        <5>3. Len(a) = 1 /\ Above(a, Key(p)) /\ Len(b) = 2 /\ Above(b, Key(p))
          BY <3>1, <3>6, <5>1, <5>2 DEF Lists
        <5>4. a[1] = Key(p)[1] /\ b[2] = Key(p)[2]
          BY <3>3, <5>3, TwoNamesApiece
        <5>5. Converts(a[1]) /\ Converts(b[2])
          BY <1>1, <5>2, <5>3 DEF PlanOK
        <5> QED BY <1>1, <3>2, <3>3, <3>6, <5>4, <5>5 DEF Assumed, DirectoriesAssumption, Remakes, NamesTypeOK
      <4>3. Own(p, 2)
        BY <3>3, <4>1, <4>2
      <4>4. \A a \in 1..Len(p) : a = 1 \/ a = 2
        BY <3>6
      <4>5. \A a \in 1..Len(p) : Own(p, a)
        BY <2>1, <3>6, <4>3, <4>4
      <4> QED BY <1>1, <4>5, AllOwn
    <3>7. n = 1 \/ n = 2
      BY <3>3
    <3>8. Len(p) = 1 \/ (Len(p) = 2 /\ n = 2) \/ (Len(p) = 2 /\ n = 1)
      BY <3>3, <3>7
    <3> QED BY <3>4, <3>5, <3>6, <3>8
  <2>2. \A p, n : Listed(Key(p), n)' <=> Listed(Key(p), n)
    BY <1>5, <1>6 DEF Listed, Lists
  <2> QED BY <1>3, <1>6, <2>1, <2>2 DEF Proper
<1>17. Single' /\ Nested'
  BY <1>5 DEF Single, Nested
<1>18. ConvertingOK'
  BY <1>12, <1>14, <1>15, <1>16, <1>17 DEF ConvertingOK
<1>19. Progress'
  <2>1. \A j \in DOMAIN Plan : ~(j < 1)
    BY <1>1, PlanIs
  <2> QED BY <1>3, <1>5, <2>1 DEF Progress
<1>20. NamesTypeOK' /\ ControlOK' /\ PlainOK'
  <2>1. step' \in 0..Len(record'.plan) + 1
    BY <1>1, <1>3, <1>5, PlanIs DEF Plan
  <2>2. NamesTypeOK'
    BY <1>1, <1>3, <1>5, <2>1 DEF NamesTypeOK
  <2>3. ControlOK'
    BY <1>3, <1>4, <1>5 DEF ControlOK
  <2>4. PlainOK'
    BY <1>3, <1>4 DEF PlainOK, Nothing
  <2> QED BY <2>2, <2>3, <2>4
<1> QED BY <1>10, <1>11, <1>18, <1>19, <1>20 DEF NamesInv

\* The second pass ends: no temporary name is left and the invariant is kept.
LEMMA AllPlacedStep ==
    ASSUME Assumed, NamesInv, UNCHANGED title, AllPlaced
    PROVE  NamesInv'
<1>1. /\ NamesTypeOK /\ PlanOK /\ ControlOK /\ TreeOK /\ ConvertingOK /\ Spelt /\ FoldApart
      /\ Progress /\ Times /\ Kept /\ StayOwn
  BY DEF NamesInv, TreeOK, ConvertingOK
<1>2. /\ stage = "placing" /\ step = Len(Plan) + 1 /\ record' = [state |-> "encoded", plan |-> <<>>]
      /\ stage' = "settled" /\ step' = 0 /\ naming' = "encoded" /\ known' = Nothing
      /\ UNCHANGED <<title, named, up, clock, saved>>
  BY DEF AllPlaced, Settled, Plan
<1>3. record.state = "placing" /\ up
  BY <1>1, <1>2 DEF ControlOK
<1>4. record'.state = "encoded" /\ Plan' = <<>> /\ record'.plan = <<>>
  BY <1>2 DEF Plan
<1>5. /\ Times' /\ Kept' /\ FoldApart' /\ (\A p : Key(p)' = Key(p)) /\ (\A p, n : Own(p, n)' <=> Own(p, n))
      /\ (\A s : Stays(s)' <=> Stays(s)) /\ (Remakes' <=> Remakes)
  BY <1>1, <1>2, Recorded
<1>6. \A i \in DOMAIN Plan : ~Used(i)
  <2>1. \A i \in DOMAIN Plan : i < step
    BY <1>1, <1>2, PlanIs
  <2> QED BY <1>1, <1>2, <2>1 DEF Progress
<1>7. Spelt'
  <2>1. ASSUME NEW p \in DOMAIN named, NEW n \in 1..Len(p) PROVE Reads(p, n)'
    <3>1. Own(p, n) \/ Aside(p, n) \/ Placed(p, n)
      BY <1>1, <1>3 DEF Spelt, Reads
    <3>2. ~Aside(p, n)
      BY <1>6 DEF Aside, Used
    <3>3. Placed(p, n) => Encoded(p, n)
      <4>1. ASSUME Placed(p, n) PROVE Key(p)[n] \notin Long
        <5>1. PICK i \in DOMAIN Plan : Lists(i, Key(p), n)
          BY <4>1 DEF Placed, Listed
        <5>2. PICK b \in Paths : b = Plan[i]
          BY <1>1, PlanIs
        <5>3. Len(b) = n /\ Above(b, Key(p)) /\ Converts(b[n]) /\ Key(p) \in Paths /\ (Len(b) = 1 \/ Len(b) = 2)
          BY <1>1, <5>1, <5>2, FilesAre, TwoNames DEF Lists, PlanOK
        <5>4. b[n] = Key(p)[n]
          BY <5>3, LastAbove
        <5> QED BY <5>3, <5>4 DEF Converts
      <4> QED BY <4>1 DEF Placed, Encoded
    <3>4. Encoded(p, n)' <=> Encoded(p, n)
      BY <1>5 DEF Encoded
    <3> QED BY <1>4, <1>5, <3>1, <3>2, <3>3, <3>4 DEF Reads
  <2> QED BY <1>1, <1>2, <1>5, <2>1 DEF Spelt
<1>8. TreeOK' /\ PlanOK'
  <2>1. PlanOK'
    BY <1>4 DEF PlanOK
  <2> QED BY <1>4, <1>5, <1>7, <2>1 DEF TreeOK, KeysApart
<1>9. StayOwn'
  BY <1>1, <1>2, <1>3, <1>4, <1>5 DEF StayOwn
<1>10. ConvertingOK'
  BY <1>4, <1>9 DEF ConvertingOK, OwnNewest, Sole, Single, Inner, Proper, Nested
<1>11. NamesTypeOK'
  <2>1. record' \in [state : {"absent", "encoded", "moving", "placing"}, plan : Seq(Paths)] /\ Len(record'.plan) = 0
    BY <1>2
  <2> QED BY <1>1, <1>2, <2>1 DEF NamesTypeOK
<1>12. ControlOK' /\ PlainOK' /\ Progress'
  BY <1>2, <1>3, <1>4 DEF ControlOK, PlainOK, Progress
<1> QED BY <1>8, <1>10, <1>11, <1>12 DEF NamesInv

\* An undo ends: no temporary name is left and the invariant is kept.
LEMMA UndoneStep ==
    ASSUME Assumed, NamesInv, UNCHANGED title, Undone
    PROVE  NamesInv'
<1>1. /\ NamesTypeOK /\ PlanOK /\ ControlOK /\ TreeOK /\ ConvertingOK /\ Spelt /\ FoldApart
      /\ Progress /\ Times /\ Kept
  BY DEF NamesInv, TreeOK
<1>2. /\ stage = "undoing" /\ step = 0 /\ record' = [state |-> "absent", plan |-> <<>>]
      /\ stage' = "settled" /\ step' = 0 /\ naming' = "earlier" /\ known' = "earlier"
      /\ UNCHANGED <<title, named, up, clock, saved>>
  BY DEF Undone, Settled, Unconverted
<1>3. record.state = "moving" /\ up
  BY <1>1, <1>2 DEF ControlOK
<1>4. record'.state = "absent" /\ Plan' = <<>> /\ record'.plan = <<>>
  BY <1>2 DEF Plan
<1>5. /\ Times' /\ Kept' /\ FoldApart' /\ (\A p : Key(p)' = Key(p)) /\ (\A p, n : Own(p, n)' <=> Own(p, n))
  BY <1>1, <1>2, Recorded
<1>6. \A i \in DOMAIN Plan : ~Used(i)
  <2>1. \A i \in DOMAIN Plan : i > step
    BY <1>1, <1>2, PlanIs
  <2> QED BY <1>1, <1>2, <2>1 DEF Progress
<1>7. Spelt'
  <2>1. ASSUME NEW p \in DOMAIN named, NEW n \in 1..Len(p) PROVE Reads(p, n)'
    <3>1. Own(p, n) \/ Aside(p, n)
      BY <1>1, <1>3 DEF Spelt, Reads
    <3>2. ~Aside(p, n)
      BY <1>6 DEF Aside, Used
    <3> QED BY <1>5, <3>1, <3>2 DEF Reads
  <2> QED BY <1>1, <1>2, <1>5, <2>1 DEF Spelt
<1>8. TreeOK' /\ PlanOK'
  <2>1. PlanOK'
    BY <1>4 DEF PlanOK
  <2> QED BY <1>4, <1>5, <1>7, <2>1 DEF TreeOK, KeysApart
<1>9. ConvertingOK'
  BY <1>4 DEF ConvertingOK, OwnNewest, Sole, Single, StayOwn, Inner, Proper, Nested
<1>10. NamesTypeOK'
  <2>1. record' \in [state : {"absent", "encoded", "moving", "placing"}, plan : Seq(Paths)] /\ Len(record'.plan) = 0
    BY <1>2
  <2> QED BY <1>1, <1>2, <2>1 DEF NamesTypeOK
<1>11. ControlOK' /\ PlainOK' /\ Progress'
  BY <1>2, <1>3, <1>4 DEF ControlOK, PlainOK, Progress
<1> QED BY <1>8, <1>9, <1>10, <1>11 DEF NamesInv

\* The plan lists a directory or a file once.
LEMMA OneEntry ==
    ASSUME Assumed, NamesTypeOK, PlanOK, NEW k \in Paths, NEW n,
           NEW i \in DOMAIN Plan, NEW j \in DOMAIN Plan, Lists(i, k, n), Lists(j, k, n)
    PROVE  i = j
<1>1. PICK a \in Paths, b \in Paths : a = Plan[i] /\ b = Plan[j]
  BY PlanIs
<1>2. Len(a) = n /\ Len(b) = n /\ Above(a, k) /\ Above(b, k)
  BY <1>1 DEF Lists
<1>3. a = b
  BY <1>2, TwoNamesApiece
<1> QED BY <1>1, <1>3 DEF PlanOK

\* In an undo a temporary name is found where the undo looks for it.
LEMMA BackIs ==
    ASSUME Assumed, NamesTypeOK, PlanOK, Spelt, Progress, stage = "undoing", record.state = "moving",
           step \in DOMAIN Plan
    PROVE  /\ \A p \in DOMAIN named : \A n \in 1..Len(p) : p[n] = Temporary[step] =>
                 n = Len(Plan[step]) /\ Lists(step, Key(p), n) /\ ~Own(p, n) /\ Above(TemporaryPath(step), p)
           /\ \A p \in DOMAIN named : Above(TemporaryPath(step), p) =>
                 Len(Plan[step]) \in 1..Len(p) /\ p[Len(Plan[step])] = Temporary[step]
           /\ Used(step) => Exists(TemporaryPath(step))
           /\ \A e \in Paths : Meets(e, TemporaryPath(step)) /\ (\E p \in DOMAIN named : Above(e, p))
                 => e = TemporaryPath(step)
<1>1. PICK o \in Paths : o = Plan[step] /\ (Len(o) = 1 \/ Len(o) = 2)
  BY PlanIs
<1>2. PICK f \in Paths :
        f = TemporaryPath(step) /\ Len(f) = Len(o) /\ f[Len(o)] = Temporary[step] /\ (Len(o) = 2 => f[1] = o[1])
  BY <1>1, TemporaryPathIs
<1>3. ASSUME NEW p \in DOMAIN named, NEW n \in 1..Len(p), p[n] = Temporary[step]
      PROVE  n = Len(o) /\ Lists(step, Key(p), n) /\ ~Own(p, n) /\ Above(f, p)
  <2>1. Lists(step, Key(p), n) /\ ~Own(p, n)
    BY <1>3, TemporaryIs
  <2>2. Len(o) = n /\ Above(o, Key(p))
    BY <1>1, <2>1 DEF Lists
  <2>3. p \in Paths /\ Key(p) \in Paths /\ Len(p) = Len(Key(p)) /\ (Len(p) = 1 \/ Len(p) = 2)
        /\ \A a \in 1..Len(p) : Reads(p, a)
    BY FilesAre
  <2>4. CASE n = 1
    <3>1. f[1] = p[1] /\ Len(f) = 1
      BY <1>2, <1>3, <2>2, <2>4
    <3>2. Above(f, p)
      BY <2>3, <3>1, TwoNamesApiece
    <3> QED BY <2>1, <2>2, <2>4, <3>2
  <2>5. CASE n = 2
    <3>1. Len(p) = 2 /\ 1 \in 1..Len(p)
      BY <2>3, <2>5
    <3>2. Own(p, 1) \/ Aside(p, 1)
      BY <2>3, <3>1 DEF Reads
    <3>3. ASSUME Aside(p, 1) PROVE FALSE
      <4>1. PICK j \in DOMAIN Plan : Lists(j, Key(p), 1) /\ p[1] = Temporary[j]
        BY <3>3 DEF Aside
      <4>2. PICK b \in Paths : b = Plan[j]
        BY PlanIs
      <4>3. Len(b) = 1 /\ Above(b, Key(p))
        BY <4>1, <4>2 DEF Lists
      <4>4. Above(b, o)
        BY <2>2, <2>3, <2>5, <4>3, TwoNamesApiece
      <4>5. step < j
        BY <1>1, <2>2, <2>5, <4>2, <4>3, <4>4, PlanOrder
      <4>6. Used(j)
        BY <3>1, <4>1 DEF Used
      <4>7. j > step
        BY <4>5, PlanIs
      <4> QED BY <4>6, <4>7 DEF Progress
    <3>4. p[1] = f[1]
      BY <1>2, <2>2, <2>3, <2>5, <3>2, <3>3, TwoNamesApiece DEF Own
    <3>5. f[2] = p[2] /\ Len(f) = 2
      BY <1>2, <1>3, <2>2, <2>5
    <3>6. Above(f, p)
      BY <2>3, <3>1, <3>4, <3>5, TwoNamesApiece
    <3> QED BY <2>1, <2>2, <2>5, <3>6
  <2>6. n = 1 \/ n = 2
    BY <2>3
  <2> QED BY <2>1, <2>2, <2>4, <2>5, <2>6
<1>4. \A p \in DOMAIN named : p \in Paths
  BY FilesAre
<1>5. ASSUME NEW p \in DOMAIN named, Above(f, p) PROVE Len(o) \in 1..Len(p) /\ p[Len(o)] = Temporary[step]
  BY <1>2, <1>4, <1>5, LastAbove
<1>6. ASSUME NEW p \in DOMAIN named, Above(f, p) PROVE Exists(f)
  <2>1. Covers(p, f)
    BY <1>6 DEF Covers, Above
  <2> QED BY <2>1, FilesAre, AnswersAre
<1>7. Used(step) => Exists(f)
  BY <1>3, <1>6 DEF Used
<1>8. ASSUME NEW e \in Paths, Meets(e, f), NEW p \in DOMAIN named, Above(e, p) PROVE e = f
  <2>1. p \in Paths
    BY <1>4
  <2>2. Covers(p, f)
    BY <1>8, <2>1, TwoNamesApiece
  <2>3. Len(o) \in 1..Len(f)
    BY <1>1, <1>2
  <2>4. Len(o) \in 1..Len(p) /\ p[Len(o)] = Temporary[step]
    BY <1>2, <2>2, <2>3, Holds
  <2>5. Above(f, p)
    BY <1>3, <2>4
  <2>6. Len(e) = Len(f)
    BY <1>8 DEF Meets
  <2> QED BY <1>8, <2>1, <2>5, <2>6, TwoNamesApiece
<1> HIDE <1>2
<1>9. f = TemporaryPath(step) /\ o = Plan[step]
  BY <1>1, <1>2
<1> QED BY <1>3, <1>5, <1>7, <1>8, <1>9

\* An undo passes over an entry: the invariant is kept.
LEMMA MoveBackStays ==
    ASSUME Assumed, NamesInv, stage = "undoing", step > 0, ~Exists(TemporaryPath(step)), step' = step - 1,
           UNCHANGED <<title, named, record, up, stage, naming, known, clock, saved>>
    PROVE  NamesInv'
<1>1. NamesTypeOK /\ PlanOK /\ ControlOK /\ TreeOK /\ ConvertingOK /\ Spelt /\ Progress
  BY DEF NamesInv, TreeOK
<1>2. record.state = "moving" /\ step \in DOMAIN Plan /\ up /\ step <= Len(Plan) /\ step \in Nat
  <2>1. step \in 0..Len(Plan) + 1 /\ step <= Len(Plan) /\ record.state = "moving" /\ up
    BY <1>1 DEF NamesTypeOK, ControlOK, Plan
  <2> QED BY <1>1, <2>1, PlanIs
<1>3. /\ PlanOK' /\ TreeOK' /\ ConvertingOK'
      /\ \A i : Used(i)' <=> Used(i)
  BY <1>1, Quiet
<1>4. ~Used(step)
  BY <1>1, <1>2, BackIs
<1>5. NamesTypeOK' /\ ControlOK' /\ PlainOK'
  <2>1. step' \in 0..Len(record.plan) + 1 /\ step' <= Len(Plan)
    BY <1>1, <1>2, PlanIs DEF Plan
  <2>2. NamesTypeOK'
    BY <1>1, <1>2, <2>1 DEF NamesTypeOK
  <2>3. ControlOK'
    <3>1. Plan' = Plan /\ naming = Nothing
      BY <1>1 DEF ControlOK, Plan
    <3> QED BY <1>2, <2>1, <3>1 DEF ControlOK
  <2>4. PlainOK'
    BY <1>1, <1>2 DEF ControlOK, PlainOK, Nothing
  <2> QED BY <2>2, <2>3, <2>4
<1>6. Progress'
  <2>1. \A j \in DOMAIN Plan : j > step - 1 => j > step \/ j = step
    BY <1>1, <1>2, PlanIs
  <2>2. \A j \in DOMAIN Plan : j > step - 1 => ~Used(j)
    BY <1>1, <1>4, <2>1 DEF Progress
  <2>3. Plan' = Plan
    BY DEF Plan
  <2> QED BY <1>3, <2>2, <2>3 DEF Progress
<1> QED BY <1>3, <1>5, <1>6 DEF NamesInv

\* Files whose own name holds a later one go.
LEMMA Drops ==
    ASSUME Assumed, NamesInv, stage = "undoing",
           DOMAIN named' \subseteq DOMAIN named, \A q \in DOMAIN named' : named'[q] = named[q],
           \A r \in DOMAIN named : r \notin DOMAIN named' =>
               r # Key(r) /\ Key(r) \in DOMAIN named /\ Key(Key(r)) = Key(r),
           UNCHANGED <<title, record, up, stage, step, naming, known, clock, saved>>
    PROVE  NamesInv'
<1>1. NamesTypeOK /\ PlanOK /\ ControlOK /\ TreeOK /\ ConvertingOK /\ Spelt /\ Progress /\ FoldApart /\ KeysApart
      /\ Times /\ Kept
  BY DEF NamesInv, TreeOK
<1>2. OwnNewest /\ Sole /\ Single /\ StayOwn /\ Nested
  BY <1>1 DEF ConvertingOK
<1>3. record.state = "moving" /\ record'.state = "moving" /\ naming = Nothing
  BY <1>1 DEF ControlOK
<1>4. Plan' = Plan /\ \A i, k, n : (Lists(i, k, n)' <=> Lists(i, k, n)) /\ (Listed(k, n)' <=> Listed(k, n))
  BY DEF Plan, Lists, Listed
<1>5. \A p \in DOMAIN named' : p \in DOMAIN named /\ Key(p)' = Key(p) /\ named'[p].at = named[p].at
  BY DEF Key
<1>6. \A p \in DOMAIN named' : \A n \in 1..Len(p) : (Own(p, n)' <=> Own(p, n)) /\ (Aside(p, n)' <=> Aside(p, n))
  BY <1>4, <1>5 DEF Own, Aside
<1>7. (Remakes' <=> Remakes) /\ \A s : Stays(s)' <=> Stays(s)
  BY DEF Remakes, Stays, NamesApart
<1>8. \A i : Used(i)' => Used(i)
  BY <1>5 DEF Used
<1>9. Spelt'
  <2>1. ASSUME NEW p \in DOMAIN named', NEW n \in 1..Len(p) PROVE Reads(p, n)'
    <3>1. Own(p, n) \/ Aside(p, n)
      BY <1>1, <1>3, <1>5 DEF Spelt, Reads
    <3> QED BY <1>3, <1>6, <3>1 DEF Reads
  <2>2. \A p \in DOMAIN named' : Key(p)' \in title' /\ Len(p) = Len(Key(p)')
    BY <1>1, <1>5 DEF Spelt
  <2> QED BY <2>1, <2>2 DEF Spelt
<1>10. FoldApart'
  BY <1>1, <1>5 DEF FoldApart, Apart
<1>11. KeysApart'
  BY <1>1, <1>3, <1>4, <1>5 DEF KeysApart
<1>12. Times'
  <2>1. \A k \in title' : saved'[k] <= clock'
    BY <1>1 DEF Times
  <2>2. \A q \in DOMAIN named' : named'[q].at <= saved'[Key(q)']
    BY <1>1, <1>5 DEF Times
  <2>3. \A p, q \in DOMAIN named' : Key(p)' = Key(q)' /\ named'[p].at = named'[q].at => p = q
    BY <1>1, <1>5 DEF Times
  <2> QED BY <2>1, <2>2, <2>3 DEF Times
<1>13. Kept'
  <2>1. ASSUME NEW k \in title, saved[k] # 0
        PROVE  \E q \in DOMAIN named' : Key(q) = k /\ named[q].at = saved[k]
    <3>1. PICK p \in DOMAIN named : Key(p) = k /\ named[p].at = saved[k]
      BY <1>1, <2>1 DEF Kept
    <3>2. CASE p \notin DOMAIN named'
      <4>1. k \in DOMAIN named /\ Key(k) = k
        BY <3>1, <3>2
      <4>2. k \in DOMAIN named'
        BY <4>1
      <4>3. named[k].at = saved[k]
        BY <1>2, <1>3, <4>1 DEF OwnNewest
      <4> QED BY <4>1, <4>2, <4>3
    <3> QED BY <3>1, <3>2
  <2> QED BY <1>5, <2>1 DEF Kept
<1>14. TreeOK'
  BY <1>9, <1>10, <1>11, <1>12, <1>13 DEF TreeOK
<1>15. PlanOK'
  BY <1>1 DEF PlanOK, Plan
<1>16. OwnNewest' /\ Sole' /\ Single'
  <2>1. OwnNewest'
    BY <1>2, <1>3, <1>5 DEF OwnNewest
  <2>2. Sole'
    BY <1>2, <1>3, <1>5 DEF Sole
  <2>3. Single'
    BY <1>2, <1>3, <1>5, <1>7 DEF Single
  <2> QED BY <2>1, <2>2, <2>3
<1>17. StayOwn'
  <2>1. ASSUME NEW p \in DOMAIN named', NEW n \in 1..Len(p), Own(p, n)'
        PROVE  /\ ~Listed(Key(p), n)' => Stays(p[n])'
               /\ \A i \in DOMAIN Plan' : Lists(i, Key(p), n)' /\ Used(i)' => (Stays(p[n]) /\ Remakes)'
    <3>1. Own(p, n) /\ p \in DOMAIN named /\ Key(p)' = Key(p)
      BY <1>5, <1>6, <2>1
    <3>2. /\ ~Listed(Key(p), n) => Stays(p[n])
          /\ \A i \in DOMAIN Plan : Lists(i, Key(p), n) /\ Used(i) => Stays(p[n]) /\ Remakes
      BY <1>2, <1>3, <3>1 DEF StayOwn
    <3>3. (Listed(Key(p), n)' <=> Listed(Key(p), n)) /\ \A i : Lists(i, Key(p), n)' <=> Lists(i, Key(p), n)
      BY <1>4, <3>1 DEF Lists, Listed
    <3> QED BY <1>4, <1>7, <1>8, <3>2, <3>3
  <2> QED BY <1>3, <2>1 DEF StayOwn
<1>18. Nested'
  <2>1. ASSUME NEW p \in DOMAIN named', Len(p) = 2, Own(p, 2)', Listed(Key(p), 2)' PROVE Own(p, 1)'
    <3>1. 1 \in 1..Len(p) /\ 2 \in 1..Len(p)
      BY <2>1
    <3>2. Own(p, 2) /\ Listed(Key(p), 2)
      BY <1>4, <1>5, <1>6, <2>1, <3>1 DEF Lists, Listed
    <3> QED BY <1>2, <1>3, <1>5, <1>6, <2>1, <3>1, <3>2 DEF Nested
  <2> QED BY <2>1 DEF Nested
<1>19. ConvertingOK'
  BY <1>3, <1>16, <1>17, <1>18 DEF ConvertingOK, Inner, Proper
<1>20. Progress'
  BY <1>1, <1>4, <1>8 DEF Progress
<1>21. NamesTypeOK' /\ ControlOK' /\ PlainOK'
  <2>1. NamesTypeOK'
    BY <1>1, <1>5 DEF NamesTypeOK
  <2>2. ControlOK'
    BY <1>1, <1>4 DEF ControlOK
  <2> QED BY <1>3, <2>1, <2>2 DEF PlainOK, Nothing
<1> QED BY <1>14, <1>15, <1>19, <1>20, <1>21 DEF NamesInv

\* Names go back from the entry's temporary name to their own, where nothing is.
LEMMA Returns ==
    ASSUME Assumed, NamesInv, stage = "undoing", step \in DOMAIN Plan,
           NEW m, Relocates(named, m, named'),
           DOMAIN named' \subseteq Paths, Apart(named'),
           \A p \in DOMAIN named : \A n \in 1..Len(p) :
               m[p][n] = p[n] \/ (p[n] = Temporary[step] /\ m[p][n] = Key(p)[n]),
           \A p \in DOMAIN named : \A n \in 1..Len(p) : m[p][n] # p[n] =>
               /\ ~(Key(p) \in DOMAIN named /\ Key(Key(p)) = Key(p))
               /\ n = 2 => Own(p, 1)
               /\ Used(step)' => Stays(Key(p)[n]) /\ Remakes,
           UNCHANGED <<title, record, up, stage, step, naming, known, clock, saved>>
    PROVE  NamesInv'
<1>1. NamesTypeOK /\ PlanOK /\ ControlOK /\ TreeOK /\ ConvertingOK /\ Spelt /\ Progress /\ FoldApart /\ KeysApart
      /\ Times /\ Kept
  BY DEF NamesInv, TreeOK
<1>2. OwnNewest /\ Sole /\ Single /\ StayOwn /\ Nested
  BY <1>1 DEF ConvertingOK
<1>3. record.state = "moving" /\ record'.state = "moving" /\ naming = Nothing
  BY <1>1 DEF ControlOK
<1>4. Plan' = Plan /\ \A i, k, n : (Lists(i, k, n)' <=> Lists(i, k, n)) /\ (Listed(k, n)' <=> Listed(k, n))
  BY DEF Plan, Lists, Listed
<1>5. /\ Times' /\ Kept' /\ KeysApart'
      /\ \A q \in DOMAIN named' : named'[q] \in File
      /\ \A q \in DOMAIN named' : \E p \in DOMAIN named : q = m[p]
      /\ \A p \in DOMAIN named :
            m[p] \in DOMAIN named' /\ m[p] \in Paths /\ Len(m[p]) = Len(p)
            /\ Key(m[p])' = Key(p) /\ named'[m[p]].at = named[p].at
  BY <1>1, Relocated
<1>6. \A p \in DOMAIN named : \A n \in 1..Len(p) :
        /\ m[p][n] = p[n] \/ (p[n] = Temporary[step] /\ m[p][n] = Key(p)[n])
        /\ m[p][n] # p[n] =>
               /\ ~(Key(p) \in DOMAIN named /\ Key(Key(p)) = Key(p))
               /\ n = 2 => Own(p, 1)
               /\ Used(step)' => Stays(Key(p)[n]) /\ Remakes
  OBVIOUS
<1>7. ASSUME NEW p \in DOMAIN named, NEW n \in 1..Len(p)
      PROVE  /\ n \in 1..Len(m[p]) /\ Key(p)[n] \in SegmentNames
             /\ Own(p, n) => Own(m[p], n)' /\ m[p][n] = p[n]
             /\ Own(m[p], n)' <=> Own(p, n) \/ m[p][n] # p[n]
             /\ m[p][n] # p[n] => Lists(step, Key(p), n)
  <2>1. n \in 1..Len(m[p])
    BY <1>5
  <2>2. Own(m[p], n)' <=> m[p][n] = Key(p)[n]
    BY <1>5 DEF Own
  <2>3. p[n] = Temporary[step] => Lists(step, Key(p), n) /\ ~Own(p, n)
    BY <1>1, TemporaryIs
  <2>4. Key(p)[n] \in SegmentNames
    BY <1>1, FilesAre, NamesAre DEF Assumed
  <2> QED BY <1>6, <2>1, <2>2, <2>3, <2>4 DEF Own
<1>8. ASSUME NEW p \in DOMAIN named, NEW n \in 1..Len(p), NEW i \in DOMAIN Plan
      PROVE  m[p][n] = Temporary[i] => p[n] = Temporary[i]
  <2>1. Temporary[i] \notin SegmentNames
    BY <1>1, PlanIs
  <2> QED BY <1>6, <1>7, <2>1
<1>9. \A i \in DOMAIN Plan : Used(i)' => Used(i)
  <2>1. ASSUME NEW i \in DOMAIN Plan, Used(i)' PROVE Used(i)
    <3>1. PICK q \in DOMAIN named' : \E n \in 1..Len(q) : q[n] = Temporary[i]
      BY <2>1 DEF Used
    <3>2. PICK p \in DOMAIN named : q = m[p]
      BY <1>5
    <3>3. PICK n \in 1..Len(p) : m[p][n] = Temporary[i]
      BY <1>5, <3>1, <3>2
    <3> QED BY <1>8, <3>3 DEF Used
  <2> QED BY <2>1
<1>10. (Remakes' <=> Remakes) /\ \A s : Stays(s)' <=> Stays(s)
  BY DEF Remakes, Stays, NamesApart
<1>11. Spelt'
  <2>1. ASSUME NEW p \in DOMAIN named
        PROVE  Key(m[p])' \in title' /\ Len(m[p]) = Len(Key(m[p])') /\ \A n \in 1..Len(m[p]) : Reads(m[p], n)'
    <3>1. Key(p) \in title /\ Len(p) = Len(Key(p)) /\ \A n \in 1..Len(p) : Reads(p, n)
      BY <1>1 DEF Spelt
    <3>2. ASSUME NEW n \in 1..Len(p) PROVE Reads(m[p], n)'
      <4>1. CASE Own(m[p], n)'
        BY <4>1 DEF Reads
      <4>2. CASE ~Own(m[p], n)'
        <5>1. Aside(p, n) /\ m[p][n] = p[n]
          BY <1>3, <1>7, <3>1, <4>2 DEF Reads
        <5>2. Aside(m[p], n)'
          BY <1>4, <1>5, <5>1 DEF Aside, Lists
        <5> QED BY <1>3, <5>2 DEF Reads
      <4> QED BY <4>1, <4>2
    <3> QED BY <1>5, <3>1, <3>2
  <2> QED BY <1>5, <2>1 DEF Spelt
<1>12. TreeOK'
  BY <1>5, <1>11 DEF TreeOK, FoldApart
<1>13. PlanOK'
  BY <1>1 DEF PlanOK, Plan
\* A file under its own name stays where it is.
<1>14. ASSUME NEW p \in DOMAIN named
       PROVE  /\ p = Key(p) => m[p] = p
              /\ m[p] = Key(p) => p = Key(p) \/ \E n \in 1..Len(p) : m[p][n] # p[n]
  <2>1. p \in Paths /\ Key(p) \in Paths /\ m[p] \in Paths /\ Len(m[p]) = Len(p) /\ Len(Key(p)) = Len(p)
    BY <1>1, <1>5, FilesAre
  <2>2. m[p] = p <=> \A n \in 1..Len(p) : m[p][n] = p[n]
    BY <2>1, SamePath
  <2>3. p = Key(p) => \A n \in 1..Len(p) : Own(p, n)
    BY <1>1, AllOwn
  <2> QED BY <1>7, <2>2, <2>3
<1>15. OwnNewest'
  <2>1. ASSUME NEW p \in DOMAIN named, m[p] = Key(p) PROVE named[p].at = saved[Key(p)]
    <3>1. CASE p = Key(p)
      BY <1>2, <1>3, <3>1 DEF OwnNewest
    <3>2. CASE p # Key(p)
      <4>1. ~(Key(p) \in DOMAIN named /\ Key(Key(p)) = Key(p))
        BY <1>6, <1>14, <2>1, <3>2
      <4>2. PICK k : k = Key(p)
        OBVIOUS
      <4>3. k \in title /\ named[p].at <= saved[k] /\ k \in SaveKeys /\ named[p].at \in 1..MaxSaves
        <5>1. named[p] \in File
          BY <1>1 DEF NamesTypeOK
        <5> QED BY <1>1, <4>2, <5>1 DEF Spelt, Times, Key, File
      <4>4. saved[k] # 0
        BY <1>1, <4>3 DEF NamesTypeOK
      <4>5. PICK q \in DOMAIN named : Key(q) = k /\ named[q].at = saved[k]
        BY <1>1, <4>3, <4>4 DEF Kept
      <4>6. q # Key(q)
        BY <4>1, <4>2, <4>5
      <4>7. q = p
        BY <1>2, <1>3, <3>2, <4>2, <4>5, <4>6 DEF Sole
      <4> QED BY <4>2, <4>5, <4>7
    <3> QED BY <3>1, <3>2
  <2> QED BY <1>5, <2>1 DEF OwnNewest
<1>16. Sole' /\ Single'
  <2>1. ASSUME NEW p \in DOMAIN named, NEW q \in DOMAIN named, Key(p) = Key(q), m[p] # Key(p), m[q] # Key(q)
        PROVE  p = q
    BY <1>2, <1>3, <1>14, <2>1 DEF Sole
  <2>2. \A p \in DOMAIN named, q \in DOMAIN named : Key(p) = Key(q) => p = q \/ Remakes
    BY <1>2, <1>3 DEF Single
  <2>3. Sole'
    BY <1>5, <2>1 DEF Sole
  <2>4. Single'
    BY <1>5, <1>10, <2>2 DEF Single
  <2> QED BY <2>3, <2>4
<1>17. StayOwn'
  <2>1. ASSUME NEW p \in DOMAIN named, NEW n \in 1..Len(m[p]), Own(m[p], n)'
        PROVE  /\ ~Listed(Key(p), n) => Stays(m[p][n])
               /\ \A i \in DOMAIN Plan : Lists(i, Key(p), n) /\ Used(i)' => Stays(m[p][n]) /\ Remakes
    <3>1. n \in 1..Len(p)
      BY <1>5, <2>1
    <3>2. CASE Own(p, n)
      <4>1. m[p][n] = p[n]
        BY <1>7, <3>1, <3>2
      <4> QED BY <1>2, <1>3, <1>9, <3>1, <3>2, <4>1 DEF StayOwn
    <3>3. CASE ~Own(p, n)
      <4>1. m[p][n] # p[n] /\ Lists(step, Key(p), n) /\ m[p][n] = Key(p)[n]
        BY <1>6, <1>7, <2>1, <3>1, <3>3
      <4>2. Key(p) \in Paths
        BY <1>1, FilesAre
      <4>3. \A i \in DOMAIN Plan : Lists(i, Key(p), n) => i = step
        BY <1>1, <4>1, <4>2, OneEntry
      <4>4. Listed(Key(p), n)
        BY <4>1 DEF Listed
      <4> QED BY <1>6, <3>1, <4>1, <4>3, <4>4
    <3> QED BY <3>2, <3>3
  <2>2. ASSUME NEW p \in DOMAIN named, NEW n \in 1..Len(m[p]), Own(m[p], n)'
        PROVE  /\ ~Listed(Key(m[p]), n)' => Stays(m[p][n])'
               /\ \A i \in DOMAIN Plan' : Lists(i, Key(m[p]), n)' /\ Used(i)' => (Stays(m[p][n]) /\ Remakes)'
    <3>1. /\ ~Listed(Key(p), n) => Stays(m[p][n])
          /\ \A i \in DOMAIN Plan : Lists(i, Key(p), n) /\ Used(i)' => Stays(m[p][n]) /\ Remakes
      BY <2>1, <2>2
    <3>2. (Listed(Key(m[p]), n)' <=> Listed(Key(p), n)) /\ \A i : Lists(i, Key(m[p]), n)' <=> Lists(i, Key(p), n)
      BY <1>4, <1>5 DEF Lists, Listed
    <3> QED BY <1>4, <1>10, <3>1, <3>2
  <2> QED BY <1>3, <1>5, <2>2 DEF StayOwn
<1>18. Nested'
  <2>1. ASSUME NEW p \in DOMAIN named, Len(m[p]) = 2, Own(m[p], 2)', Listed(Key(m[p]), 2)' PROVE Own(m[p], 1)'
    <3>0. Len(p) = 2
      BY <1>5, <2>1
    <3>1. Len(p) = 2 /\ 1 \in 1..Len(p) /\ 2 \in 1..Len(p)
      BY <3>0
    <3>2. Listed(Key(p), 2)
      BY <1>4, <1>5, <2>1 DEF Lists, Listed
    <3>3. Own(p, 2) \/ m[p][2] # p[2]
      BY <1>7, <2>1, <3>1
    <3>4. Own(p, 1)
      BY <1>2, <1>3, <1>6, <3>1, <3>2, <3>3 DEF Nested
    <3> QED BY <1>7, <3>1, <3>4
  <2> QED BY <1>5, <2>1 DEF Nested
<1>19. ConvertingOK'
  BY <1>3, <1>15, <1>16, <1>17, <1>18 DEF ConvertingOK, Inner, Proper
<1>20. Progress'
  BY <1>1, <1>4, <1>9 DEF Progress
<1>21. NamesTypeOK' /\ ControlOK' /\ PlainOK'
  <2>1. NamesTypeOK'
    BY <1>1, <1>5 DEF NamesTypeOK
  <2>2. ControlOK'
    BY <1>1, <1>4 DEF ControlOK
  <2> QED BY <1>3, <2>1, <2>2 DEF PlainOK, Nothing
<1> QED BY <1>12, <1>13, <1>19, <1>20, <1>21 DEF NamesInv

\* Putting a name back where nothing is.
LEMMA BackToFree ==
    ASSUME Assumed, NamesInv, stage = "undoing", step \in DOMAIN Plan,
           ~Exists(Plan[step]), Rename(TemporaryPath(step), Plan[step]),
           UNCHANGED <<title, record, up, stage, step, naming, known, clock, saved>>
    PROVE  NamesInv'
<1>1. NamesTypeOK /\ PlanOK /\ ControlOK /\ TreeOK /\ Spelt /\ Progress /\ FoldApart /\ record.state = "moving"
  BY DEF NamesInv, TreeOK, ControlOK
<1>2. PICK o \in Paths : o = Plan[step] /\ (Len(o) = 1 \/ Len(o) = 2) /\ Len(o) \in 1..Len(o)
  <2>1. PICK o \in Paths : o = Plan[step] /\ (Len(o) = 1 \/ Len(o) = 2)
    BY <1>1, PlanIs
  <2>2. Len(o) \in 1..Len(o)
    BY <2>1
  <2> QED BY <2>1, <2>2
<1>3. PICK f \in Paths : f = TemporaryPath(step) /\ Len(f) = Len(o) /\ (Len(o) = 2 => f[1] = o[1])
  BY <1>1, <1>2, TemporaryPathIs
<1>4. /\ \A p \in DOMAIN named : \A n \in 1..Len(p) : p[n] = Temporary[step] =>
             n = Len(o) /\ Lists(step, Key(p), n) /\ ~Own(p, n) /\ Above(f, p)
      /\ \A p \in DOMAIN named : Above(f, p) => Len(o) \in 1..Len(p) /\ p[Len(o)] = Temporary[step]
      /\ \A e \in Paths : Meets(e, f) /\ (\E p \in DOMAIN named : Above(e, p)) => e = f
  BY <1>1, <1>2, <1>3, BackIs
<1>5. DOMAIN named \subseteq Paths /\ Apart(named)
  BY <1>1, FilesAre DEF FoldApart
<1>6. ~Exists(o) /\ Rename(f, o)
  BY <1>2, <1>3
<1>7. /\ \E e \in Paths :
             /\ Meets(e, f) /\ \E p \in DOMAIN named : Above(e, p)
             /\ \E m : Relocates(named, m, named') /\ Takes(named, m, e, o[Len(o)])
      /\ DOMAIN named' \subseteq Paths
      /\ Apart(named')
  BY <1>3, <1>5, <1>6, RenameLast
<1>8. PICK m : Relocates(named, m, named') /\ Takes(named, m, f, o[Len(o)])
  BY <1>4, <1>7
<1>9. \A p \in DOMAIN named : \A n \in 1..Len(p) :
        m[p][n] = IF Above(f, p) /\ n = Len(o) THEN o[Len(o)] ELSE p[n]
  BY <1>3, <1>5, <1>8, TakesIs
<1>10. ASSUME NEW p \in DOMAIN named, NEW n \in 1..Len(p), m[p][n] # p[n]
       PROVE  /\ Above(f, p) /\ n = Len(o) /\ p[n] = Temporary[step] /\ m[p][n] = o[n]
              /\ Key(p) \in Paths /\ Len(Key(p)) = Len(p) /\ Above(o, Key(p)) /\ Key(p)[n] = o[n]
  <2>1. Above(f, p) /\ n = Len(o) /\ m[p][n] = o[n]
    BY <1>9, <1>10
  <2>2. p[n] = Temporary[step]
    BY <1>4, <2>1
  <2>3. Key(p) \in Paths /\ Len(Key(p)) = Len(p)
    BY <1>1, FilesAre
  <2>4. Above(o, Key(p))
    BY <1>2, <1>4, <2>2 DEF Lists
  <2>5. Key(p)[n] = o[n]
    BY <2>1, <2>3, <2>4, LastAbove
  <2> QED BY <2>1, <2>2, <2>3, <2>4, <2>5
<1>11. ~Used(step)'
  <2>1. ASSUME NEW p \in DOMAIN named, NEW n \in 1..Len(p), m[p][n] = Temporary[step] PROVE FALSE
    <3>1. o[Len(o)] \in SegmentNames /\ Temporary[step] \notin SegmentNames
      BY <1>1, <1>2, PlanIs
    <3>2. p[n] = Temporary[step]
      BY <1>9, <2>1, <3>1
    <3>3. Above(f, p) /\ n = Len(o)
      BY <1>4, <3>2
    <3> QED BY <1>9, <2>1, <3>1, <3>3
  <2>2. \A q \in DOMAIN named' : \E p \in DOMAIN named : q = m[p] /\ Len(q) = Len(p)
    BY <1>8 DEF Relocates
  <2> QED BY <2>1, <2>2 DEF Used
<1>12. ASSUME NEW p \in DOMAIN named, NEW n \in 1..Len(p), m[p][n] # p[n], Key(p) \in DOMAIN named PROVE FALSE
  <2>1. PICK k \in DOMAIN named : k = Key(p)
    BY <1>12
  <2>2. Above(o, k)
    BY <1>10, <1>12, <2>1
  <2>3. Covers(k, o)
    BY <2>2 DEF Covers, Above
  <2> QED BY <1>5, <1>6, <2>3, AnswersAre
<1>13. ASSUME NEW p \in DOMAIN named, m[p][2] # p[2], 2 \in 1..Len(p) PROVE Own(p, 1)
  <2>1. Above(f, p) /\ Len(o) = 2 /\ Above(o, Key(p)) /\ Key(p) \in Paths /\ p \in Paths
    BY <1>5, <1>10, <1>13
  <2>2. f[1] = p[1] /\ o[1] = Key(p)[1]
    BY <2>1, TwoNamesApiece
  <2> QED BY <1>3, <2>1, <2>2 DEF Own
<1>14. \A p \in DOMAIN named : \A n \in 1..Len(p) :
               m[p][n] = p[n] \/ (p[n] = Temporary[step] /\ m[p][n] = Key(p)[n])
  BY <1>10
<1>15. \A p \in DOMAIN named : \A n \in 1..Len(p) : m[p][n] # p[n] =>
               /\ ~(Key(p) \in DOMAIN named /\ Key(Key(p)) = Key(p))
               /\ n = 2 => Own(p, 1)
               /\ Used(step)' => Stays(Key(p)[n]) /\ Remakes
  BY <1>11, <1>12, <1>13
<1> QED BY <1>7, <1>8, <1>14, <1>15, Returns

\* What lies under the earlier name of a file stays instead of it.
LEMMA BackToTaken ==
    ASSUME Assumed, NamesInv, stage = "undoing", step \in DOMAIN Plan,
           Exists(Plan[step]),
           TemporaryPath(step) \in DOMAIN named \/ OnDisk(Plan[step]) \cap DOMAIN named # {},
           named' = Without(named, TemporaryPath(step)),
           UNCHANGED <<title, record, up, stage, step, naming, known, clock, saved>>
    PROVE  NamesInv'
<1>1. NamesTypeOK /\ PlanOK /\ ControlOK /\ TreeOK /\ Spelt /\ Progress /\ KeysApart /\ record.state = "moving"
  BY DEF NamesInv, TreeOK, ControlOK
<1>2. PICK o \in Paths : o = Plan[step] /\ (Len(o) = 1 \/ Len(o) = 2)
  BY <1>1, PlanIs
<1>3. PICK f \in Paths : f = TemporaryPath(step) /\ Len(f) = Len(o)
  BY <1>1, <1>2, TemporaryPathIs
<1>4. \A p \in DOMAIN named : Above(f, p) => Above(o, Key(p)) /\ p # Key(p)
  <2>1. ASSUME NEW p \in DOMAIN named, Above(f, p) PROVE Above(o, Key(p)) /\ p # Key(p)
    <3>1. Len(o) \in 1..Len(p) /\ p[Len(o)] = Temporary[step]
      BY <1>1, <1>2, <1>3, <2>1, BackIs
    <3>2. Lists(step, Key(p), Len(o)) /\ ~Own(p, Len(o))
      BY <1>1, <3>1, TemporaryIs
    <3> QED BY <1>2, <3>2 DEF Lists, Own
  <2> QED BY <2>1
<1>5. DOMAIN named \subseteq Paths /\ title \in Titles /\ NamesAssumption
      /\ \A p \in DOMAIN named : Key(p) \in title /\ Key(p) \in Paths /\ Len(Key(p)) = Len(p)
  BY <1>1, FilesAre DEF NamesTypeOK, Assumed
\* A file the volume answers the name with is the one under it.
<1>6. ASSUME NEW g \in DOMAIN named, Covers(g, o), Len(Key(g)) = Len(o) \/ o \in title
      PROVE  g = o /\ Key(g) = o
  <2>1. Above(o, Key(g)) /\ Above(o, g) /\ \A n \in 1..Len(o) : Own(g, n)
    BY <1>1, <1>2, <1>6, OnlyItself DEF Lists
  <2>2. Key(g) = o
    <3>1. CASE Len(Key(g)) = Len(o)
      BY <1>5, <2>1, <3>1, TwoNamesApiece
    <3>2. CASE o \in title
      BY <1>5, <2>1, <3>2, KeysAre
    <3> QED BY <1>6, <3>1, <3>2
  <2>3. \A n \in 1..Len(g) : Own(g, n)
    BY <1>5, <2>1, <2>2
  <2>4. g = Key(g)
    BY <1>1, <2>3, AllOwn
  <2> QED BY <2>2, <2>4
<1>7. o \in DOMAIN named /\ Key(o) = o
  <2>1. CASE f \in DOMAIN named
    <3>1. Above(f, f)
      BY DEF Above
    <3>2. Above(o, Key(f)) /\ Len(Key(f)) = Len(o) /\ Key(f) \in title /\ Key(f) \in Paths
      BY <1>3, <1>4, <1>5, <2>1, <3>1
    <3>3. o \in title
      BY <3>2, TwoNamesApiece
    <3>4. PICK g \in DOMAIN named : Covers(g, o)
      BY <1>2, <1>5, AnswersAre
    <3> QED BY <1>6, <3>3, <3>4
  <2>2. CASE OnDisk(o) \cap DOMAIN named # {}
    <3>1. PICK g \in DOMAIN named : g \in OnDisk(o)
      BY <2>2
    <3>2. Meets(g, o)
      BY <1>5, <3>1, AnswersAre
    <3>3. Covers(g, o) /\ Len(g) = Len(o)
      BY <1>5, <3>2, TwoNamesApiece
    <3> QED BY <1>5, <1>6, <3>1, <3>3
  <2> QED BY <1>2, <1>3, <2>1, <2>2
<1>8. \A r \in DOMAIN named : Above(f, r) => r # Key(r) /\ Key(r) \in DOMAIN named /\ Key(Key(r)) = Key(r)
  <2>1. ASSUME NEW r \in DOMAIN named, Above(f, r) PROVE Key(r) = o
    BY <1>4, <1>5, <1>7, <2>1, KeysAre
  <2> QED BY <1>4, <1>7, <2>1
<1>9. DOMAIN named' = {e \in DOMAIN named : ~Above(f, e)} /\ \A q \in DOMAIN named' : named'[q] = named[q]
  <2>1. {e \in DOMAIN named : ~IsPrefix(f, e)} = {e \in DOMAIN named : ~Above(f, e)}
    BY <1>5, PrefixIsAbove
  <2>2. named' = [q \in {e \in DOMAIN named : ~Above(f, e)} |-> named[q]]
    BY <1>3, <2>1 DEF Without
  <2> QED BY <2>2
<1>10. \A r \in DOMAIN named : r \notin DOMAIN named' =>
               r # Key(r) /\ Key(r) \in DOMAIN named /\ Key(Key(r)) = Key(r)
  BY <1>8, <1>9
<1>11. DOMAIN named' \subseteq DOMAIN named /\ \A q \in DOMAIN named' : named'[q] = named[q]
  BY <1>9
<1> QED BY <1>10, <1>11, Drops

\* What was inside a moved directory goes into the one an earlier build made anew.
LEMMA BackInto ==
    ASSUME Assumed, NamesInv, stage = "undoing", step \in DOMAIN Plan,
           Exists(Plan[step]), TemporaryPath(step) \notin DOMAIN named, OnDisk(Plan[step]) \cap DOMAIN named = {},
           NEW p \in DOMAIN named, IsStrictPrefix(TemporaryPath(step), p),
           \/ Exists(Append(Plan[step], Last(p))) /\ named' = Without(named, p)
           \/ ~Exists(Append(Plan[step], Last(p))) /\ Rename(p, Append(Plan[step], Last(p))),
           UNCHANGED <<title, record, up, stage, step, naming, known, clock, saved>>
    PROVE  NamesInv'
<1>1. NamesTypeOK /\ PlanOK /\ ControlOK /\ TreeOK /\ ConvertingOK /\ Spelt /\ Progress /\ KeysApart /\ FoldApart
      /\ StayOwn /\ record.state = "moving"
  BY DEF NamesInv, TreeOK, ControlOK, ConvertingOK
<1>2. PICK o \in Paths : o = Plan[step] /\ (Len(o) = 1 \/ Len(o) = 2)
  BY <1>1, PlanIs
<1>3. PICK f \in Paths : f = TemporaryPath(step) /\ Len(f) = Len(o)
  BY <1>1, <1>2, TemporaryPathIs
<1>4. DOMAIN named \subseteq Paths /\ Apart(named)
      /\ \A q \in DOMAIN named : /\ Key(q) \in title /\ Key(q) \in Paths /\ Len(Key(q)) = Len(q)
                                 /\ \A n \in 1..Len(q) : Reads(q, n)
  BY <1>1, FilesAre DEF FoldApart
<1>5. Len(o) = 1 /\ Len(p) = 2 /\ Above(f, p) /\ 1 \in 1..Len(p) /\ 2 \in 1..Len(p)
  <2>1. Above(f, p) /\ Len(f) < Len(p) /\ (Len(p) = 1 \/ Len(p) = 2)
    BY <1>3, <1>4, PrefixIsAbove, TwoNames
  <2>2. Len(o) = 1 /\ Len(p) = 2
    <3>1. PICK a, b : a = Len(o) /\ b = Len(p)
      OBVIOUS
    <3>2. (a = 1 \/ a = 2) /\ (b = 1 \/ b = 2) /\ a < b
      BY <1>2, <1>3, <2>1, <3>1
    <3>3. a = 1 /\ b = 2
      BY <3>2
    <3> QED BY <3>1, <3>3
  <2> QED BY <2>1, <2>2
<1>6. p[1] = Temporary[step] /\ Lists(step, Key(p), 1) /\ ~Own(p, 1) /\ Used(step)
  <2>1. p[1] = Temporary[step]
    BY <1>1, <1>2, <1>3, <1>5, BackIs
  <2> QED BY <1>1, <1>5, <2>1, TemporaryIs DEF Used
<1>7. PICK k \in Paths : k = Key(p) /\ k \in title /\ Len(k) = 2 /\ k[1] = o[1]
  <2>1. PICK k \in Paths : k = Key(p) /\ k \in title /\ Len(k) = 2
    BY <1>4, <1>5
  <2>2. Above(o, k)
    BY <1>2, <1>6, <2>1 DEF Lists
  <2> QED BY <1>5, <2>1, <2>2, TwoNamesApiece
\* The directory made anew.
<1>8. PICK g \in DOMAIN named : Covers(g, o)
  BY <1>2, <1>4, AnswersAre
<1>9. Above(o, g) /\ Lists(step, Key(g), 1) /\ 1 \in 1..Len(g) /\ Own(g, 1)
  <2>1. Above(o, g) /\ Lists(step, Key(g), Len(o)) /\ \A n \in 1..Len(o) : n \in 1..Len(g) /\ Own(g, n)
    BY <1>1, <1>2, <1>8, OnlyItself
  <2>2. 1 \in 1..Len(o)
    BY <1>5
  <2> QED BY <1>5, <2>1, <2>2
<1>10. g[1] = o[1]
  BY <1>4, <1>9, TwoNamesApiece
<1>11. Stays(o[1]) /\ Remakes /\ Converts(o[1])
  <2>1. Stays(g[1]) /\ Remakes
    BY <1>1, <1>6, <1>9 DEF StayOwn
  <2>2. Converts(o[1])
    BY <1>1, <1>2, <1>5 DEF PlanOK
  <2> QED BY <1>10, <2>1, <2>2
\* So no name inside it is converted.
<1>12. ASSUME NEW q \in DOMAIN named, Key(q)[1] = o[1], Len(q) = 2 PROVE Own(q, 2) /\ ~Listed(Key(q), 2)
  <2>1. PICK l \in Paths : l = Key(q) /\ l \in title /\ Len(l) = 2 /\ l[1] = o[1]
    BY <1>4, <1>12
  <2>2. ASSUME NEW j \in DOMAIN Plan, Lists(j, l, 2) PROVE FALSE
    <3>1. PICK b \in Paths : b = Plan[j]
      BY <1>1, PlanIs
    <3>2. Len(b) = 2 /\ Above(b, l)
      BY <2>2, <3>1 DEF Lists
    <3>3. b[2] = l[2] /\ Converts(b[2])
      BY <1>1, <2>1, <3>1, <3>2, TwoNamesApiece DEF PlanOK
    <3> QED BY <1>1, <1>11, <2>1, <3>3 DEF Assumed, DirectoriesAssumption, Remakes, NamesTypeOK
  <2>3. 2 \in 1..Len(q)
    BY <1>12
  <2>4. Reads(q, 2)
    BY <1>4, <2>3
  <2> QED BY <1>1, <2>1, <2>2, <2>4 DEF Reads, Aside, Listed
<1>13. Own(p, 2) /\ ~Listed(k, 2) /\ p[2] = k[2]
  BY <1>5, <1>7, <1>12 DEF Own
<1>14. Append(o, Last(p)) = k
  <2>1. Last(p) = p[2] /\ p[2] \in Names
    BY <1>4, <1>5, LastIs, TwoNames
  <2>2. PICK to : to = Append(o, p[2])
    OBVIOUS
  <2>3. to \in Paths /\ Len(to) = 2 /\ to[1] = o[1] /\ to[2] = p[2]
    BY <1>5, <2>1, <2>2, ExtendIs
  <2>4. to = k
    BY <1>7, <1>13, <2>3, TwoNamesApiece
  <2> QED BY <2>1, <2>2, <2>4
<1>15. p # Key(p)
  BY <1>6 DEF Own
<1>16. CASE Exists(k) /\ named' = Without(named, p)
  <2>1. PICK q \in DOMAIN named : Covers(q, k)
    BY <1>4, <1>7, <1>16, AnswersAre
  <2>2. Len(q) = 2 /\ Fold[q[2]] = Fold[k[2]] /\ Fold[q[1]] = Fold[k[1]]
    BY <1>4, <1>7, <2>1, TwoNamesApiece
  <2>3. Covers(q, o)
    BY <1>4, <1>5, <1>7, <2>2, TwoNamesApiece
  <2>4. Above(o, q) /\ \A n \in 1..Len(o) : Own(q, n)
    BY <1>1, <1>2, <2>3, OnlyItself
  <2>5. q[1] = o[1] /\ Own(q, 1) /\ Key(q)[1] = o[1]
    BY <1>4, <1>5, <2>4, TwoNamesApiece DEF Own
  <2>6. Own(q, 2)
    BY <1>12, <2>2, <2>5
  <2>7. q[2] = k[2]
    <3>1. 2 \in 1..Len(q) /\ 2 \in 1..Len(k)
      BY <1>7, <2>2
    <3>2. k[2] \in SegmentsOf(title) /\ q[2] \in SegmentsOf(title)
      BY <1>1, <1>4, <1>7, <2>6, <3>1, KeysAre DEF Own, Assumed, NamesTypeOK
    <3>3. NamesApart
      BY <1>1, <1>11 DEF Assumed, DirectoriesAssumption, Remakes, NamesTypeOK, NamesApart
    <3> QED BY <2>2, <3>2, <3>3 DEF NamesApart
  <2>8. q = k
    BY <1>4, <1>7, <2>2, <2>5, <2>7, TwoNamesApiece
  <2>9. \A n \in 1..Len(q) : n = 1 \/ n = 2
    BY <2>2
  <2>10. Key(q) = q
    BY <1>1, <2>5, <2>6, <2>9, AllOwn
  <2>11. \A e \in DOMAIN named : IsPrefix(p, e) <=> e = p
    <3>1. ASSUME NEW e \in DOMAIN named PROVE IsPrefix(p, e) <=> e = p
      BY <1>4, <1>5, PrefixIsAbove, TwoNamesApiece, TwoNames
    <3> QED BY <3>1
  <2>12. DOMAIN named' = {e \in DOMAIN named : e # p} /\ \A e \in DOMAIN named' : named'[e] = named[e]
    <3>1. {e \in DOMAIN named : ~IsPrefix(p, e)} = {e \in DOMAIN named : e # p}
      BY <2>11
    <3>2. named' = [e \in {e \in DOMAIN named : e # p} |-> named[e]]
      BY <1>16, <3>1 DEF Without
    <3> QED BY <3>2
  <2>13. \A r \in DOMAIN named : r \notin DOMAIN named' =>
               r # Key(r) /\ Key(r) \in DOMAIN named /\ Key(Key(r)) = Key(r)
    BY <1>7, <1>15, <2>8, <2>10, <2>12
  <2>14. DOMAIN named' \subseteq DOMAIN named /\ \A e \in DOMAIN named' : named'[e] = named[e]
    BY <2>12
  <2> QED BY <2>13, <2>14, Drops
<1>17. CASE ~Exists(k) /\ Rename(p, k)
  <2>1. /\ \E e \in Paths, t \in Paths :
                 /\ Meets(e, p) /\ \E q \in DOMAIN named : Above(e, q)
                 /\ t = Spelled(k)
                 /\ \E m : Relocates(named, m, named') /\ Brings(named, m, e, t)
        /\ DOMAIN named' \subseteq Paths
        /\ Apart(named')
    BY <1>4, <1>5, <1>7, <1>17, RenameStep
  <2>2. PICK e \in Paths, t \in Paths :
                 /\ Meets(e, p) /\ \E q \in DOMAIN named : Above(e, q)
                 /\ t = Spelled(k)
                 /\ \E m : Relocates(named, m, named') /\ Brings(named, m, e, t)
    BY <2>1
  <2>3. e = p
    <3>1. PICK q \in DOMAIN named : Above(e, q)
      BY <2>2
    <3>2. Len(e) = 2 /\ Fold[e[1]] = Fold[p[1]] /\ Fold[e[2]] = Fold[p[2]]
      BY <1>4, <1>5, <2>2, TwoNamesApiece
    <3>3. e[1] = q[1] /\ e[2] = q[2] /\ Len(q) = 2
      BY <1>4, <3>1, <3>2, TwoNamesApiece
    <3>4. q[1] = p[1] /\ q[2] = p[2]
      BY <1>4, <1>5, <3>2, <3>3 DEF Apart
    <3> QED BY <1>4, <1>5, <3>2, <3>3, <3>4, TwoNamesApiece
  <2>4. t = k
    <3>1. t \in Paths /\ Len(t) = 2 /\ t[2] = k[2]
      BY <1>4, <1>7, <2>2, SpelledIs
    <3>2. Fold[g[1]] = Fold[k[1]]
      BY <1>7, <1>10
    <3>3. t[1] = g[1]
      BY <1>4, <1>7, <2>2, <3>2, SpelledIs
    <3> QED BY <1>7, <1>10, <3>1, <3>3, TwoNamesApiece
  <2>5. PICK m : Relocates(named, m, named') /\ Brings(named, m, p, k)
    BY <2>2, <2>3, <2>4
  <2>6. \A q \in DOMAIN named : Above(p, q) => q = p
    BY <1>4, <1>5, TwoNames, TwoNamesApiece
  <2>7. Above(p, p)
    BY <1>5 DEF Above
  <2>8. \A q \in DOMAIN named : q # p => m[q] = q
    BY <2>5, <2>6 DEF Brings
  <2>9. m[p][1] = k[1] /\ m[p][2] = k[2]
    BY <1>5, <1>7, <2>5, <2>7 DEF Brings
  <2>10. \A n \in 1..Len(p) : n = 1 \/ n = 2
    BY <1>5
  <2>11. m[p][2] = p[2]
    BY <1>13, <2>9
  <2>12. \A q \in DOMAIN named : \A n \in 1..Len(q) :
               m[q][n] = q[n] \/ (q[n] = Temporary[step] /\ m[q][n] = Key(q)[n])
    BY <1>6, <1>7, <2>8, <2>9, <2>10, <2>11
  <2>13. k \notin DOMAIN named
    <3>1. ASSUME k \in DOMAIN named PROVE FALSE
      <4>1. Covers(k, k)
        BY DEF Covers
      <4> QED BY <1>4, <1>17, <3>1, <4>1, AnswersAre
    <3> QED BY <3>1
  <2>14. \A q \in DOMAIN named : \A n \in 1..Len(q) : m[q][n] # q[n] => q = p /\ n = 1
    BY <2>8, <2>10, <2>11
  <2>15. Stays(Key(p)[1]) /\ Remakes
    BY <1>7, <1>11
  <2>16. \A q \in DOMAIN named : \A n \in 1..Len(q) : m[q][n] # q[n] =>
               /\ ~(Key(q) \in DOMAIN named /\ Key(Key(q)) = Key(q))
               /\ n = 2 => Own(q, 1)
               /\ Used(step)' => Stays(Key(q)[n]) /\ Remakes
    BY <1>7, <2>13, <2>14, <2>15
  <2> QED BY <2>1, <2>5, <2>12, <2>16, Returns
<1> QED BY <1>2, <1>14, <1>16, <1>17

\* An undo moves an entry back: the invariant is kept.
LEMMA MoveBackStep ==
    ASSUME Assumed, NamesInv, UNCHANGED title, MoveBack
    PROVE  NamesInv'
<1>1. /\ stage = "undoing" /\ step > 0
      /\ UNCHANGED <<title, record, up, stage, naming, known, clock, saved>>
  BY DEF MoveBack
<1>2. step \in DOMAIN Plan
  <2>1. NamesTypeOK /\ PlanOK /\ ControlOK
    BY DEF NamesInv
  <2>2. step \in 0..Len(Plan) + 1 /\ step <= Len(Plan)
    BY <1>1, <2>1 DEF NamesTypeOK, ControlOK, Plan
  <2> QED BY <1>1, <2>1, <2>2, PlanIs
<1>3. CASE ~Exists(TemporaryPath(step)) /\ step' = step - 1 /\ UNCHANGED named
  BY <1>1, <1>3, MoveBackStays
<1>4. CASE PutSaveNameBack(TemporaryPath(step), Plan[step]) /\ UNCHANGED step
  <2>1. CASE ~Exists(Plan[step]) /\ Rename(TemporaryPath(step), Plan[step])
    BY <1>1, <1>2, <1>4, <2>1, BackToFree
  <2>2. CASE /\ Exists(Plan[step])
             /\ TemporaryPath(step) \in DOMAIN named \/ OnDisk(Plan[step]) \cap DOMAIN named # {}
             /\ named' = Without(named, TemporaryPath(step))
    BY <1>1, <1>2, <1>4, <2>2, BackToTaken
  <2>3. CASE /\ Exists(Plan[step]) /\ TemporaryPath(step) \notin DOMAIN named
             /\ OnDisk(Plan[step]) \cap DOMAIN named = {}
             /\ \E p \in {q \in DOMAIN named : IsStrictPrefix(TemporaryPath(step), q)} :
                  \/ Exists(Append(Plan[step], Last(p))) /\ named' = Without(named, p)
                  \/ ~Exists(Append(Plan[step], Last(p))) /\ Rename(p, Append(Plan[step], Last(p)))
    BY <1>1, <1>2, <1>4, <2>3, BackInto
  <2> QED BY <1>4, <2>1, <2>2, <2>3 DEF PutSaveNameBack
<1> QED BY <1>3, <1>4 DEF MoveBack, Plan

\* The names a conversion is about, of all a title has.
Convertible == {p \in PathsOf(title) : Converts(Last(p))}

\* There is a finite number of names to convert.
LEMMA ConvertibleFinite ==
    ASSUME Assumed, title \in Titles
    PROVE  IsFiniteSet(Convertible)
<1>1. \A k \in title : k \in Paths /\ Len(k) \in 1..2 /\ k \in Seq(Names)
  BY KeysAre, PathShape DEF Assumed
<1>2. IsFiniteSet(title)
  BY DEF Assumed, DirectoriesAssumption
<1> DEFINE f == [k \in title |-> SubSeq(k, 1, 1)]
           T == {f[k] : k \in title}
<1>3. f \in Surjection(title, T)
  BY DEF Surjection
<1> HIDE DEF T
<1>4. IsFiniteSet(T)
  BY <1>2, <1>3, FS_Surjection
<1>5. IsFiniteSet(title \cup T)
  BY <1>2, <1>4, FS_Union
<1>6. PathsOf(title) \subseteq title \cup T
  <2>1. ASSUME NEW k \in title, NEW n \in 1..Len(k) PROVE SubSeq(k, 1, n) \in title \cup T
    <3>1. CASE n = 1
      BY <3>1 DEF T
    <3>2. CASE n = Len(k)
      BY <1>1, <3>2, SubSeqFull
    <3>3. n = 1 \/ n = Len(k)
      <4>1. PICK l \in 1..2 : l = Len(k)
        BY <1>1
      <4>2. n \in 1..l
        BY <4>1
      <4>3. n = 1 \/ n = l
        BY <4>2
      <4> QED BY <4>1, <4>3
    <3> QED BY <3>1, <3>2, <3>3
  <2>2. ASSUME NEW e \in PathsOf(title) PROVE e \in title \cup T
    <3>1. PICK k \in title : e \in {SubSeq(k, 1, n) : n \in 1..Len(k)}
      BY <2>2, Zenon DEF PathsOf
    <3>2. PICK n \in 1..Len(k) : e = SubSeq(k, 1, n)
      BY <3>1
    <3> QED BY <2>1, <3>2
  <2> QED BY <2>2
<1>7. Convertible \in SUBSET (title \cup T)
  BY <1>6 DEF Convertible
<1> QED BY <1>5, <1>7, FS_Subset

\* Before a conversion every file has its own name.
LEMMA StillOwn ==
    ASSUME Assumed, NamesTypeOK, PlanOK, Spelt, record.state = "absent"
    PROVE  \A p \in DOMAIN named : p = Key(p) /\ p \in title /\ \A n \in 1..Len(p) : Own(p, n) /\ p[n] \in Segments
<1>1. ASSUME NEW p \in DOMAIN named
      PROVE  p = Key(p) /\ p \in title /\ \A n \in 1..Len(p) : Own(p, n) /\ p[n] \in Segments
  <2>1. \A n \in 1..Len(p) : Own(p, n) /\ Key(p)[n] \in Segments
    BY FilesAre DEF Reads
  <2>2. p = Key(p)
    BY <2>1, AllOwn
  <2>3. Key(p) \in title
    BY FilesAre
  <2> QED BY <2>1, <2>2, <2>3 DEF Own
<1> QED BY <1>1

\* What planSaveNames may list.
LEMMA PlansAre ==
    ASSUME Assumed, NamesTypeOK, PlanOK, Spelt, record.state = "absent", NEW plan \in Plans
    PROVE  /\ plan \in Seq(Paths) /\ Len(plan) \in Nat /\ DOMAIN plan = 1..Len(plan)
           /\ DOMAIN plan \subseteq DOMAIN Temporary
           /\ \A i, j \in DOMAIN plan : plan[i] = plan[j] => i = j
           /\ \A i, j \in DOMAIN plan : i < j => ~(Above(plan[i], plan[j]) /\ Len(plan[i]) < Len(plan[j]))
           /\ \A i \in DOMAIN plan :
                /\ plan[i] \in Paths /\ Converts(plan[i][Len(plan[i])])
                /\ \E k \in title : k \in DOMAIN named /\ Above(plan[i], k)
           /\ \A e \in ToConvert : \E i \in DOMAIN plan : plan[i] = e
<1>1. DOMAIN named \subseteq Paths
  BY FilesAre
<1>2. \A p \in DOMAIN named : p = Key(p) /\ p \in title
  BY StillOwn
<1>3. ToConvert \subseteq Convertible
  <2>1. ASSUME NEW e \in ToConvert PROVE e \in Convertible
    <3>1. e \in Entries /\ Converts(Last(e))
      BY <2>1 DEF ToConvert
    <3>2. e \in PathsOf(title)
      BY <1>2, <3>1 DEF Entries, PathsOf
    <3> QED BY <3>1, <3>2 DEF Convertible
  <2> QED BY <2>1
<1>4. IsFiniteSet(ToConvert) /\ Cardinality(ToConvert) <= Cardinality(Convertible)
      /\ Cardinality(ToConvert) \in Nat /\ Cardinality(Convertible) \in Nat
  <2>1. IsFiniteSet(Convertible)
    BY ConvertibleFinite DEF NamesTypeOK
  <2>2. IsFiniteSet(ToConvert) /\ Cardinality(ToConvert) <= Cardinality(Convertible)
    BY <1>3, <2>1, FS_Subset
  <2> QED BY <2>1, <2>2, FS_CardinalityType
<1>5. PICK N \in Nat : N = Cardinality(ToConvert)
  BY <1>4
<1>6. /\ plan \in [1..N -> ToConvert]
      /\ \A i, j \in 1..N : i # j => plan[i] # plan[j]
      /\ \A i, j \in DOMAIN plan : i < j => ~IsStrictPrefix(plan[i], plan[j])
  BY <1>5 DEF Plans, SetToSeqs
<1>7. ToConvert \subseteq Paths
  BY <1>1, EntriesAre DEF ToConvert
<1>8. plan \in Seq(Paths) /\ Len(plan) \in Nat /\ DOMAIN plan = 1..Len(plan) /\ DOMAIN plan = 1..N
  <2>1. plan \in [1..N -> Paths] /\ DOMAIN plan = 1..N
    BY <1>6, <1>7
  <2>2. plan \in Seq(Paths)
    BY <2>1, SeqDef
  <2> QED BY <2>1, <2>2, LenProperties
<1>9. DOMAIN plan \subseteq DOMAIN Temporary
  <2>1. 1..Cardinality(Convertible) \subseteq DOMAIN Temporary
    BY DEF Assumed, DirectoriesAssumption, NamesTypeOK, Convertible
  <2>2. 1..N \subseteq 1..Cardinality(Convertible)
    BY <1>4, <1>5
  <2> QED BY <1>8, <2>1, <2>2
<1>10. \A i, j \in DOMAIN plan : plan[i] = plan[j] => i = j
  BY <1>6, <1>8
<1>11. \A i \in DOMAIN plan : plan[i] \in ToConvert /\ plan[i] \in Paths
  BY <1>6, <1>7, <1>8
<1>12. \A i, j \in DOMAIN plan : i < j => ~(Above(plan[i], plan[j]) /\ Len(plan[i]) < Len(plan[j]))
  BY <1>6, <1>11, PrefixIsAbove
<1>13. ASSUME NEW i \in DOMAIN plan
       PROVE  /\ plan[i] \in Paths /\ Converts(plan[i][Len(plan[i])])
              /\ \E k \in title : k \in DOMAIN named /\ Above(plan[i], k)
  <2>1. PICK e \in Paths : e = plan[i] /\ e \in ToConvert
    BY <1>11
  <2>2. e \in Entries /\ Converts(Last(e))
    BY <2>1 DEF ToConvert
  <2>3. PICK p \in DOMAIN named : Above(e, p)
    BY <1>1, <2>1, <2>2, EntriesAre
  <2>4. Last(e) = e[Len(e)]
    BY LastIs
  <2> QED BY <1>2, <2>1, <2>2, <2>3, <2>4
<1>14. \A e \in ToConvert : \E i \in DOMAIN plan : plan[i] = e
  <2>1. plan \in Injection(1..N, ToConvert)
    BY <1>6, <1>8, <1>10 DEF Injection, IsInjective
  <2>2. Cardinality(1..N) = N
    BY <1>5, FS_Interval
  <2>3. plan \in Surjection(1..N, ToConvert)
    BY <1>4, <1>5, <2>1, <2>2, FS_Injection
  <2> QED BY <1>8, <2>3 DEF Surjection
<1> QED BY <1>8, <1>9, <1>10, <1>12, <1>13, <1>14

\* A conversion starts, with a plan of what is there: the invariant is kept.
LEMMA StartConversionStep ==
    ASSUME Assumed, NamesInv, UNCHANGED title, StartConversion
    PROVE  NamesInv'
<1>1. /\ NamesTypeOK /\ PlanOK /\ ControlOK /\ TreeOK /\ ConvertingOK /\ Spelt /\ FoldApart /\ Times /\ Kept
  BY DEF NamesInv, TreeOK
<1>2. /\ up /\ stage = "idle" /\ record.state = "absent" /\ ~CannotStay
      /\ stage' = "moving" /\ step' = 1
      /\ UNCHANGED <<title, named, up, naming, known, clock, saved>>
  BY DEF StartConversion
<1>3. PICK plan \in Plans : record' = [state |-> "moving", plan |-> plan]
  BY DEF StartConversion
<1>4. /\ plan \in Seq(Paths) /\ Len(plan) \in Nat /\ DOMAIN plan = 1..Len(plan)
      /\ DOMAIN plan \subseteq DOMAIN Temporary
      /\ \A i, j \in DOMAIN plan : plan[i] = plan[j] => i = j
      /\ \A i, j \in DOMAIN plan : i < j => ~(Above(plan[i], plan[j]) /\ Len(plan[i]) < Len(plan[j]))
      /\ \A i \in DOMAIN plan :
           /\ plan[i] \in Paths /\ Converts(plan[i][Len(plan[i])])
           /\ \E k \in title : k \in DOMAIN named /\ Above(plan[i], k)
      /\ \A e \in ToConvert : \E i \in DOMAIN plan : plan[i] = e
  BY <1>1, <1>2, PlansAre
<1>5. \A p \in DOMAIN named : p = Key(p) /\ p \in title /\ \A n \in 1..Len(p) : Own(p, n) /\ p[n] \in Segments
  BY <1>1, <1>2, StillOwn
<1>6. DOMAIN named \subseteq Paths
  BY <1>1, FilesAre
<1>7. record'.state = "moving" /\ Plan' = plan /\ record'.plan = plan
      /\ record' \in [state : {"absent", "encoded", "moving", "placing"}, plan : Seq(Paths)]
  BY <1>3, <1>4 DEF Plan
<1>8. /\ Times' /\ Kept' /\ FoldApart' /\ (\A p : Key(p)' = Key(p)) /\ (\A p, n : Own(p, n)' <=> Own(p, n))
      /\ (\A s : Stays(s)' <=> Stays(s)) /\ (Remakes' <=> Remakes) /\ \A i : Used(i)' <=> Used(i)
  BY <1>1, <1>2, Recorded
<1>9. Spelt'
  <2>1. ASSUME NEW p \in DOMAIN named, NEW n \in 1..Len(p) PROVE Reads(p, n)'
    BY <1>5, <1>8, <2>1 DEF Reads
  <2> QED BY <1>1, <1>2, <1>8, <2>1 DEF Spelt
<1>10. KeysApart'
  <2>1. ASSUME NEW p \in DOMAIN named, NEW i \in DOMAIN plan, Covers(p, plan[i]) PROVE Above(plan[i], p)
    <3>1. PICK e \in Paths : e = plan[i] /\ \E k \in DOMAIN named : Above(e, k)
      BY <1>4
    <3>2. PICK q \in DOMAIN named : Above(e, q)
      BY <3>1
    <3>3. p \in Paths /\ q \in Paths /\ (Len(e) = 1 \/ Len(e) = 2)
      BY <1>6, TwoNames
    <3>4. /\ Len(e) = 2 => Len(q) = 2 /\ e[2] = q[2] /\ Len(p) = 2 /\ Fold[p[2]] = Fold[e[2]]
          /\ e[1] = q[1] /\ Fold[p[1]] = Fold[e[1]]
      BY <2>1, <3>1, <3>2, <3>3, TwoNamesApiece
    <3>5. p[1] = q[1] /\ (Len(e) = 2 => p[2] = q[2])
      BY <1>1, <3>4 DEF FoldApart, Apart
    <3>6. Above(e, p)
      BY <3>3, <3>4, <3>5, TwoNamesApiece
    <3> QED BY <3>1, <3>6
  <2>2. \A p \in DOMAIN named : Key(p)' = p
    BY <1>5, <1>8
  <2> QED BY <1>2, <1>7, <2>1, <2>2 DEF KeysApart
<1>11. TreeOK'
  BY <1>8, <1>9, <1>10 DEF TreeOK
<1>12. PlanOK'
  BY <1>2, <1>4, <1>7 DEF PlanOK
<1>13. OwnNewest'
  <2>1. ASSUME NEW p \in DOMAIN named PROVE named[p].at = saved[p]
    <3>1. Key(p) = p /\ p \in title /\ named[p].at <= saved[p] /\ p \in SaveKeys /\ named[p].at \in 1..MaxSaves
      <4>1. named[p] \in File
        BY <1>1 DEF NamesTypeOK
      <4> QED BY <1>1, <1>5, <4>1 DEF Times, Key, File
    <3>2. saved[p] # 0
      BY <1>1, <3>1 DEF NamesTypeOK
    <3>3. PICK q \in DOMAIN named : Key(q) = p /\ named[q].at = saved[p]
      BY <1>1, <3>1, <3>2 DEF Kept
    <3> QED BY <1>5, <3>3
  <2> QED BY <1>2, <2>1 DEF OwnNewest
<1>14. Sole' /\ Single' /\ Inner' /\ Proper'
  <2>1. Sole' /\ Single'
    BY <1>2, <1>5, <1>8 DEF Sole, Single
  <2>2. Inner' /\ Proper'
    BY <1>7 DEF Inner, Proper
  <2> QED BY <2>1, <2>2
<1>15. StayOwn'
  <2>1. ASSUME NEW p \in DOMAIN named, NEW n \in 1..Len(p), ~Listed(Key(p), n)' PROVE Stays(p[n])
    <3>1. Own(p, n) /\ p[n] \in Segments /\ Key(p) = p
      BY <1>5
    <3>2. ASSUME Converts(p[n]) PROVE FALSE
      <4>1. PICK e \in Entries : e \in Paths /\ Len(e) = n /\ Last(e) = p[n] /\ Above(e, p)
        BY <1>6, EntryOf
      <4>2. e \in ToConvert
        BY <3>1, <3>2, <4>1 DEF ToConvert
      <4>3. PICK i \in DOMAIN plan : plan[i] = e
        BY <1>4, <4>2
      <4>4. Lists(i, Key(p), n)'
        BY <1>7, <1>8, <3>1, <4>1, <4>3 DEF Lists
      <4> QED BY <1>7, <2>1, <4>3, <4>4 DEF Listed
    <3>3. Unambiguous(p[n]) /\ (p[n] \in Long \/ Encode[p[n]] = p[n])
      BY <1>1, <1>2, <3>1, <3>2, NothingToConvert
    <3> QED BY <3>3 DEF Stays
  <2>2. ASSUME NEW i \in DOMAIN plan, Used(i)' PROVE FALSE
    <3>0. PICK p \in DOMAIN named : \E n \in 1..Len(p) : p[n] = Temporary[i]
      BY <1>8, <2>2 DEF Used
    <3>1. PICK n \in 1..Len(p) : p[n] = Temporary[i]
      BY <3>0
    <3>2. p[n] \in SegmentNames
      BY <1>5, NamesAre DEF Assumed
    <3>3. i \in DOMAIN Temporary
      BY <1>4
    <3> QED BY <3>1, <3>2, <3>3, NamesAre DEF Assumed
  <2> QED BY <1>2, <1>7, <1>8, <2>1, <2>2 DEF StayOwn
<1>16. Nested'
  <2>1. ASSUME NEW p \in DOMAIN named', Len(p) = 2 PROVE Own(p, 1)'
    <3>1. 1 \in 1..Len(p)
      BY <2>1
    <3> QED BY <1>2, <1>5, <1>8, <2>1, <3>1
  <2> QED BY <2>1 DEF Nested
<1>17. ConvertingOK'
  BY <1>13, <1>14, <1>15, <1>16 DEF ConvertingOK
<1>18. Progress'
  <2>1. \A j \in DOMAIN plan : ~(j < 1)
    BY <1>4
  <2> QED BY <1>2, <1>7, <2>1 DEF Progress
<1>19. NamesTypeOK' /\ ControlOK' /\ PlainOK'
  <2>1. step' \in 0..Len(record'.plan) + 1
    BY <1>2, <1>4, <1>7
  <2>2. NamesTypeOK'
    BY <1>1, <1>2, <1>7, <2>1 DEF NamesTypeOK
  <2>3. ControlOK' /\ PlainOK'
    BY <1>1, <1>2, <1>7 DEF ControlOK, PlainOK, Nothing
  <2> QED BY <2>2, <2>3
<1> QED BY <1>11, <1>12, <1>17, <1>18, <1>19 DEF NamesInv

\* What an earlier build left satisfies the invariant.
LEMMA InitNames ==
    ASSUME Assumed, NamesInit
    PROVE  NamesInv
<1>1. PICK old \in SUBSET title :
        /\ \A k, l \in old : Folded(k) = Folded(l) => k = l
        /\ \A k, l \in old : Folded(SubSeq(k, 1, 1)) = Folded(SubSeq(l, 1, 1)) => k[1] = l[1]
        /\ named = [k \in old |-> [key |-> k, at |-> 1]]
        /\ saved = [k \in SaveKeys |-> IF k \in old THEN 1 ELSE 0]
  BY DEF NamesInit
<1>2. /\ title \in Titles /\ record = [state |-> "absent", plan |-> <<>>]
      /\ up = TRUE /\ stage = "idle" /\ step = 0 /\ naming = Nothing /\ known = Nothing /\ clock = 1
  BY DEF NamesInit
<1>3. MaxSaves \in Nat /\ 1 \in 1..MaxSaves
  BY DEF Assumed, NamesAssumption
<1>4. title \subseteq SaveKeys /\ \A k \in title : k \in Paths /\ \A n \in 1..Len(k) : k[n] \in Segments
  BY <1>2, KeysAre DEF Assumed
<1>5. DOMAIN named = old /\ DOMAIN named \subseteq Paths
      /\ \A p \in DOMAIN named : p \in title /\ Key(p) = p /\ named[p].at = 1 /\ named[p] \in File
  BY <1>1, <1>3, <1>4 DEF Key, File
<1>6. /\ record.state = "absent" /\ Plan = <<>> /\ record.plan = <<>>
      /\ record \in [state : {"absent", "encoded", "moving", "placing"}, plan : Seq(Paths)]
      /\ Len(record.plan) = 0
  BY <1>2 DEF Plan
<1>7. NamesTypeOK
  <2>1. saved \in [SaveKeys -> 0..MaxSaves]
    BY <1>1, <1>3
  <2>2. clock \in 1..MaxSaves /\ step \in 0..Len(record.plan) + 1
    BY <1>2, <1>3, <1>6
  <2>3. stage \in {"idle", "moving", "placing", "undoing", "settled"}
    BY <1>2
  <2>4. naming \in {Nothing, "plain", "encoded", "earlier", "converting"} /\ known \in {Nothing, "earlier", "converting"}
    BY <1>2
  <2>5. up \in BOOLEAN
    BY <1>2
  <2>6. DOMAIN named \subseteq Paths /\ \A p \in DOMAIN named : named[p] \in File
    BY <1>5
  <2> QED BY <1>2, <1>6, <2>1, <2>2, <2>3, <2>4, <2>5, <2>6, Zenon DEF NamesTypeOK
<1>8. PlanOK /\ ControlOK
  BY <1>2, <1>6 DEF PlanOK, ControlOK
<1>9. Spelt
  BY <1>5 DEF Spelt, Reads, Own
<1>10. FoldApart
  <2>1. ASSUME NEW p \in DOMAIN named, NEW q \in DOMAIN named, Fold[p[1]] = Fold[q[1]]
        PROVE  p[1] = q[1] /\ (Len(p) = 2 /\ Len(q) = 2 /\ Fold[p[2]] = Fold[q[2]] => p[2] = q[2])
    <3>1. p \in Paths /\ q \in Paths /\ (Len(p) = 1 \/ Len(p) = 2) /\ (Len(q) = 1 \/ Len(q) = 2)
      BY <1>5, TwoNames
    <3>2. 1 \in 1..Len(p) /\ 1 \in 1..Len(q) /\ 1 \in 1..1
      <4>1. ASSUME NEW e \in Paths PROVE 1 \in 1..Len(e)
        <5>1. CASE Len(e) = 1
          BY <5>1
        <5>2. CASE Len(e) = 2
          BY <5>2
        <5> QED BY <5>1, <5>2, TwoNames
      <4> QED BY <3>1, <4>1
    <3>3. PICK a \in Paths : a = SubSeq(p, 1, 1) /\ Len(a) = 1 /\ a[1] = p[1]
      BY <3>1, <3>2, FirstNames
    <3>4. PICK b \in Paths : b = SubSeq(q, 1, 1) /\ Len(b) = 1 /\ b[1] = q[1]
      BY <3>1, <3>2, FirstNames
    <3>5. Meets(a, b)
      <4>1. Fold[a[1]] = Fold[b[1]] /\ Len(a) = Len(b) /\ Len(a) = 1
        BY <2>1, <3>3, <3>4
      <4>2. \A n \in 1..Len(a) : n = 1
        BY <4>1
      <4> QED BY <4>1, <4>2 DEF Meets
    <3>6. Folded(a) = Folded(b)
      BY <3>5, MeetsIs
    <3>7. p[1] = q[1]
      BY <1>1, <1>5, <3>3, <3>4, <3>6
    <3>8. ASSUME Len(p) = 2, Len(q) = 2, Fold[p[2]] = Fold[q[2]] PROVE p = q
      <4>1. Meets(p, q)
        BY <2>1, <3>1, <3>8, TwoNamesApiece
      <4>2. Folded(p) = Folded(q)
        BY <3>1, <4>1, MeetsIs
      <4> QED BY <1>1, <1>5, <4>2
    <3> QED BY <3>7, <3>8
  <2> QED BY <2>1 DEF FoldApart, Apart
<1>11. Times
  <2>1. \A k \in title : saved[k] <= clock
    BY <1>1, <1>2, <1>4
  <2>2. \A p \in DOMAIN named : named[p].at <= saved[Key(p)]
    <3>1. ASSUME NEW p \in DOMAIN named PROVE named[p].at = 1 /\ saved[Key(p)] = 1
      BY <1>1, <1>4, <1>5
    <3> QED BY <3>1
  <2>3. \A p, q \in DOMAIN named : Key(p) = Key(q) /\ named[p].at = named[q].at => p = q
    BY <1>5
  <2> QED BY <2>1, <2>2, <2>3 DEF Times
<1>12. Kept
  <2>1. ASSUME NEW k \in title, saved[k] # 0 PROVE \E p \in DOMAIN named : Key(p) = k /\ named[p].at = saved[k]
    <3>1. k \in old /\ saved[k] = 1
      BY <1>1, <1>4, <2>1
    <3> QED BY <1>5, <3>1
  <2> QED BY <2>1 DEF Kept
<1>13. TreeOK
  BY <1>6, <1>9, <1>10, <1>11, <1>12 DEF TreeOK, KeysApart
<1>14. ConvertingOK
  BY <1>6 DEF ConvertingOK, OwnNewest, Sole, Single, StayOwn, Inner, Proper, Nested
<1>15. Progress /\ PlainOK
  BY <1>2 DEF Progress, PlainOK, Nothing
<1> QED BY <1>7, <1>8, <1>13, <1>14, <1>15 DEF NamesInv

\* An empty directory becomes an encoded one: the invariant is kept.
LEMMA BecomeEncodedStep ==
    ASSUME Assumed, NamesInv, UNCHANGED title, NEW k \in title, BecomeEncoded(k)
    PROVE  NamesInv'
<1>1. /\ NamesTypeOK /\ PlanOK /\ ControlOK /\ TreeOK /\ Spelt /\ FoldApart /\ Times /\ Kept /\ PlainOK
  BY DEF NamesInv, TreeOK
<1>2. /\ stage = "settled" /\ naming = "plain" /\ record' = [state |-> "encoded", plan |-> <<>>] /\ naming' = "encoded"
      /\ UNCHANGED <<title, named, up, stage, step, known, clock, saved>>
  BY DEF BecomeEncoded
<1>3. record.state = "absent" /\ up
  BY <1>1, <1>2 DEF ControlOK
<1>4. record'.state = "encoded" /\ Plan' = <<>> /\ record'.plan = <<>> /\ Len(record'.plan) = 0
  BY <1>2 DEF Plan
<1>5. /\ Times' /\ Kept' /\ FoldApart' /\ (\A p : Key(p)' = Key(p)) /\ (\A p, n : Own(p, n)' <=> Own(p, n))
      /\ (\A s : Stays(s)' <=> Stays(s))
  BY <1>1, <1>2, Recorded
<1>6. \A p \in DOMAIN named : p = Key(p) /\ p \in title /\ \A n \in 1..Len(p) : Own(p, n)
  BY <1>1, <1>3, StillOwn
<1>7. Spelt'
  <2>1. \A p \in DOMAIN named : \A n \in 1..Len(p) : Reads(p, n)'
    BY <1>5, <1>6 DEF Reads
  <2> QED BY <1>1, <1>2, <1>5, <2>1 DEF Spelt
<1>8. TreeOK' /\ PlanOK'
  <2>1. PlanOK'
    BY <1>4 DEF PlanOK
  <2> QED BY <1>4, <1>5, <1>7, <2>1 DEF TreeOK, KeysApart
<1>9. StayOwn'
  <2>1. \A p \in DOMAIN named : \A n \in 1..Len(p) : Stays(p[n])
    BY <1>1, <1>2 DEF PlainOK, Stays
  <2> QED BY <1>2, <1>4, <1>5, <2>1 DEF StayOwn
<1>10. ConvertingOK'
  BY <1>4, <1>9 DEF ConvertingOK, OwnNewest, Sole, Single, Inner, Proper, Nested
<1>11. NamesTypeOK'
  <2>1. step \in 0..Len(record'.plan) + 1
    BY <1>1, <1>3, <1>4 DEF NamesTypeOK, PlanOK, Plan
  <2>2. record' \in [state : {"absent", "encoded", "moving", "placing"}, plan : Seq(Paths)]
    BY <1>2
  <2> QED BY <1>1, <1>2, <2>1, <2>2 DEF NamesTypeOK
<1>12. ControlOK' /\ PlainOK' /\ Progress'
  BY <1>2, <1>3, <1>4 DEF ControlOK, PlainOK, Progress
<1> QED BY <1>8, <1>10, <1>11, <1>12 DEF NamesInv

-----------------------------------------------------------------------------
(***************************************************************************)
(* Trees whose names an encoded directory may have.                        *)
(***************************************************************************)
Fitting(tree, p, n) ==
    \/ p[n] = tree[p].key[n] /\ Stays(p[n])
    \/ tree[p].key[n] \notin Long /\ p[n] = Encode[tree[p].key[n]]

InOrder(tree) ==
    /\ DOMAIN tree \subseteq Paths
    /\ \A p \in DOMAIN tree : /\ tree[p] \in File /\ tree[p].key \in title /\ Len(p) = Len(tree[p].key)
                              /\ \A n \in 1..Len(p) : Fitting(tree, p, n)
    /\ Apart(tree)

\* The tree has the last save under each key, and what is older besides.
Has(tree, when) ==
    /\ \A p \in DOMAIN tree : tree[p].at <= when[tree[p].key]
    /\ \A p, q \in DOMAIN tree : tree[p].key = tree[q].key /\ tree[p].at = tree[q].at => p = q
    /\ \A k \in title : when[k] # 0 => \E p \in DOMAIN tree : tree[p].key = k /\ tree[p].at = when[k]

\* The files of an encoded directory, and of one settled as plain, are in order.
LEMMA NamedInOrder ==
    ASSUME Assumed, NamesInv, record.state = "encoded" \/ naming = "plain"
    PROVE  InOrder(named) /\ Has(named, saved)
<1>1. NamesTypeOK /\ PlanOK /\ ControlOK /\ Spelt /\ FoldApart /\ Times /\ Kept /\ StayOwn /\ PlainOK
  BY DEF NamesInv, TreeOK, ConvertingOK
<1>2. DOMAIN named \subseteq Paths /\ Apart(named)
      /\ \A p \in DOMAIN named : named[p] \in File /\ Key(p) \in title /\ Len(p) = Len(Key(p))
  BY <1>1, FilesAre DEF FoldApart, NamesTypeOK
<1>3. ASSUME NEW p \in DOMAIN named, NEW n \in 1..Len(p) PROVE Fitting(named, p, n)
  <2>1. Reads(p, n)
    BY <1>1 DEF Spelt
  <2>2. CASE record.state = "encoded"
    <3>1. Plan = <<>>
      BY <1>1, <2>2 DEF PlanOK
    <3>2. Own(p, n) \/ Encoded(p, n)
      BY <2>1, <2>2 DEF Reads
    <3> QED BY <1>1, <2>2, <3>2 DEF StayOwn, Own, Encoded, Fitting, Key
  <2>3. CASE record.state # "encoded"
    <3>1. naming = "plain" /\ record.state = "absent"
      <4>1. naming = "plain"
        BY <2>3
      <4>2. stage = "settled"
        BY <1>1, <4>1 DEF ControlOK, Nothing
      <4> QED BY <1>1, <4>1, <4>2 DEF ControlOK
    <3>2. Own(p, n)
      BY <2>1, <3>1 DEF Reads
    <3>3. Stays(p[n])
      BY <1>1, <3>1 DEF PlainOK, Stays
    <3> QED BY <3>2, <3>3 DEF Own, Fitting, Key
  <2> QED BY <2>2, <2>3
<1>4. InOrder(named)
  BY <1>2, <1>3 DEF InOrder, Key
<1>5. Has(named, saved)
  BY <1>1 DEF Has, Times, Kept, Key
<1> QED BY <1>4, <1>5

\* The encoded path of a key.
LEMMA EncodedPathIs ==
    ASSUME Assumed, title \in Titles, NEW k \in title
    PROVE  /\ EncodedPath(k) \in Paths /\ Len(EncodedPath(k)) = Len(k) /\ k \in Paths
           /\ Len(k) = 1 \/ Len(k) = 2
           /\ \A n \in 1..Len(k) : EncodedPath(k)[n] = Encode[k[n]] /\ k[n] \in Segments /\ k[n] \in SegmentsOf(title)
<1>1. k \in Paths /\ \A n \in 1..Len(k) : k[n] \in Segments /\ k[n] \in SegmentsOf(title)
  BY KeysAre DEF Assumed
<1>2. DOMAIN k = 1..Len(k) /\ (Len(k) = 1 \/ Len(k) = 2)
  BY <1>1, PathShape, TwoNames
<1>3. \A n \in 1..Len(k) : Encode[k[n]] \in Names
  BY <1>1, NamesAre DEF Assumed, Names
<1>4. PICK e : e = EncodedPath(k)
  OBVIOUS
<1>5. e \in [1..Len(k) -> Names] /\ \A n \in 1..Len(k) : e[n] = Encode[k[n]]
  BY <1>2, <1>3, <1>4 DEF EncodedPath
<1>6. Len(k) \in Nat
  BY <1>2
<1>7. e \in Seq(Names)
  BY <1>5, <1>6, SeqDef
<1>8. Len(e) = Len(k)
  <2>1. DOMAIN e = 1..Len(e) /\ DOMAIN e = 1..Len(k) /\ Len(e) \in Nat
    BY <1>5, <1>7, LenProperties
  <2>2. 1..Len(e) = 1..Len(k)
    BY <2>1, Zenon
  <2> QED BY <1>6, <2>1, <2>2, SameInterval
<1>9. e \in Paths
  <2>1. Len(e) \in 1..2
    BY <1>2, <1>8
  <2> QED BY <1>7, <2>1, PathIs
<1> QED BY <1>1, <1>2, <1>4, <1>5, <1>8, <1>9

\* A file the volume takes for a key's encoded name is of that key's segment.
LEMMA EncodedApart ==
    ASSUME Assumed, title \in Titles, NEW tree, InOrder(tree), NEW k \in title, Fits(k),
           NEW p \in DOMAIN tree, NEW n \in 1..Len(p), n \in 1..Len(k), Fold[p[n]] = Fold[Encode[k[n]]]
    PROVE  p[n] = Encode[k[n]] /\ tree[p].key[n] = k[n]
<1>1. PICK s : s = tree[p].key[n]
  OBVIOUS
<1>2. PICK r : r = k[n]
  OBVIOUS
<1>3. p \in Paths /\ tree[p].key \in title /\ Len(p) = Len(tree[p].key) /\ Fitting(tree, p, n)
  BY DEF InOrder
<1>4. s \in Segments /\ s \in SegmentsOf(title)
  BY <1>1, <1>3, EncodedPathIs
<1>5. r \in Segments /\ r \in SegmentsOf(title) /\ DOMAIN k = 1..Len(k)
  BY <1>2, EncodedPathIs, PathShape
<1>6. r \notin Long
  BY <1>2, <1>5 DEF Fits
<1>7. Fold[p[n]] = Fold[Encode[r]]
  BY <1>2
<1>8. CASE s \notin Long /\ p[n] = Encode[s]
  BY <1>1, <1>2, <1>4, <1>5, <1>6, <1>7, <1>8, NamesAre DEF Assumed
<1>9. CASE p[n] = s /\ Stays(s)
  <2>1. Unambiguous(s)
    BY <1>9 DEF Stays
  <2>2. ASSUME s = Encode[r] PROVE p[n] = Encode[r] /\ s = r
    BY <1>4, <1>5, <1>9, <2>1, <2>2, ReadsAs DEF Assumed
  <2>3. CASE s \in Long
    <3>1. s = Encode[r]
      BY <1>4, <1>5, <1>6, <1>7, <1>9, <2>3 DEF Assumed, DirectoriesAssumption
    <3> QED BY <1>1, <1>2, <2>2, <3>1
  <2>4. CASE Encode[s] = s
    <3>1. s \notin Long
      BY <2>4, NamesAre DEF Assumed
    <3>2. s = r
      BY <1>4, <1>5, <1>6, <1>7, <1>9, <2>4, <3>1, NamesAre DEF Assumed
    <3> QED BY <1>1, <1>2, <1>9, <2>4, <3>2
  <2>5. CASE NamesApart
    <3>1. s = Encode[r]
      BY <1>4, <1>5, <1>7, <1>9, <2>5 DEF NamesApart
    <3> QED BY <1>1, <1>2, <2>2, <3>1
  <2> QED BY <1>9, <2>3, <2>4, <2>5 DEF Stays
<1> QED BY <1>1, <1>3, <1>8, <1>9 DEF Fitting

\* So the volume answers a key's encoded path with that path and no other key's.
LEMMA EncodedCovers ==
    ASSUME Assumed, title \in Titles, NEW tree, InOrder(tree), NEW k \in title, Fits(k),
           NEW p \in DOMAIN tree, Covers(p, EncodedPath(k))
    PROVE  p = EncodedPath(k) /\ tree[p].key = k
<1>1. /\ EncodedPath(k) \in Paths /\ Len(EncodedPath(k)) = Len(k) /\ k \in Paths /\ (Len(k) = 1 \/ Len(k) = 2)
      /\ \A n \in 1..Len(k) : EncodedPath(k)[n] = Encode[k[n]]
  BY EncodedPathIs
<1>2. p \in Paths /\ tree[p].key \in title /\ Len(p) = Len(tree[p].key) /\ (Len(p) = 1 \/ Len(p) = 2)
  BY TwoNames DEF InOrder
<1>3. tree[p].key \in Paths
  BY <1>2, EncodedPathIs
<1>4. Len(k) <= Len(p) /\ \A n \in 1..Len(k) : Fold[p[n]] = Fold[Encode[k[n]]]
  BY <1>1 DEF Covers
<1>5. \A n \in 1..Len(k) : n \in 1..Len(p)
  BY <1>1, <1>2, <1>4
<1>6. \A n \in 1..Len(k) : p[n] = Encode[k[n]] /\ tree[p].key[n] = k[n]
  BY <1>4, <1>5, EncodedApart
<1>7. Above(k, tree[p].key)
  BY <1>2, <1>4, <1>6 DEF Above
<1>8. tree[p].key = k
  BY <1>2, <1>7, KeysAre DEF Assumed
<1>9. p = EncodedPath(k)
  BY <1>1, <1>2, <1>6, <1>8, SamePath
<1> QED BY <1>8, <1>9

\* Every name reads as its segment.
LEMMA ReadsAsKey ==
    ASSUME Assumed, title \in Titles, NEW tree, InOrder(tree), NEW p \in DOMAIN tree, NEW n \in 1..Len(p)
    PROVE  ReadName(p[n]) = tree[p].key[n]
<1>1. tree[p].key \in title /\ Len(p) = Len(tree[p].key) /\ Fitting(tree, p, n)
  BY DEF InOrder
<1>2. tree[p].key[n] \in Segments
  BY <1>1, EncodedPathIs
<1> QED BY <1>1, <1>2, ReadsAs DEF Assumed, Fitting, Stays, Unambiguous

\* A file of an ordered tree that has a key's encoded path is the key's.
LEMMA SpellsKey ==
    ASSUME Assumed, title \in Titles, NEW tree, InOrder(tree), NEW p \in DOMAIN tree, NEW k \in title, Len(p) = Len(k)
    PROVE  (\A n \in DOMAIN k : p[n] \in Spellings(k[n])) <=> tree[p].key = k
<1>1. tree[p].key \in title /\ Len(p) = Len(tree[p].key) /\ \A n \in 1..Len(p) : Fitting(tree, p, n)
  BY DEF InOrder
<1>2. k \in Paths /\ tree[p].key \in Paths /\ DOMAIN k = 1..Len(p) /\ \A n \in 1..Len(p) : k[n] \in Segments
  BY <1>1, EncodedPathIs, PathShape
<1>3. ASSUME NEW n \in 1..Len(p) PROVE p[n] \in Spellings(k[n]) <=> tree[p].key[n] = k[n]
  <2>1. ReadName(p[n]) = tree[p].key[n]
    BY ReadsAsKey
  <2>2. p[n] \in Spellings(k[n]) => ReadName(p[n]) = k[n]
    BY <1>2, ReadsAs DEF Spellings, Unambiguous, Assumed
  <2>3. tree[p].key[n] = k[n] => p[n] \in Spellings(k[n])
    BY <1>1 DEF Fitting, Stays, Spellings
  <2> QED BY <2>1, <2>2, <2>3
<1>4. tree[p].key = k <=> \A n \in 1..Len(p) : tree[p].key[n] = k[n]
  BY <1>1, <1>2, SamePath
<1> QED BY <1>2, <1>3, <1>4

\* A name alone is a path.
LEMMA OneNamePath ==
    ASSUME NEW x \in Names
    PROVE  <<x>> \in Paths /\ Len(<<x>>) = 1 /\ <<x>>[1] = x
<1>1. PICK p : p = <<x>>
  OBVIOUS
<1>2. p \in Seq(Names) /\ Len(p) = 1 /\ p[1] = x
  BY <1>1
<1>3. Len(p) \in 1..2
  BY <1>2
<1>4. p \in Paths
  BY <1>2, <1>3, PathIs
<1> QED BY <1>1, <1>2, <1>4

\* A lookup of an encoded path finds the key's own file, if any.
LEMMA EncodedOnDisk ==
    ASSUME Assumed, title \in Titles, InOrder(named), NEW k \in title, Fits(k)
    PROVE  /\ OnDisk(EncodedPath(k)) = {EncodedPath(k)} \cap DOMAIN named
           /\ EncodedPath(k) \in DOMAIN named => Key(EncodedPath(k)) = k
<1>1. PICK e \in Paths : e = EncodedPath(k)
  BY EncodedPathIs
<1>2. DOMAIN named \subseteq Paths
  BY DEF InOrder
<1>3. \A p \in DOMAIN named : Covers(p, e) => p = e /\ Key(p) = k
  BY <1>1, EncodedCovers DEF Key
<1>4. Covers(e, e) /\ Above(e, e)
  BY DEF Covers, Above
<1>5. ASSUME NEW d \in OnDisk(e) PROVE d = e /\ d \in DOMAIN named
  <2>1. d \in Paths /\ d \in Entries /\ Meets(d, e)
    BY <1>2, AnswersAre
  <2>2. PICK p \in DOMAIN named : Above(d, p)
    BY <1>2, <2>1, EntriesAre
  <2>3. p \in Paths
    BY <1>2
  <2>4. Covers(p, e)
    BY <2>1, <2>2, <2>3, TwoNamesApiece
  <2>5. p = e
    BY <1>3, <2>4
  <2>6. Len(d) = Len(e)
    BY <2>1 DEF Meets
  <2>7. d = e
    BY <2>1, <2>2, <2>5, <2>6, TwoNamesApiece
  <2> QED BY <2>5, <2>7
<1>6. ASSUME e \in DOMAIN named PROVE e \in OnDisk(e)
  <2>1. e \in Seq(Names)
    BY PathShape
  <2>2. SubSeq(e, 1, Len(e)) = e
    BY <2>1, SubSeqFull
  <2> QED BY <1>2, <1>4, <1>6, <2>2, AnswersAre
<1> QED BY <1>1, <1>3, <1>4, <1>5, <1>6

\* An earlier directory moves whole to its encoded name.
Carries(tree, when, p, after, at) ==
    /\ InOrder(after) /\ Has(after, when) /\ at \in DOMAIN after /\ after[at] = tree[p]
    /\ \A r \in DOMAIN after : \E q \in DOMAIN tree : after[r] = tree[q]

\* Moving a whole directory to its encoded name keeps the order of the files.
LEMMA WholeMove ==
    ASSUME Assumed, title \in Titles, NEW tree, NEW when, InOrder(tree), Has(tree, when),
           NEW k \in title, Fits(k), Len(k) = 2,
           NEW p \in DOMAIN tree, tree[p].key = k, Free(tree, <<Encode[k[1]]>>)
    PROVE  \E after, at :
             /\ after = Renamed(tree, <<p[1]>>, <<Encode[k[1]]>>) /\ at = [p EXCEPT ![1] = Encode[k[1]]]
             /\ Carries(tree, when, p, after, at)
<1>1. /\ DOMAIN tree \subseteq Paths /\ Apart(tree)
      /\ \A q \in DOMAIN tree : /\ q \in Paths /\ (Len(q) = 1 \/ Len(q) = 2)
                                /\ tree[q] \in File /\ tree[q].key \in title /\ Len(q) = Len(tree[q].key)
                                /\ \A n \in 1..Len(q) : Fitting(tree, q, n)
  BY TwoNames DEF InOrder
<1>2. PICK E : E = Encode[k[1]]
  OBVIOUS
<1>3. 1 \in 1..Len(k) /\ 1 \in 1..Len(p) /\ Len(p) = 2
  <2>1. Len(p) = 2
    BY <1>1
  <2> QED BY <2>1
<1>4. E \in Names /\ p[1] \in Names /\ k[1] \notin Long /\ k[1] \in Segments
  <2>1. k[1] \in Segments /\ DOMAIN k = 1..Len(k)
    BY <1>3, EncodedPathIs, PathShape
  <2>2. k[1] \notin Long
    BY <1>3, <2>1 DEF Fits
  <2> QED BY <1>1, <1>2, <2>1, <2>2, TwoNames, NamesAre DEF Assumed, Names
<1>5. PICK e \in Paths : e = <<p[1]>> /\ Len(e) = 1 /\ e[1] = p[1]
  BY <1>4, OneNamePath
<1>6. PICK t \in Paths : t = <<E>> /\ Len(t) = 1 /\ t[1] = E
  BY <1>4, OneNamePath
<1>7. Free(tree, t) /\ SpelledIn(tree, t) /\ Len(e) = Len(t)
  BY <1>2, <1>5, <1>6 DEF SpelledIn
<1>8. PICK after : after = Renamed(tree, e, t)
  OBVIOUS
<1>9. \E m : Relocates(tree, m, after) /\ Brings(tree, m, e, t)
  BY <1>1, <1>7, <1>8, FreeRename
<1>10. DOMAIN after \subseteq Paths /\ Apart(after)
  BY <1>1, <1>7, <1>8, FreeRename
<1>11. PICK m : Relocates(tree, m, after) /\ Brings(tree, m, e, t)
  BY <1>9
<1>12. /\ \A q \in DOMAIN tree : m[q] \in DOMAIN after /\ m[q] \in Paths /\ after[m[q]] = tree[q] /\ Len(m[q]) = Len(q)
       /\ \A r \in DOMAIN after : \E q \in DOMAIN tree : r = m[q]
  BY <1>11 DEF Relocates
<1>13. ASSUME NEW q \in DOMAIN tree
       PROVE  /\ q[1] = p[1] => m[q][1] = E /\ tree[q].key[1] = k[1]
              /\ q[1] # p[1] => m[q] = q
              /\ Len(q) = 2 => m[q][2] = q[2]
  <2>1. Above(e, q) <=> q[1] = p[1]
    BY <1>1, <1>5, TwoNamesApiece
  <2>2. /\ ~Above(e, q) => m[q] = q
        /\ Above(e, q) => m[q][1] = E /\ (Len(q) = 2 => m[q][2] = q[2])
    BY <1>6, <1>11 DEF Brings
  <2>3. ASSUME q[1] = p[1] PROVE tree[q].key[1] = k[1]
    <3>1. 1 \in 1..Len(q)
      <4>1. CASE Len(q) = 1
        BY <4>1
      <4>2. CASE Len(q) = 2
        BY <4>2
      <4> QED BY <1>1, <4>1, <4>2
    <3>2. ReadName(q[1]) = tree[q].key[1]
      BY <3>1, ReadsAsKey
    <3>3. ReadName(p[1]) = tree[p].key[1]
      BY <1>3, ReadsAsKey
    <3> QED BY <2>3, <3>2, <3>3
  <2> QED BY <2>1, <2>2, <2>3
<1>14. ASSUME NEW q \in DOMAIN tree, NEW n \in 1..Len(m[q]) PROVE Fitting(after, m[q], n)
  <2>1. n \in 1..Len(q) /\ after[m[q]].key = tree[q].key
    BY <1>12
  <2>2. Fitting(tree, q, n)
    BY <1>1, <2>1
  <2>3. n = 1 \/ (n = 2 /\ Len(q) = 2)
    <3>1. CASE Len(q) = 1
      BY <2>1, <3>1
    <3>2. CASE Len(q) = 2
      BY <2>1, <3>2
    <3> QED BY <1>1, <3>1, <3>2
  <2>4. CASE n = 1 /\ q[1] = p[1]
    BY <1>2, <1>4, <1>13, <2>1, <2>4 DEF Fitting
  <2>5. CASE ~(n = 1 /\ q[1] = p[1])
    <3>1. m[q][n] = q[n]
      BY <1>13, <2>3, <2>5
    <3> QED BY <2>1, <2>2, <3>1 DEF Fitting
  <2> QED BY <2>4, <2>5
<1>15. InOrder(after)
  <2>1. ASSUME NEW q \in DOMAIN tree
        PROVE  /\ after[m[q]] \in File /\ after[m[q]].key \in title /\ Len(m[q]) = Len(after[m[q]].key)
               /\ \A n \in 1..Len(m[q]) : Fitting(after, m[q], n)
    BY <1>1, <1>12, <1>14
  <2> QED BY <1>10, <1>12, <2>1 DEF InOrder
<1>16. Has(after, when)
  <2>1. \A q \in DOMAIN after : after[q].at <= when[after[q].key]
    BY <1>12 DEF Has
  <2>2. \A q, r \in DOMAIN after : after[q].key = after[r].key /\ after[q].at = after[r].at => q = r
    BY <1>12 DEF Has
  <2>3. \A l \in title : when[l] # 0 => \E q \in DOMAIN after : after[q].key = l /\ after[q].at = when[l]
    BY <1>12 DEF Has
  <2> QED BY <2>1, <2>2, <2>3 DEF Has
<1>17. PICK at : at = [p EXCEPT ![1] = E]
  OBVIOUS
<1>18. at = m[p]
  <2>1. p \in Paths
    BY <1>1
  <2>2. /\ [p EXCEPT ![1] = E] \in Paths /\ Len([p EXCEPT ![1] = E]) = Len(p)
        /\ \A j \in 1..Len(p) : [p EXCEPT ![1] = E][j] = IF j = 1 THEN E ELSE p[j]
    <3>1. PICK o \in Paths : o = p
      BY <2>1
    <3>2. PICK n \in 1..Len(o) : n = 1
      BY <1>3, <3>1
    <3>3. /\ [o EXCEPT ![n] = E] \in Paths /\ Len([o EXCEPT ![n] = E]) = Len(o)
          /\ \A j \in 1..Len(o) : [o EXCEPT ![n] = E][j] = IF j = n THEN E ELSE o[j]
      BY <1>4, Renames
    <3> QED BY <3>1, <3>2, <3>3
  <2>3. at \in Paths /\ Len(at) = 2 /\ at[1] = E /\ at[2] = p[2]
    <3>1. 1 \in 1..Len(p) /\ 2 \in 1..Len(p)
      BY <1>3
    <3> QED BY <1>3, <1>17, <2>2, <3>1
  <2>4. m[p] \in Paths /\ Len(m[p]) = 2 /\ m[p][1] = E /\ m[p][2] = p[2]
    BY <1>3, <1>12, <1>13
  <2> QED BY <2>3, <2>4, TwoNamesApiece
<1>19. at \in DOMAIN after /\ after[at] = tree[p]
  BY <1>12, <1>18
<1>20. \A r \in DOMAIN after : \E q \in DOMAIN tree : after[r] = tree[q]
  BY SMTT(60), <1>12
<1>21. Carries(tree, when, p, after, at)
  BY <1>15, <1>16, <1>19, <1>20 DEF Carries
<1>22. after = Renamed(tree, <<p[1]>>, <<Encode[k[1]]>>) /\ at = [p EXCEPT ![1] = Encode[k[1]]]
  BY <1>2, <1>5, <1>6, <1>8, <1>17
<1> QED BY <1>21, <1>22

\* A file moves to the encoded path of its key, over an older one there.
LEMMA LastMove ==
    ASSUME Assumed, title \in Titles, NEW tree, NEW when, when \in [SaveKeys -> Nat], InOrder(tree), Has(tree, when),
           NEW k \in title, Fits(k), NEW at \in DOMAIN tree, tree[at].key = k,
           EncodedPath(k) \in DOMAIN tree => at = EncodedPath(k) \/ tree[EncodedPath(k)].at < tree[at].at
    PROVE  InOrder(Renamed(tree, at, EncodedPath(k))) /\ Has(Renamed(tree, at, EncodedPath(k)), when)
<1>1. /\ DOMAIN tree \subseteq Paths /\ Apart(tree)
      /\ \A q \in DOMAIN tree : /\ q \in Paths /\ (Len(q) = 1 \/ Len(q) = 2)
                                /\ tree[q] \in File /\ tree[q].key \in title /\ Len(q) = Len(tree[q].key)
                                /\ \A n \in 1..Len(q) : Fitting(tree, q, n)
  BY TwoNames DEF InOrder
<1>2. PICK t \in Paths : /\ t = EncodedPath(k) /\ Len(t) = Len(k) /\ (Len(k) = 1 \/ Len(k) = 2)
                         /\ \A n \in 1..Len(k) : t[n] = Encode[k[n]]
  BY EncodedPathIs
<1>3. at \in Paths /\ Len(at) = Len(t)
  BY <1>1, <1>2
<1>4. \A q \in DOMAIN tree : Covers(q, t) => q = t /\ tree[q].key = k
  BY <1>2, EncodedCovers
<1>5. ASSUME NEW q \in DOMAIN tree
      PROVE  (Above(at, q) <=> q = at) /\ (Above(t, q) <=> q = t)
  <2>1. q \in Paths /\ tree[q].key \in title /\ Len(q) = Len(tree[q].key)
        /\ tree[q].key \in Paths /\ k \in Paths
    BY <1>1, EncodedPathIs
  <2>2. ASSUME Above(at, q) PROVE q = at
    <3>1. \A n \in 1..Len(at) : n \in 1..Len(q) /\ at[n] = q[n]
      <4>1. Len(at) <= Len(q) /\ \A n \in 1..Len(at) : at[n] = q[n]
        BY <2>2 DEF Above
      <4>2. (Len(at) = 1 \/ Len(at) = 2) /\ (Len(q) = 1 \/ Len(q) = 2)
        BY <1>1
      <4> QED BY <4>1, <4>2
    <3>2. \A n \in 1..Len(k) : k[n] = tree[q].key[n]
      <4>1. ASSUME NEW n \in 1..Len(k) PROVE k[n] = tree[q].key[n]
        <5>1. n \in 1..Len(at) /\ n \in 1..Len(q) /\ at[n] = q[n]
          BY <1>2, <1>3, <3>1
        <5>2. ReadName(at[n]) = tree[at].key[n]
          BY <5>1, ReadsAsKey
        <5>3. ReadName(q[n]) = tree[q].key[n]
          BY <5>1, ReadsAsKey
        <5> QED BY <5>1, <5>2, <5>3
      <4> QED BY <4>1
    <3>3. Above(k, tree[q].key)
      BY <1>2, <1>3, <2>1, <2>2, <3>2 DEF Above
    <3>4. tree[q].key = k
      BY <2>1, <3>3, KeysAre DEF Assumed
    <3> QED BY <1>2, <1>3, <2>1, <2>2, <3>4, TwoNamesApiece
  <2>3. ASSUME Above(t, q) PROVE q = t
    <3>1. Covers(q, t)
      BY <2>3 DEF Above, Covers
    <3> QED BY <1>4, <3>1
  <2>4. Above(at, at) /\ Above(t, t)
    BY DEF Above
  <2> QED BY <2>2, <2>3, <2>4
<1>6. Onto(at, t) = t
  <2>1. Len(t) <= Len(at)
    BY <1>2, <1>3
  <2>2. PICK b : b = Onto(at, t)
    OBVIOUS
  <2>3. b \in Paths /\ Len(b) = Len(at) /\ \A n \in 1..Len(at) : b[n] = IF n <= Len(t) THEN t[n] ELSE at[n]
    BY <1>3, <2>1, <2>2, OntoIs
  <2>4. \A n \in 1..Len(t) : b[n] = t[n]
    BY <1>2, <1>3, <2>3
  <2> QED BY <1>3, <2>2, <2>3, <2>4, SamePath
<1>7. Stands(tree, at, t)
  BY <1>5, <1>6 DEF Stands
<1>8. PICK after : after = Renamed(tree, at, t)
  OBVIOUS
<1>9. /\ DOMAIN after = {p \in DOMAIN tree : ~Above(at, p) /\ ~Above(t, p)}
                        \cup {Onto(p, t) : p \in {q \in DOMAIN tree : Above(at, q)}}
      /\ \A p \in DOMAIN tree :
            /\ Above(at, p) => after[Onto(p, t)] = tree[p]
            /\ ~Above(at, p) /\ ~Above(t, p) => after[p] = tree[p]
  <2>1. /\ DOMAIN Renamed(tree, at, t) =
                {p \in DOMAIN tree : ~Above(at, p) /\ ~Above(t, p)}
                \cup {Onto(p, t) : p \in {q \in DOMAIN tree : Above(at, q)}}
        /\ \A p \in DOMAIN tree :
              /\ Above(at, p) => Renamed(tree, at, t)[Onto(p, t)] = tree[p]
              /\ ~Above(at, p) /\ ~Above(t, p) => Renamed(tree, at, t)[p] = tree[p]
    BY <1>1, <1>3, <1>7, RenamedIs, Zenon
  <2> QED BY <1>8, <2>1
<1>10. /\ DOMAIN after = {p \in DOMAIN tree : p # at /\ p # t} \cup {t}
       /\ after[t] = tree[at]
       /\ \A p \in DOMAIN tree : p # at /\ p # t => after[p] = tree[p]
  BY <1>5, <1>6, <1>9
<1>11. ASSUME NEW n \in 1..Len(t) PROVE Fitting(after, t, n)
  <2>1. n \in DOMAIN k
    BY <1>2, EncodedPathIs, PathShape
  <2> QED BY <1>2, <1>10, <2>1 DEF Fitting, Fits
<1>12. ASSUME NEW p \in DOMAIN tree, p # at, p # t, NEW n \in 1..Len(p) PROVE Fitting(after, p, n)
  BY <1>1, <1>10, <1>12 DEF Fitting
<1>13. Apart(after)
  <2>1. ASSUME NEW p \in DOMAIN tree, Fold[p[1]] = Fold[t[1]]
        PROVE  p[1] = t[1] /\ (Len(p) = 2 /\ Len(t) = 2 /\ Fold[p[2]] = Fold[t[2]] => p[2] = t[2])
    <3>1. 1 \in 1..Len(p) /\ 1 \in 1..Len(k)
      <4>1. ASSUME NEW q \in Paths PROVE 1 \in 1..Len(q)
        <5>1. CASE Len(q) = 1
          BY <5>1
        <5>2. CASE Len(q) = 2
          BY <5>2
        <5> QED BY <5>1, <5>2, TwoNames
      <4> QED BY <1>1, <4>1, EncodedPathIs
    <3>2. p[1] = t[1]
      BY <1>2, <2>1, <3>1, EncodedApart
    <3>3. ASSUME Len(p) = 2, Len(t) = 2, Fold[p[2]] = Fold[t[2]] PROVE p[2] = t[2]
      <4>1. 2 \in 1..Len(p) /\ 2 \in 1..Len(k)
        BY <1>2, <3>3
      <4>2. t[2] = Encode[k[2]] /\ Fold[p[2]] = Fold[Encode[k[2]]]
        BY <1>2, <3>3, <4>1
      <4>3. p[2] = Encode[k[2]]
        BY <4>1, <4>2, EncodedApart
      <4> QED BY <4>2, <4>3
    <3> QED BY <3>2, <3>3
  <2>2. \A p \in DOMAIN after : p = t \/ p \in DOMAIN tree
    BY <1>10
  <2> QED BY <1>1, <2>1, <2>2 DEF Apart
<1>14. InOrder(after)
  <2>1. DOMAIN after \subseteq Paths
    BY <1>1, <1>10
  <2>2. after[t] \in File /\ after[t].key \in title /\ Len(t) = Len(after[t].key)
    BY <1>1, <1>2, <1>10
  <2>3. \A p \in DOMAIN tree : p # at /\ p # t => after[p] \in File /\ after[p].key \in title /\ Len(p) = Len(after[p].key)
    BY <1>1, <1>10
  <2> QED BY <1>10, <1>11, <1>12, <1>13, <2>1, <2>2, <2>3 DEF InOrder
<1>15. Has(after, when)
  <2>1. \A q \in DOMAIN after : after[q].at <= when[after[q].key]
    BY <1>10 DEF Has
  <2>2. \A q, r \in DOMAIN after : after[q].key = after[r].key /\ after[q].at = after[r].at => q = r
    BY <1>10 DEF Has
  <2>3. ASSUME NEW l \in title, when[l] # 0 PROVE \E q \in DOMAIN after : after[q].key = l /\ after[q].at = when[l]
    <3>1. PICK p \in DOMAIN tree : tree[p].key = l /\ tree[p].at = when[l]
      BY <2>3 DEF Has
    <3>2. CASE p = at
      BY <1>10, <3>1, <3>2
    <3>3. CASE p # at /\ p # t
      BY <1>10, <3>1, <3>3
    <3>4. CASE p # at /\ p = t
      <4>1. tree[t].at < tree[at].at /\ tree[at].at <= when[k]
        BY <1>2, <3>4 DEF Has
      <4>2. Covers(t, t)
        BY DEF Covers
      <4>3. tree[t].key = k
        BY <1>4, <3>4, <4>2
      <4>4. tree[t].at = when[k] /\ tree[t].at \in Nat /\ tree[at].at \in Nat
        BY <1>1, <3>1, <3>4, <4>3 DEF File, Assumed, NamesAssumption
      <4> QED BY <4>1, <4>4
    <3> QED BY <3>2, <3>3, <3>4
  <2> QED BY <2>1, <2>2, <2>3 DEF Has
<1> QED BY <1>2, <1>8, <1>14, <1>15

\* Of the files under names an earlier build could have left, the newest.
LEMMA EarlierFileIs ==
    ASSUME Assumed, title \in Titles, InOrder(named), NEW k \in title, NEW p
    PROVE  p \in EarlierFile(k) <=>
             /\ p \in DOMAIN named \ {EncodedPath(k)} /\ Key(p) = k
             /\ \A q \in DOMAIN named \ {EncodedPath(k)} : Key(q) = k => named[q].at <= named[p].at
<1> DEFINE found == {q \in DOMAIN named \ {EncodedPath(k)} :
                       Len(q) = Len(k) /\ \A n \in DOMAIN k : q[n] \in Spellings(k[n])}
<1>1. EarlierFile(k) = {q \in found : \A r \in found : named[r].at <= named[q].at}
  BY DEF EarlierFile
<1>2. ASSUME NEW q \in DOMAIN named \ {EncodedPath(k)} PROVE q \in found <=> Key(q) = k
  <2>1. Len(q) = Len(Key(q))
    BY DEF InOrder, Key
  <2>2. CASE Len(q) = Len(k)
    BY <2>2, SpellsKey DEF Key
  <2>3. CASE Len(q) # Len(k)
    BY <2>1, <2>3
  <2> QED BY <2>2, <2>3
<1>3. \A q \in found : q \in DOMAIN named \ {EncodedPath(k)}
  OBVIOUS
<1> HIDE DEF found
<1> QED BY <1>1, <1>2, <1>3

\* An earlier file that is read is newer than the encoded one.
LEMMA LaterFileIs ==
    ASSUME Assumed, title \in Titles, InOrder(named), NEW k \in title, NEW p \in LaterEarlierFile(k)
    PROVE  /\ p \in DOMAIN named /\ p # EncodedPath(k) /\ Key(p) = k
           /\ Fits(k) /\ EncodedPath(k) \in DOMAIN named => named[EncodedPath(k)].at < named[p].at
<1>1. p \in EarlierFile(k) /\ \A q \in EncodedFile(k) : named[p].at > named[q].at
  BY DEF LaterEarlierFile
<1>2. p \in DOMAIN named /\ p # EncodedPath(k) /\ Key(p) = k
  BY <1>1, EarlierFileIs
<1>3. ASSUME Fits(k), EncodedPath(k) \in DOMAIN named PROVE named[EncodedPath(k)].at < named[p].at
  <2>1. OnDisk(EncodedPath(k)) = {EncodedPath(k)} \cap DOMAIN named
    BY <1>3, EncodedOnDisk
  <2>2. EncodedPath(k) \in EncodedFile(k)
    BY <1>3, <2>1 DEF EncodedFile
  <2>3. named[p].at \in Nat /\ named[EncodedPath(k)].at \in Nat
    BY <1>2, <1>3 DEF InOrder, File, Assumed, NamesAssumption
  <2> QED BY <1>1, <2>2, <2>3
<1> QED BY <1>2, <1>3

\* Where a place is free the volume answers nothing there.
LEMMA NothingThere ==
    ASSUME DOMAIN named \subseteq Paths, NEW q \in Paths
    PROVE  Exists(q) <=> ~Free(named, q)
BY AnswersAre DEF Free

\* However far an adoption comes, the directory is in order and has every save.
LEMMA AdoptedIs ==
    ASSUME Assumed, title \in Titles, saved \in [SaveKeys -> Nat],
           naming = "encoded" => InOrder(named) /\ Has(named, saved),
           NEW k \in title, NEW after \in Adopted(k), after # named
    PROVE  naming = "encoded" /\ Fits(k) /\ InOrder(after) /\ Has(after, saved)
<1> DEFINE top == <<Encode[k[1]]>>
           whole(p) == Len(k) > 1 /\ p[1] # top[1] /\ ~Exists(top)
           tree(p) == IF whole(p) THEN Renamed(named, <<p[1]>>, top) ELSE named
           at(p) == IF whole(p) THEN [p EXCEPT ![1] = top[1]] ELSE p
<1>1. naming = "encoded" /\ Fits(k) /\ InOrder(named) /\ Has(named, saved)
  BY DEF Adopted
<1>2. Adopted(k) = {named} \cup
        UNION {{tree(p), Renamed(tree(p), at(p), EncodedPath(k))} : p \in LaterEarlierFile(k)}
  BY <1>1 DEF Adopted
<1>3. PICK p \in LaterEarlierFile(k) : after \in {tree(p), Renamed(tree(p), at(p), EncodedPath(k))}
  BY <1>2, Zenon
<1>4. /\ p \in DOMAIN named /\ p # EncodedPath(k) /\ Key(p) = k
      /\ EncodedPath(k) \in DOMAIN named => named[EncodedPath(k)].at < named[p].at
  BY <1>1, LaterFileIs
<1>5. DOMAIN named \subseteq Paths /\ EncodedPath(k) \in Paths /\ k \in Paths /\ (Len(k) = 1 \/ Len(k) = 2)
  BY <1>1, EncodedPathIs DEF InOrder
<1>6. CASE whole(p)
  <2>1. Len(k) = 2 /\ ~Exists(<<Encode[k[1]]>>)
    <3>1. Len(k) > 1 /\ ~Exists(<<Encode[k[1]]>>)
      BY <1>6, Zenon
    <3>2. Len(k) = 2
      <4> HIDE DEF tree, at, whole, top
      <4>1. PICK l : l = Len(k)
        OBVIOUS
      <4>2. l > 1 /\ (l = 1 \/ l = 2)
        BY <1>5, <3>1, <4>1, Zenon
      <4> QED BY <4>1, <4>2
    <3> QED BY <3>1, <3>2, Zenon
  <2>2. PICK t : t = tree(p) /\ t = Renamed(named, <<p[1]>>, <<Encode[k[1]]>>)
    BY <1>6, Zenon
  <2>3. PICK a : a = at(p) /\ a = [p EXCEPT ![1] = Encode[k[1]]]
    <3>1. top[1] = Encode[k[1]]
      OBVIOUS
    <3> QED BY <1>6, <3>1, Zenon
  <2> HIDE DEF tree, at, whole, top
  <2>4. <<Encode[k[1]]>> \in Paths
    <3>1. 1 \in 1..Len(k)
      BY <2>1
    <3>2. Encode[k[1]] \in Names
      BY <3>1, EncodedPathIs, NamesAre DEF Assumed, Names
    <3> QED BY <3>2, OneNamePath
  <2>5. Free(named, <<Encode[k[1]]>>)
    BY <1>5, <2>1, <2>4, NothingThere
  <2>6. /\ InOrder(t) /\ Has(t, saved) /\ a \in DOMAIN t /\ t[a] = named[p]
        /\ \A r \in DOMAIN t : \E q \in DOMAIN named : t[r] = named[q]
    <3>1. Len(k) = 2 /\ Fits(k) /\ named[p].key = k
      BY <1>1, <1>4, <2>1 DEF Key
    <3>2. \E x, y : /\ x = Renamed(named, <<p[1]>>, <<Encode[k[1]]>>) /\ y = [p EXCEPT ![1] = Encode[k[1]]]
                    /\ Carries(named, saved, p, x, y)
      BY <1>1, <1>4, <2>5, <3>1, WholeMove
    <3>3. Carries(named, saved, p, t, a)
      BY <2>2, <2>3, <3>2, Zenon
    <3> QED BY <3>3 DEF Carries
  <2>8. InOrder(t) /\ Has(t, saved) /\ a \in DOMAIN t /\ t[a].key = k
    BY <1>4, <2>6 DEF Key
  <2>9. InOrder(Renamed(t, a, EncodedPath(k))) /\ Has(Renamed(t, a, EncodedPath(k)), saved)
    <3>1. ASSUME EncodedPath(k) \in DOMAIN t
          PROVE  a = EncodedPath(k) \/ t[EncodedPath(k)].at < t[a].at
      <4>1. PICK e \in Paths : e = EncodedPath(k) /\ e[1] = Encode[k[1]] /\ Len(e) = 2
        BY <1>5, <2>1, EncodedPathIs
      <4>2. Covers(e, e)
        BY DEF Covers
      <4>3. t[e].key = k
        BY <1>1, <2>8, <3>1, <4>1, <4>2, EncodedCovers
      <4>4. PICK b \in DOMAIN named : t[e] = named[b]
        BY <2>6, <3>1, <4>1
      <4>5. b # e
        <5>1. PICK f \in Paths : f = <<Encode[k[1]]>> /\ Len(f) = 1 /\ f[1] = Encode[k[1]]
          <6>1. 1 \in 1..Len(k)
            BY <2>1
          <6>2. Encode[k[1]] \in Names
            BY <6>1, EncodedPathIs, NamesAre DEF Assumed, Names
          <6> QED BY <6>2, OneNamePath
        <5>2. Covers(e, f)
          BY <4>1, <5>1, TwoNamesApiece
        <5> QED BY <2>5, <5>1, <5>2 DEF Free
      <4>6. named[b].at <= named[p].at
        BY <1>1, <1>3, <4>1, <4>3, <4>4, <4>5, EarlierFileIs DEF LaterEarlierFile, Key
      <4>7. t[e].at <= t[a].at
        BY <2>6, <4>4, <4>6
      <4>8. t[e].at = t[a].at => e = a
        BY <2>8, <3>1, <4>1, <4>3 DEF Has
      <4>9. t[e].at \in Nat /\ t[a].at \in Nat
        BY <2>8, <3>1, <4>1 DEF InOrder, File, Assumed, NamesAssumption
      <4> QED BY <4>1, <4>7, <4>8, <4>9
    <3> QED BY <1>1, <2>8, <3>1, LastMove
  <2> QED BY <1>1, <1>3, <2>2, <2>3, <2>8, <2>9
<1>7. CASE ~whole(p)
  <2>1. tree(p) = named /\ at(p) = p
    BY <1>7
  <2> HIDE DEF tree, at, whole, top
  <2>2. InOrder(Renamed(named, p, EncodedPath(k))) /\ Has(Renamed(named, p, EncodedPath(k)), saved)
    BY <1>1, <1>4, LastMove DEF Key
  <2> QED BY <1>1, <1>3, <2>1, <2>2
<1> QED BY <1>6, <1>7

-----------------------------------------------------------------------------
(***************************************************************************)
(* Reads and writes.                                                       *)
(***************************************************************************)

\* A save put where the volume answers for its key, or at its encoded path.
LEMMA PutInOrder ==
    ASSUME Assumed, title \in Titles, NEW tree, NEW when \in [SaveKeys -> Nat], InOrder(tree), Has(tree, when),
           NEW k \in title, NEW now \in 1..MaxSaves, \A l \in title : when[l] < now,
           NEW p, (Fits(k) /\ p = EncodedPath(k)) \/ (p \in DOMAIN tree /\ tree[p].key = k)
    PROVE  /\ InOrder(With(tree, p, [key |-> k, at |-> now]))
           /\ Has(With(tree, p, [key |-> k, at |-> now]), [when EXCEPT ![k] = now])
<1>1. PICK after : after = With(tree, p, [key |-> k, at |-> now])
  OBVIOUS
<1>2. /\ DOMAIN after = DOMAIN tree \cup {p} /\ after[p] = [key |-> k, at |-> now]
      /\ \A q \in DOMAIN tree : q # p => after[q] = tree[q]
  BY <1>1 DEF With
<1>3. PICK w : w = [when EXCEPT ![k] = now]
  OBVIOUS
<1>4. k \in SaveKeys /\ title \subseteq SaveKeys
  BY KeysAre DEF Assumed
<1>5. w[k] = now /\ \A l \in title : l # k => w[l] = when[l]
  BY <1>3, <1>4
<1>6. after[p] \in File /\ after[p].key = k /\ after[p].at = now
  BY <1>2, <1>4 DEF File
<1>7. /\ DOMAIN tree \subseteq Paths /\ Apart(tree)
      /\ \A q \in DOMAIN tree : /\ tree[q] \in File /\ tree[q].key \in title /\ Len(q) = Len(tree[q].key)
                                /\ \A n \in 1..Len(q) : Fitting(tree, q, n)
  BY DEF InOrder
<1>8. p \in Paths /\ Len(p) = Len(k) /\ (Len(k) = 1 \/ Len(k) = 2)
  BY <1>7, EncodedPathIs
<1>9. ASSUME NEW n \in 1..Len(p) PROVE Fitting(after, p, n)
  <2>1. CASE Fits(k) /\ p = EncodedPath(k)
    <3>1. n \in 1..Len(k) /\ DOMAIN k = 1..Len(k)
      BY <1>8, EncodedPathIs, PathShape
    <3> QED BY <1>6, <2>1, <3>1, EncodedPathIs DEF Fitting, Fits
  <2>2. CASE p \in DOMAIN tree /\ tree[p].key = k
    BY <1>6, <1>7, <2>2 DEF Fitting
  <2> QED BY <2>1, <2>2
<1>10. ASSUME NEW q \in DOMAIN tree, q # p, NEW n \in 1..Len(q) PROVE Fitting(after, q, n)
  BY <1>2, <1>7, <1>10 DEF Fitting
<1>11. Apart(after)
  <2>1. ASSUME NEW q \in DOMAIN tree, p \notin DOMAIN tree, Fold[q[1]] = Fold[p[1]]
        PROVE  q[1] = p[1] /\ (Len(q) = 2 /\ Len(p) = 2 /\ Fold[q[2]] = Fold[p[2]] => q[2] = p[2])
    <3>1. Fits(k) /\ \A n \in 1..Len(k) : p[n] = Encode[k[n]]
      BY <2>1, EncodedPathIs
    <3>2. 1 \in 1..Len(q) /\ 1 \in 1..Len(k)
      <4>1. ASSUME NEW r \in Paths PROVE 1 \in 1..Len(r)
        <5>1. CASE Len(r) = 1
          BY <5>1
        <5>2. CASE Len(r) = 2
          BY <5>2
        <5> QED BY <5>1, <5>2, TwoNames
      <4> QED BY <1>7, <4>1, EncodedPathIs
    <3>3. q[1] = p[1]
      BY <2>1, <3>1, <3>2, EncodedApart
    <3>4. ASSUME Len(q) = 2, Len(p) = 2, Fold[q[2]] = Fold[p[2]] PROVE q[2] = p[2]
      <4>1. 2 \in 1..Len(q) /\ 2 \in 1..Len(k)
        BY <1>8, <3>4
      <4>2. p[2] = Encode[k[2]] /\ Fold[q[2]] = Fold[Encode[k[2]]]
        BY <3>1, <3>4, <4>1
      <4>3. q[2] = Encode[k[2]]
        BY <3>1, <4>1, <4>2, EncodedApart
      <4> QED BY <4>2, <4>3
    <3> QED BY <3>3, <3>4
  <2> QED BY <1>2, <1>7, <2>1 DEF Apart
<1>12. InOrder(after)
  <2>1. DOMAIN after \subseteq Paths
    BY <1>2, <1>7, <1>8
  <2>2. \A q \in DOMAIN tree : q # p => after[q] \in File /\ after[q].key \in title /\ Len(q) = Len(after[q].key)
    BY <1>2, <1>7
  <2> QED BY <1>2, <1>6, <1>8, <1>9, <1>10, <1>11, <2>1, <2>2 DEF InOrder
<1>13. Has(after, w)
  <2>1. \A q \in DOMAIN tree : tree[q].at \in Nat /\ tree[q].at <= when[tree[q].key] /\ tree[q].at < now
                               /\ when[tree[q].key] \in Nat /\ tree[q].key \in title
    <3>1. ASSUME NEW q \in DOMAIN tree PROVE /\ tree[q].at \in Nat /\ tree[q].at <= when[tree[q].key]
                                             /\ when[tree[q].key] \in Nat /\ tree[q].key \in title
      BY <1>4, <1>7 DEF Has, File, Assumed, NamesAssumption
    <3>2. ASSUME NEW q \in DOMAIN tree PROVE tree[q].at < now
      <4>1. when[tree[q].key] < now /\ now \in Nat
        BY <3>1
      <4> QED BY <3>1, <4>1
    <3> QED BY <3>1, <3>2
  <2>2. ASSUME NEW q \in DOMAIN after PROVE after[q].at <= w[after[q].key]
    <3>1. CASE q = p
      BY <1>5, <1>6, <3>1
    <3>2. CASE q # p
      <4>1. q \in DOMAIN tree /\ after[q] = tree[q]
        BY <1>2, <3>2
      <4>2. CASE tree[q].key = k
        BY <1>5, <2>1, <4>1, <4>2
      <4>3. CASE tree[q].key # k
        BY <1>5, <2>1, <4>1, <4>3
      <4> QED BY <4>2, <4>3
    <3> QED BY <3>1, <3>2
  <2>3. ASSUME NEW q \in DOMAIN after, NEW r \in DOMAIN after, after[q].key = after[r].key, after[q].at = after[r].at
        PROVE  q = r
    <3>1. \A s \in DOMAIN after : s # p => s \in DOMAIN tree /\ after[s] = tree[s] /\ tree[s].at < now /\ tree[s].at \in Nat
      BY <1>2, <2>1
    <3>2. CASE q = p \/ r = p
      BY <1>6, <2>3, <3>1, <3>2
    <3>3. CASE q # p /\ r # p
      BY <2>3, <3>1, <3>3 DEF Has
    <3> QED BY <3>2, <3>3
  <2>4. ASSUME NEW l \in title, w[l] # 0 PROVE \E q \in DOMAIN after : after[q].key = l /\ after[q].at = w[l]
    <3>1. CASE l = k
      BY <1>2, <1>5, <1>6, <3>1
    <3>2. CASE l # k
      <4>1. PICK q \in DOMAIN tree : tree[q].key = l /\ tree[q].at = when[l]
        BY <1>5, <2>4, <3>2 DEF Has
      <4>2. q # p
        <5>1. ASSUME q = p, Fits(k), p = EncodedPath(k) PROVE tree[q].key = k
          <6>1. Covers(q, EncodedPath(k))
            BY <5>1 DEF Covers
          <6> QED BY <5>1, <6>1, EncodedCovers
        <5> QED BY <3>2, <4>1, <5>1
      <4> QED BY <1>2, <1>5, <3>2, <4>1, <4>2
    <3> QED BY <3>1, <3>2
  <2> QED BY <2>2, <2>3, <2>4 DEF Has
<1> QED BY <1>1, <1>3, <1>12, <1>13

\* An operation on an encoded directory, or on one without names to encode, that
\* leaves the directory in order.
LEMMA OrderIsEnough ==
    ASSUME Assumed, NamesInv, UNCHANGED <<title, record, up, step, known>>,
           stage = "settled", stage' = "idle", naming' = Nothing,
           NEW after, named' = after, InOrder(after), NEW when \in [SaveKeys -> 0..MaxSaves], saved' = when, Has(after, when),
           clock' \in 1..MaxSaves, \A k \in title : when[k] <= clock',
           \/ record.state = "encoded"
           \/ record.state = "absent" /\ \A p \in DOMAIN after : p = after[p].key
    PROVE  NamesInv'
<1>1. NamesTypeOK /\ PlanOK /\ ControlOK
  BY DEF NamesInv
<1>2. Plan = <<>> /\ record.plan = <<>> /\ record' = record
  BY <1>1 DEF PlanOK, Plan
<1>3. /\ DOMAIN after \subseteq Paths /\ Apart(after)
      /\ \A p \in DOMAIN after : /\ after[p] \in File /\ after[p].key \in title /\ Len(p) = Len(after[p].key)
                                 /\ \A n \in 1..Len(p) : Fitting(after, p, n)
  BY DEF InOrder
<1>4. /\ \A p : Key(p)' = after[p].key
      /\ \A p, n : Own(p, n)' <=> p[n] = after[p].key[n]
      /\ \A p, n : Encoded(p, n)' <=> after[p].key[n] \notin Long /\ p[n] = Encode[after[p].key[n]]
  BY DEF Key, Own, Encoded
<1>5. \A s : Stays(s)' <=> Stays(s)
  <2>1. NamesApart' <=> NamesApart
    BY DEF NamesApart
  <2> QED BY <2>1 DEF Stays
<1>6. NamesTypeOK'
  BY <1>1, <1>2, <1>3 DEF NamesTypeOK
<1>7. PlanOK'
  BY <1>1 DEF PlanOK, Plan
<1>8. ControlOK'
  BY DEF ControlOK
<1>9. Spelt'
  <2>1. ASSUME NEW p \in DOMAIN after, NEW n \in 1..Len(p) PROVE Reads(p, n)'
    <3>1. CASE record.state = "encoded"
      BY <1>3, <1>4, <3>1 DEF Reads, Fitting
    <3>2. CASE p = after[p].key
      BY <1>4, <3>2 DEF Reads
    <3> QED BY <3>1, <3>2
  <2> QED BY <1>3, <1>4, <2>1 DEF Spelt
<1>10. FoldApart' /\ KeysApart'
  BY <1>3 DEF FoldApart, KeysApart, Apart
<1>11. Times' /\ Kept'
  BY <1>4 DEF Times, Kept, Has
<1>12. StayOwn'
  <2>1. CASE record.state = "absent"
    BY <2>1 DEF StayOwn
  <2>2. CASE record.state = "encoded"
    <3>1. ASSUME NEW p \in DOMAIN after, NEW n \in 1..Len(p), p[n] = after[p].key[n] PROVE Stays(p[n])
      <4>1. after[p].key[n] \in Segments
        BY <1>1, <1>3, EncodedPathIs DEF NamesTypeOK
      <4>2. ASSUME p[n] = Encode[p[n]] PROVE Stays(p[n])
        BY <3>1, <4>1, <4>2, ReadsAs DEF Stays, Assumed
      <4> QED BY <1>3, <3>1, <4>2 DEF Fitting
    <3> QED BY <1>4, <1>5, <2>2, <3>1 DEF StayOwn
  <2> QED BY <2>1, <2>2
<1>13. ConvertingOK'
  BY <1>12 DEF ConvertingOK, OwnNewest, Sole, Single, Inner, Proper, Nested
<1>14. TreeOK'
  BY <1>9, <1>10, <1>11 DEF TreeOK
<1>15. Progress' /\ PlainOK'
  BY DEF Progress, PlainOK, Nothing
<1> QED BY <1>6, <1>7, <1>8, <1>13, <1>14, <1>15 DEF NamesInv

\* A read, which may convert the key's names, keeps the invariant.
LEMMA ReadSaveStep ==
    ASSUME Assumed, NamesInv, UNCHANGED title, NEW k \in title, ReadSave(k)
    PROVE  NamesInv'
<1>1. /\ NamesTypeOK /\ PlanOK /\ ControlOK /\ TreeOK /\ ConvertingOK /\ Times
  BY DEF NamesInv, TreeOK
<1>2. /\ stage = "settled" /\ named' \in Adopted(k) /\ stage' = "idle" /\ naming' = Nothing
      /\ UNCHANGED <<title, record, up, step, known, clock, saved>>
  BY DEF ReadSave
<1>3. CASE named' = named
  <2>1. PlanOK' /\ TreeOK' /\ ConvertingOK'
    BY <1>1, <1>2, <1>3, Quiet
  <2>2. NamesTypeOK'
    BY <1>1, <1>2, <1>3 DEF NamesTypeOK
  <2>3. ControlOK' /\ Progress' /\ PlainOK'
    BY <1>2 DEF ControlOK, Progress, PlainOK, Nothing
  <2> QED BY <2>1, <2>2, <2>3 DEF NamesInv
<1>4. CASE named' # named
  <2>1. saved \in [SaveKeys -> 0..MaxSaves] /\ saved \in [SaveKeys -> Nat] /\ title \in Titles /\ clock \in 1..MaxSaves
    BY <1>1 DEF NamesTypeOK, Assumed, NamesAssumption
  <2>2. naming = "encoded" => InOrder(named) /\ Has(named, saved)
    BY <1>1, <1>2, NamedInOrder DEF ControlOK
  <2>3. PICK after : after = named'
    OBVIOUS
  <2>4. naming = "encoded" /\ InOrder(after) /\ Has(after, saved)
    BY <1>2, <1>4, <2>1, <2>2, <2>3, AdoptedIs
  <2>5. record.state = "encoded"
    BY <1>1, <1>2, <2>4 DEF ControlOK
  <2>6. \A l \in title : saved[l] <= clock
    BY <1>1 DEF Times
  <2>7. PICK when : when = saved
    OBVIOUS
  <2> QED BY <1>2, <2>1, <2>3, <2>4, <2>5, <2>6, <2>7, OrderIsEnough
<1> QED BY <1>3, <1>4

\* Where a save is written: at its encoded path, or over a file of its key.
LEMMA WriteIs ==
    ASSUME Assumed, NamesInv, NEW k \in title, WriteSave(k)
    PROVE  \E tree, p :
             /\ Puts(k, tree, p) /\ InOrder(tree) /\ Has(tree, saved)
             /\ (Fits(k) /\ p = EncodedPath(k)) \/ (p \in DOMAIN tree /\ tree[p].key = k)
             /\ naming = "plain" => tree = named /\ p = k
<1>1. /\ NamesTypeOK /\ PlanOK /\ ControlOK /\ Spelt /\ title \in Titles
  BY DEF NamesInv, TreeOK, NamesTypeOK
<1>2. stage = "settled" /\ Writable(k) /\ (naming = "encoded" \/ naming = "plain")
  BY DEF WriteSave, Writable
<1>3. /\ naming = "encoded" => record.state = "encoded"
      /\ naming = "plain" => record.state = "absent" /\ naming # "encoded"
  BY <1>1, <1>2 DEF ControlOK
<1>4. InOrder(named) /\ Has(named, saved)
  BY <1>2, <1>3, NamedInOrder
<1>5. saved \in [SaveKeys -> Nat]
  BY <1>1 DEF NamesTypeOK, Assumed, NamesAssumption
<1>6. CASE Fits(k)
  <2>1. PICK tree \in Adopted(k) :
          Puts(k, tree, IF Exists(EncodedPath(k)) /\ tree = named
                          THEN CHOOSE e \in OnDisk(EncodedPath(k)) : TRUE ELSE EncodedPath(k))
    BY <1>6 DEF WriteSave
  <2>2. (IF Exists(EncodedPath(k)) /\ tree = named
           THEN CHOOSE e \in OnDisk(EncodedPath(k)) : TRUE ELSE EncodedPath(k)) = EncodedPath(k)
    <3>1. OnDisk(EncodedPath(k)) \subseteq {EncodedPath(k)}
      BY <1>1, <1>4, <1>6, EncodedOnDisk
    <3> QED BY <3>1 DEF Exists
  <2>3. InOrder(tree) /\ Has(tree, saved)
    BY <1>1, <1>4, <1>5, AdoptedIs
  <2>4. ASSUME naming = "plain" PROVE tree = named /\ EncodedPath(k) = k
    BY <1>2, <1>3, <1>6, <2>4 DEF Adopted, Writable
  <2>5. Puts(k, tree, EncodedPath(k))
    BY <2>1, <2>2
  <2> QED BY <1>6, <2>3, <2>4, <2>5
<1>7. CASE ~Fits(k)
  <2>1. PICK p \in Located(k) : Puts(k, named, p)
    BY <1>7 DEF WriteSave
  <2>2. CASE naming = "encoded"
    <3>1. p \in LaterEarlierFile(k)
      BY <1>7, <2>1, <2>2 DEF Located, EncodedFile
    <3>2. p \in DOMAIN named /\ named[p].key = k
      BY <1>1, <1>4, <3>1, LaterFileIs DEF Key
    <3> QED BY <1>4, <2>1, <2>2, <3>2
  <2>3. CASE naming = "plain"
    <3>1. p = k /\ p \in DOMAIN named
      BY <1>7, <2>1, <2>3 DEF Located, PlainFile
    <3>2. named[p].key = k
      BY <1>1, <1>3, <2>3, <3>1, StillOwn DEF Key
    <3> QED BY <1>4, <2>1, <3>1, <3>2
  <2> QED BY <1>2, <2>2, <2>3
<1> QED BY <1>6, <1>7

\* A write, which may convert the key's names first, keeps the invariant.
LEMMA WriteSaveStep ==
    ASSUME Assumed, NamesInv, UNCHANGED title, NEW k \in title, WriteSave(k)
    PROVE  NamesInv'
<1>1. /\ NamesTypeOK /\ PlanOK /\ ControlOK /\ Times /\ Spelt
  BY DEF NamesInv, TreeOK
<1>2. /\ stage = "settled" /\ stage' = "idle" /\ naming' = Nothing /\ (naming = "encoded" \/ naming = "plain")
      /\ UNCHANGED <<title, record, up, step, known>>
  BY DEF WriteSave, Writable
<1>3. PICK tree, p :
        /\ Puts(k, tree, p) /\ InOrder(tree) /\ Has(tree, saved)
        /\ (Fits(k) /\ p = EncodedPath(k)) \/ (p \in DOMAIN tree /\ tree[p].key = k)
        /\ naming = "plain" => tree = named /\ p = k
  BY WriteIs
<1>4. /\ saved \in [SaveKeys -> 0..MaxSaves] /\ saved \in [SaveKeys -> Nat] /\ title \in Titles
      /\ clock \in 1..MaxSaves /\ MaxSaves \in Nat
  BY <1>1 DEF NamesTypeOK, Assumed, NamesAssumption
<1>5. PICK now : now = clock + 1
  OBVIOUS
<1>6. clock < MaxSaves /\ named' = With(tree, p, [key |-> k, at |-> now]) /\ clock' = now /\ saved' = [saved EXCEPT ![k] = now]
  BY <1>3, <1>5 DEF Puts, With
<1>7. now \in 1..MaxSaves /\ \A l \in title : saved[l] < now
  <2>1. \A l \in title : l \in SaveKeys /\ saved[l] \in Nat /\ saved[l] <= clock
    BY <1>1, <1>4, KeysAre DEF Times, Assumed
  <2> QED BY <1>4, <1>5, <1>6, <2>1
<1>8. PICK after : after = With(tree, p, [key |-> k, at |-> now])
  OBVIOUS
<1>9. PICK when : when = [saved EXCEPT ![k] = now]
  OBVIOUS
<1>10. InOrder(after) /\ Has(after, when)
  BY <1>3, <1>4, <1>7, <1>8, <1>9, PutInOrder
<1>11. when \in [SaveKeys -> 0..MaxSaves] /\ \A l \in title : when[l] <= clock'
  <2>1. k \in SaveKeys /\ title \subseteq SaveKeys
    BY <1>4, KeysAre DEF Assumed
  <2>2. now \in 0..MaxSaves /\ now \in Nat
    BY <1>7, <1>4
  <2>3. when \in [SaveKeys -> 0..MaxSaves]
    BY <1>4, <1>9, <2>1, <2>2
  <2>4. ASSUME NEW l \in title PROVE when[l] <= now
    <3>1. when[l] = IF l = k THEN now ELSE saved[l]
      BY <1>4, <1>9, <2>1
    <3>2. saved[l] < now /\ saved[l] \in Nat
      BY <1>4, <1>7, <2>1
    <3> QED BY <2>2, <3>1, <3>2
  <2> QED BY <1>6, <2>3, <2>4
<1>12. \/ record.state = "encoded"
       \/ record.state = "absent" /\ \A q \in DOMAIN after : q = after[q].key
  <2>1. CASE naming = "encoded"
    BY <1>1, <1>2, <2>1 DEF ControlOK
  <2>2. CASE naming = "plain"
    <3>1. record.state = "absent"
      BY <1>1, <1>2, <2>2 DEF ControlOK
    <3>2. \A q \in DOMAIN named : q = named[q].key
      BY <1>1, <3>1, StillOwn DEF Key
    <3>3. \A q \in DOMAIN after : after[q] = IF q = k THEN [key |-> k, at |-> now] ELSE named[q]
      BY <1>3, <1>8, <2>2 DEF With
    <3>4. \A q \in DOMAIN after : q = k \/ q \in DOMAIN named
      BY <1>3, <1>8, <2>2 DEF With
    <3> QED BY <3>1, <3>2, <3>3, <3>4
  <2> QED BY <1>2, <2>1, <2>2
<1>13. named' = after /\ saved' = when /\ clock' \in 1..MaxSaves
  BY <1>6, <1>7, <1>8, <1>9
<1> QED BY <1>2, <1>10, <1>11, <1>12, <1>13, OrderIsEnough

-----------------------------------------------------------------------------
(***************************************************************************)
(* An earlier build writes.                                                *)
(***************************************************************************)

\* Spelled as the volume spells it, a path stays as it is.
LEMMA SpelledOnce ==
    ASSUME DOMAIN named \subseteq Paths, Apart(named), NEW q \in Paths
    PROVE  Spelled(Spelled(q)) = Spelled(q)
<1>1. PICK a \in Paths : /\ a = Spelled(q) /\ Len(a) = Len(q) /\ Meets(a, q)
                         /\ Len(q) = 2 => \A p \in DOMAIN named : Fold[p[1]] = Fold[q[1]] => a[1] = p[1]
  BY SpelledIs
<1>2. PICK b \in Paths : /\ b = Spelled(a) /\ Len(b) = Len(a) /\ b[Len(a)] = a[Len(a)]
                         /\ Len(a) = 2 => \A p \in DOMAIN named : Fold[p[1]] = Fold[a[1]] => b[1] = p[1]
                         /\ (\A p \in DOMAIN named : Fold[p[1]] # Fold[a[1]]) => b = a
  BY SpelledIs
<1>3. Fold[a[1]] = Fold[q[1]] /\ (Len(a) = 1 \/ Len(a) = 2)
  BY <1>1, TwoNames, TwoNamesApiece
<1>4. CASE Len(a) = 1
  <2>1. a[1] = b[1] /\ Len(b) = 1
    BY <1>2, <1>4
  <2> QED BY <1>1, <1>2, <1>4, <2>1, TwoNamesApiece
<1>5. CASE Len(a) = 2 /\ \E p \in DOMAIN named : Fold[p[1]] = Fold[a[1]]
  <2>1. a[1] = b[1] /\ Len(b) = 2 /\ a[2] = b[2]
    BY <1>1, <1>2, <1>3, <1>5
  <2> QED BY <1>1, <1>2, <1>5, <2>1, TwoNamesApiece
<1>6. CASE \A p \in DOMAIN named : Fold[p[1]] # Fold[a[1]]
  BY <1>1, <1>2, <1>6
<1> QED BY <1>3, <1>4, <1>5, <1>6

\* What is under a key's own path was written for that key.
LEMMA UnderOwn ==
    ASSUME Assumed, NamesTypeOK, PlanOK, Spelt, NEW a \in title, NEW p \in DOMAIN named, Above(a, p),
           record.state = "absent" \/ \A n \in 1..Len(a) : Unambiguous(a[n])
    PROVE  p = a /\ Key(p) = a
<1>1. /\ a \in Paths /\ p \in Paths /\ Key(p) \in Paths /\ Key(p) \in title /\ Len(p) = Len(Key(p))
      /\ \A n \in 1..Len(a) : a[n] \in Segments
  BY FilesAre, KeysAre DEF NamesTypeOK, Assumed
<1>2. ASSUME NEW n \in 1..Len(a) PROVE n \in 1..Len(p) /\ p[n] = a[n] /\ Key(p)[n] = a[n]
  <2>1. n \in 1..Len(p) /\ p[n] = a[n]
    <3>1. (Len(a) = 1 \/ Len(a) = 2) /\ (Len(p) = 1 \/ Len(p) = 2)
      BY <1>1, TwoNames
    <3> QED BY <3>1 DEF Above
  <2>2. a[n] \in Segments /\ Key(p)[n] \in Segments /\ Reads(p, n)
    BY <1>1, <2>1, FilesAre
  <2>3. p[n] \in SegmentNames
    BY <2>1, <2>2, NamesAre DEF Assumed
  <2>4. CASE record.state \in {"absent", "moving"}
    <3>1. Own(p, n)
      BY <2>1, <2>3, <2>4, OwnIs
    <3> QED BY <2>1, <3>1 DEF Own
  <2>5. CASE record.state \notin {"absent", "moving"}
    <3>1. Unambiguous(a[n])
      BY <2>5
    <3>2. ~Aside(p, n)
      <4>1. ASSUME NEW i \in DOMAIN Plan, p[n] = Temporary[i] PROVE FALSE
        BY <2>3, <4>1, PlanIs
      <4> QED BY <4>1 DEF Aside
    <3>3. Own(p, n) \/ a[n] = Encode[Key(p)[n]]
      BY <2>1, <2>2, <3>2 DEF Reads, Placed, Encoded
    <3>4. a[n] = Encode[Key(p)[n]] => Key(p)[n] = a[n]
      BY <2>2, <3>1, ReadsAs DEF Assumed
    <3> QED BY <2>1, <3>3, <3>4 DEF Own
  <2> QED BY <2>1, <2>4, <2>5
<1>3. Above(a, Key(p))
  BY <1>1, <1>2 DEF Above
<1>4. Key(p) = a
  <2>1. title \in Titles
    BY DEF NamesTypeOK
  <2> QED BY <1>1, <1>3, <2>1, KeysAre DEF Assumed
<1>5. p = a
  BY <1>1, <1>2, <1>4, SamePath
<1> QED BY <1>4, <1>5

AnyOf(S) == CHOOSE e \in S : TRUE

\* An earlier build writes at the path of the key whose file it is answered with.
LEMMA EarlierPlace ==
    ASSUME Assumed, NamesTypeOK, PlanOK, Spelt, FoldApart, NEW k \in title, EarlierBuildWrites(k)
    PROVE  \E a \in title :
             /\ named' = With(named, a, [key |-> a, at |-> clock + 1])
             /\ saved' = [saved EXCEPT ![a] = clock + 1]
             /\ record.state # "absent" => NamesApart /\ \A n \in 1..Len(a) : Unambiguous(a[n])
             /\ \A p \in DOMAIN named : Covers(p, a) => p = a /\ Key(p) = a
             /\ \A p \in DOMAIN named : Fold[p[1]] = Fold[a[1]] => p[1] = a[1]
<1> DEFINE at == IF Exists(k) THEN CHOOSE e \in OnDisk(k) : TRUE ELSE Spelled(k)
<1>1. PICK a : a = at
  OBVIOUS
<1>2. /\ a \in title /\ named' = Written(named, a, [key |-> a, at |-> clock + 1])
      /\ saved' = [saved EXCEPT ![a] = clock + 1]
      /\ record.state \in EarlierWrites[title]
      /\ record.state # "absent" => \A n \in DOMAIN k : Unambiguous(k[n])
  BY <1>1 DEF EarlierBuildWrites
<1>3. DOMAIN named \subseteq Paths /\ Apart(named) /\ title \in Titles
  BY DEF NamesTypeOK, FoldApart
<1>4. /\ k \in Paths /\ a \in Paths /\ (Len(a) = 1 \/ Len(a) = 2)
      /\ \A n \in 1..Len(k) : k[n] \in SegmentsOf(title)
      /\ \A n \in 1..Len(a) : a[n] \in SegmentsOf(title)
  BY <1>2, <1>3, KeysAre, TwoNames DEF Assumed
<1>5. Meets(a, k) /\ (Exists(k) => a \in Entries)
  <2>1. OnDisk(k) = {e \in Entries : Meets(e, k)}
    BY <1>3, <1>4, AnswersAre
  <2>2. CASE Exists(k)
    <3>1. a \in OnDisk(k)
      BY <1>1, <2>2 DEF Exists
    <3> QED BY <2>1, <3>1
  <2>3. CASE ~Exists(k)
    BY <1>1, <1>3, <1>4, <2>3, SpelledIs
  <2> QED BY <2>2, <2>3
<1>6. OnDisk(a) = OnDisk(k)
  <2>1. Folded(a) = Folded(k)
    BY <1>4, <1>5, MeetsIs
  <2> QED BY <2>1 DEF OnDisk
<1>7. (IF Exists(a) THEN CHOOSE e \in OnDisk(a) : TRUE ELSE Spelled(a)) = a
  <2>1. CASE Exists(k)
    <3>1. AnyOf(OnDisk(a)) = AnyOf(OnDisk(k))
      BY <1>6
    <3>2. AnyOf(OnDisk(a)) = CHOOSE e \in OnDisk(a) : TRUE
      BY DEF AnyOf
    <3>3. AnyOf(OnDisk(k)) = CHOOSE e \in OnDisk(k) : TRUE
      BY DEF AnyOf
    <3>4. Exists(a)
      BY <1>6, <2>1 DEF Exists
    <3>5. a = AnyOf(OnDisk(k))
      BY <1>1, <2>1, <3>3
    <3> QED BY <3>1, <3>2, <3>4, <3>5
  <2>2. CASE ~Exists(k)
    <3>1. Spelled(a) = a
      BY <1>1, <1>3, <1>4, <2>2, SpelledOnce
    <3> QED BY <1>6, <2>2, <3>1 DEF Exists
  <2> QED BY <2>1, <2>2
<1> HIDE DEF at
<1>8. named' = With(named, a, [key |-> a, at |-> clock + 1])
  <2>1. PICK at2 : at2 = IF Exists(a) THEN CHOOSE e \in OnDisk(a) : TRUE ELSE Spelled(a)
    OBVIOUS
  <2>2. named' = With(named, at2, [key |-> a, at |-> clock + 1])
    BY <1>2, <2>1 DEF Written
  <2> QED BY <1>7, <2>1, <2>2
<1>9. ASSUME record.state # "absent"
      PROVE  NamesApart /\ \A n \in 1..Len(a) : Unambiguous(a[n])
  <2>1. NamesApart
    BY <1>2, <1>3, <1>9 DEF NamesApart, Assumed, DirectoriesAssumption
  <2>2. ASSUME NEW n \in 1..Len(a) PROVE Unambiguous(a[n])
    <3>1. n \in 1..Len(k) /\ Fold[a[n]] = Fold[k[n]]
      BY <1>5 DEF Meets
    <3>2. a[n] = k[n]
      BY <1>4, <2>1, <3>1 DEF NamesApart
    <3>3. n \in DOMAIN k
      BY <1>4, <3>1, PathShape
    <3> QED BY <1>2, <1>9, <3>2, <3>3
  <2> QED BY <2>1, <2>2
<1>10. \A p \in DOMAIN named : Above(a, p) => p = a /\ Key(p) = a
  BY <1>2, <1>9, UnderOwn
<1>11. CASE Exists(k)
  <2>1. PICK q \in DOMAIN named : Above(a, q)
    BY <1>3, <1>4, <1>5, <1>11, EntriesAre
  <2>2. a \in DOMAIN named
    BY <1>10, <2>1
  <2>3. \A p \in DOMAIN named : Fold[p[1]] = Fold[a[1]] => p[1] = a[1]
    BY <1>3, <2>2 DEF Apart
  <2>4. ASSUME NEW p \in DOMAIN named, Covers(p, a) PROVE p = a /\ Key(p) = a
    <3>1. p \in Paths /\ Fold[p[1]] = Fold[a[1]] /\ (Len(a) = 2 => Len(p) = 2 /\ Fold[p[2]] = Fold[a[2]])
      BY <1>3, <1>4, <2>4, TwoNamesApiece
    <3>2. p[1] = a[1] /\ (Len(a) = 2 => Len(p) = 2 /\ p[2] = a[2])
      BY <1>3, <2>2, <3>1 DEF Apart
    <3>3. Above(a, p)
      BY <1>4, <3>1, <3>2, TwoNamesApiece
    <3> QED BY <1>10, <3>3
  <2> QED BY <1>2, <1>8, <1>9, <2>3, <2>4
<1>12. CASE ~Exists(k)
  <2>1. ~Exists(a)
    BY <1>6, <1>12 DEF Exists
  <2>2. \A p \in DOMAIN named : ~Covers(p, a)
    BY <1>3, <1>4, <2>1, AnswersAre
  <2>3. SpelledIn(named, a)
    BY <1>1, <1>3, <1>4, <1>12, SpelledIs DEF at
  <2>4. \A p \in DOMAIN named : Fold[p[1]] = Fold[a[1]] => p[1] = a[1]
    <3>1. CASE Len(a) = 1
      BY <1>3, <1>4, <2>2, <3>1, TwoNamesApiece
    <3>2. CASE Len(a) = 2
      BY <1>3, <2>3, <3>2 DEF SpelledIn, Apart
    <3> QED BY <1>4, <3>1, <3>2
  <2> QED BY <1>2, <1>8, <1>9, <2>2, <2>4
<1> QED BY <1>11, <1>12

\* A write of an earlier build keeps the invariant.
LEMMA EarlierBuildWritesStep ==
    ASSUME Assumed, NamesInv, UNCHANGED title, NEW k \in title, EarlierBuildWrites(k)
    PROVE  NamesInv'
<1>1. /\ NamesTypeOK /\ PlanOK /\ ControlOK /\ TreeOK /\ ConvertingOK /\ Spelt /\ FoldApart /\ KeysApart /\ Times
      /\ Kept /\ OwnNewest /\ Sole /\ Single /\ StayOwn /\ Inner /\ Proper /\ Nested
  BY DEF NamesInv, TreeOK, ConvertingOK
<1>2. /\ ~up /\ clock < MaxSaves /\ clock' = clock + 1
      /\ UNCHANGED <<title, record, up, stage, step, naming, known>>
      /\ record.state \in EarlierWrites[title]
  BY DEF EarlierBuildWrites
<1>3. PICK a \in title :
        /\ named' = With(named, a, [key |-> a, at |-> clock + 1])
        /\ saved' = [saved EXCEPT ![a] = clock + 1]
        /\ record.state # "absent" => NamesApart /\ \A n \in 1..Len(a) : Unambiguous(a[n])
        /\ \A p \in DOMAIN named : Covers(p, a) => p = a /\ Key(p) = a
        /\ \A p \in DOMAIN named : Fold[p[1]] = Fold[a[1]] => p[1] = a[1]
  BY <1>1, EarlierPlace
<1>4. stage = "idle" /\ naming = Nothing
  BY <1>1, <1>2 DEF ControlOK, NamesTypeOK
<1>5. /\ title \in Titles /\ title \subseteq SaveKeys /\ a \in SaveKeys /\ a \in Paths /\ (Len(a) = 1 \/ Len(a) = 2)
      /\ \A n \in 1..Len(a) : a[n] \in Segments /\ a[n] \in SegmentsOf(title) /\ a[n] \in SegmentNames
  BY <1>1, KeysAre, NamesAre, TwoNames DEF NamesTypeOK, Assumed
<1>6. PICK now : now = clock + 1 /\ now \in 1..MaxSaves /\ now \in Nat /\ clock < now
  BY <1>1, <1>2 DEF NamesTypeOK, Assumed, NamesAssumption
<1>7. /\ DOMAIN named' = DOMAIN named \cup {a} /\ named'[a] = [key |-> a, at |-> now]
      /\ \A p \in DOMAIN named : p # a => named'[p] = named[p]
  <2>1. PICK after : after = named'
    OBVIOUS
  <2>2. after = With(named, a, [key |-> a, at |-> now])
    BY <1>3, <1>6, <2>1
  <2>3. DOMAIN after = DOMAIN named \cup {a} /\ after[a] = [key |-> a, at |-> now]
    BY <2>2 DEF With
  <2>4. \A p \in DOMAIN named : p # a => after[p] = named[p]
    BY <2>2 DEF With
  <2> QED BY <2>1, <2>3, <2>4
<1>8. /\ saved' \in [SaveKeys -> 0..MaxSaves] /\ saved'[a] = now
      /\ \A l \in SaveKeys : l # a => saved'[l] = saved[l]
      /\ \A l \in title : saved[l] \in Nat /\ saved[l] < now
  <2>1. saved \in [SaveKeys -> 0..MaxSaves] /\ now \in 0..MaxSaves
    BY <1>1, <1>6 DEF NamesTypeOK
  <2>2. saved' = [saved EXCEPT ![a] = now]
    BY <1>3, <1>6
  <2>3. \A l \in title : saved[l] \in Nat /\ saved[l] <= clock /\ clock \in Nat
    BY <1>1, <1>5, <2>1 DEF Times, NamesTypeOK
  <2>4. \A l \in title : saved[l] < now
    BY <1>6, <2>3
  <2> QED BY <1>5, <2>1, <2>2, <2>3, <2>4
<1>9. a \in DOMAIN named => Key(a) = a
  <2>1. Covers(a, a)
    BY DEF Covers
  <2> QED BY <1>3, <2>1
<1>10. /\ \A p \in DOMAIN named : Key(p)' = Key(p)
       /\ Key(a)' = a
       /\ \A p \in DOMAIN named' : p = a \/ p \in DOMAIN named
       /\ \A p \in DOMAIN named : p # a => named'[p] = named[p]
  BY <1>7, <1>9 DEF Key
<1>11. /\ \A n : \A p \in DOMAIN named :
            /\ Own(p, n)' <=> Own(p, n)
            /\ Aside(p, n)' <=> Aside(p, n)
            /\ Placed(p, n)' <=> Placed(p, n)
            /\ Encoded(p, n)' <=> Encoded(p, n)
            /\ Listed(Key(p), n)' <=> Listed(Key(p), n)
       /\ \A i, n : \A p \in DOMAIN named : Lists(i, Key(p), n)' <=> Lists(i, Key(p), n)
       /\ \A n : Own(a, n)'
  <2>1. Plan' = Plan
    BY <1>2 DEF Plan
  <2>2. \A i, n : \A p \in DOMAIN named : Lists(i, Key(p), n)' <=> Lists(i, Key(p), n)
    BY <1>10, <2>1 DEF Lists
  <2>3. \A n : \A p \in DOMAIN named : Listed(Key(p), n)' <=> Listed(Key(p), n)
    BY <2>1, <2>2 DEF Listed
  <2>4. \A n : \A p \in DOMAIN named : Aside(p, n)' <=> Aside(p, n)
    BY <2>1, <2>2 DEF Aside
  <2> QED BY <1>10, <2>2, <2>3, <2>4 DEF Own, Placed, Encoded
<1>12. \A n \in 1..Len(a) : ~Aside(a, n)'
  <2>1. ASSUME NEW n \in 1..Len(a), NEW i \in DOMAIN Plan, a[n] = Temporary[i] PROVE FALSE
    BY <1>1, <1>5, <2>1, PlanIs
  <2>2. Plan' = Plan
    BY <1>2 DEF Plan
  <2> QED BY <2>1, <2>2 DEF Aside
<1>13. /\ \A i \in DOMAIN Plan : Used(i)' <=> Used(i)
       /\ Remakes' <=> Remakes
       /\ \A s : Stays(s)' <=> Stays(s)
  <2>1. ASSUME NEW i \in DOMAIN Plan PROVE Used(i)' <=> Used(i)
    <3>1. ASSUME NEW n \in 1..Len(a), a[n] = Temporary[i] PROVE FALSE
      BY <1>1, <1>5, <3>1, PlanIs
    <3> QED BY <1>7, <1>10, <3>1 DEF Used
  <2>2. NamesApart' <=> NamesApart
    BY <1>2 DEF NamesApart
  <2> QED BY <1>2, <2>1, <2>2 DEF Remakes, Stays
<1>14. NamesTypeOK'
  <2>1. \A p \in DOMAIN named' : p \in Paths /\ named'[p] \in File
    <3>1. named'[a] \in File
      BY <1>5, <1>6, <1>7 DEF File
    <3> QED BY <1>1, <1>5, <1>10, <3>1 DEF NamesTypeOK
  <2>2. DOMAIN named' \subseteq Paths /\ clock' \in 1..MaxSaves
    BY <1>2, <1>6, <2>1
  <2> QED BY <1>1, <1>2, <1>8, <2>1, <2>2, Zenon DEF NamesTypeOK
<1>15. PlanOK' /\ ControlOK'
  BY <1>1, <1>2 DEF PlanOK, ControlOK, Plan
<1>16. Spelt'
  <2>1. ASSUME NEW p \in DOMAIN named
        PROVE  Key(p)' \in title' /\ Len(p) = Len(Key(p)') /\ \A n \in 1..Len(p) : Reads(p, n)'
    <3>1. Key(p) \in title /\ Len(p) = Len(Key(p)) /\ \A n \in 1..Len(p) : Reads(p, n)
      BY <1>1 DEF Spelt
    <3> QED BY <1>2, <1>10, <1>11, <3>1 DEF Reads
  <2>2. Key(a)' \in title' /\ Len(a) = Len(Key(a)') /\ \A n \in 1..Len(a) : Reads(a, n)'
    BY <1>2, <1>10, <1>11 DEF Reads
  <2> QED BY <1>10, <2>1, <2>2 DEF Spelt
<1>17. FoldApart'
  <2>1. ASSUME NEW p \in DOMAIN named, Fold[p[1]] = Fold[a[1]]
        PROVE  p[1] = a[1] /\ (Len(p) = 2 /\ Len(a) = 2 /\ Fold[p[2]] = Fold[a[2]] => p[2] = a[2])
    <3>1. p \in Paths
      BY <1>1 DEF NamesTypeOK
    <3>2. Len(p) = 2 /\ Len(a) = 2 /\ Fold[p[2]] = Fold[a[2]] => Covers(p, a)
      BY <1>5, <2>1, <3>1, TwoNamesApiece
    <3> QED BY <1>3, <2>1, <3>2
  <2>2. Apart(named)
    BY <1>1 DEF FoldApart
  <2> QED BY <1>10, <2>1, <2>2 DEF FoldApart, Apart
<1>18. KeysApart'
  <2>1. ASSUME record.state = "moving", NEW i \in DOMAIN Plan, Covers(a, Plan[i]) PROVE Above(Plan[i], a)
    <3>1. /\ Plan[i] \in Paths /\ (Len(Plan[i]) = 1 \/ Len(Plan[i]) = 2)
          /\ \A n \in 1..Len(Plan[i]) : Plan[i][n] \in SegmentsOf(title)
      BY <1>1, PlanIs
    <3>2. Len(Plan[i]) <= Len(a) /\ \A n \in 1..Len(Plan[i]) : Fold[a[n]] = Fold[Plan[i][n]]
      BY <2>1 DEF Covers
    <3>3. \A n \in 1..Len(Plan[i]) : n \in 1..Len(a)
      BY <1>5, <3>1, <3>2
    <3>4. \A n \in 1..Len(Plan[i]) : a[n] = Plan[i][n]
      BY <1>3, <1>5, <2>1, <3>1, <3>2, <3>3 DEF NamesApart
    <3> QED BY <3>2, <3>4 DEF Above
  <2>2. Plan' = Plan
    BY <1>2 DEF Plan
  <2> QED BY <1>1, <1>2, <1>10, <2>1, <2>2 DEF KeysApart
<1>19. Times'
  <2>1. \A l \in title' : saved'[l] <= clock'
    BY <1>2, <1>5, <1>6, <1>8
  <2>2. ASSUME NEW p \in DOMAIN named, p # a PROVE named'[p].at \in Nat /\ named'[p].at <= saved'[Key(p)'] /\ named'[p].at < now
    <3>1. Key(p) \in title /\ named[p].at <= saved[Key(p)] /\ named[p].at \in Nat
      BY <1>1 DEF Spelt, Times, NamesTypeOK, File, Assumed, NamesAssumption
    <3>2. saved[Key(p)] < now /\ saved[Key(p)] \in Nat
      BY <1>8, <3>1
    <3>3. saved'[Key(p)] = saved[Key(p)] \/ saved'[Key(p)] = now
      BY <1>5, <1>8, <3>1
    <3> QED BY <1>6, <1>10, <2>2, <3>1, <3>2, <3>3
  <2>3. named'[a].at = now /\ saved'[Key(a)'] = now /\ now <= now
    BY <1>6, <1>7, <1>8, <1>10
  <2>4. \A p, q \in DOMAIN named' : Key(p)' = Key(q)' /\ named'[p].at = named'[q].at => p = q
    <3>1. ASSUME NEW p \in DOMAIN named', NEW q \in DOMAIN named', Key(p)' = Key(q)', named'[p].at = named'[q].at
          PROVE  p = q
      <4>1. CASE p = a \/ q = a
        BY <1>6, <1>10, <2>2, <2>3, <3>1, <4>1
      <4>2. CASE p # a /\ q # a
        <5>1. p \in DOMAIN named /\ q \in DOMAIN named /\ Key(p) = Key(q) /\ named[p].at = named[q].at
          BY <1>10, <3>1, <4>2
        <5> QED BY <1>1, <5>1 DEF Times
      <4> QED BY <4>1, <4>2
    <3> QED BY <3>1
  <2>5. \A p \in DOMAIN named' : named'[p].at <= saved'[Key(p)']
    BY <1>10, <2>2, <2>3
  <2> QED BY <2>1, <2>4, <2>5 DEF Times
<1>20. Kept'
  <2>1. ASSUME NEW l \in title, saved'[l] # 0 PROVE \E p \in DOMAIN named' : Key(p)' = l /\ named'[p].at = saved'[l]
    <3>1. CASE l = a
      BY <1>7, <1>8, <1>10, <3>1
    <3>2. CASE l # a
      <4>1. saved'[l] = saved[l]
        BY <1>5, <1>8, <3>2
      <4>2. PICK p \in DOMAIN named : Key(p) = l /\ named[p].at = saved[l]
        BY <1>1, <2>1, <4>1 DEF Kept
      <4>3. p # a
        BY <1>9, <3>2, <4>2
      <4> QED BY <1>7, <1>10, <4>1, <4>2, <4>3
    <3> QED BY <3>1, <3>2
  <2> QED BY <1>2, <2>1 DEF Kept
<1>21. TreeOK'
  BY <1>16, <1>17, <1>18, <1>19, <1>20 DEF TreeOK
<1>22. OwnNewest'
  <2>1. ASSUME record.state \in {"moving", "placing"}, NEW p \in DOMAIN named', p = Key(p)' PROVE named'[p].at = saved'[p]
    <3>1. CASE p = a
      BY <1>7, <1>8, <3>1
    <3>2. CASE p # a
      <4>1. p \in DOMAIN named /\ p = Key(p)
        BY <1>10, <2>1, <3>2
      <4>2. p \in SaveKeys
        BY <1>1, <1>5, <4>1 DEF Spelt
      <4> QED BY <1>1, <1>8, <1>10, <2>1, <3>2, <4>1, <4>2 DEF OwnNewest
    <3> QED BY <3>1, <3>2
  <2> QED BY <1>2, <2>1 DEF OwnNewest
<1>23. Sole'
  BY <1>1, <1>2, <1>10 DEF Sole
<1>24. Single'
  BY <1>2 DEF Single, Remakes
<1>25. StayOwn'
  <2>1. ASSUME NEW n \in 1..Len(a), record.state # "absent" PROVE Stays(a[n])
    BY <1>3, <2>1 DEF Stays
  <2>2. record.state = "moving" => Remakes
    BY <1>2 DEF Remakes
  <2>3. ASSUME NEW n \in 1..Len(a)
        PROVE  /\ record.state \in {"placing", "encoded"} => Stays(a[n])
               /\ record.state = "moving" => Stays(a[n]) /\ Remakes
    BY <2>1, <2>2
  <2>4. Plan' = Plan
    BY <1>2 DEF Plan
  <2>5. ASSUME NEW p \in DOMAIN named, NEW n \in 1..Len(p), Own(p, n)
        PROVE  /\ record.state \in {"placing", "encoded"} => Stays(p[n])'
               /\ record.state = "moving" =>
                     /\ ~Listed(Key(p), n)' => Stays(p[n])'
                     /\ \A i \in DOMAIN Plan : Lists(i, Key(p), n)' /\ Used(i)' => Stays(p[n])' /\ Remakes'
    BY <1>1, <1>11, <1>13, <2>5 DEF StayOwn
  <2> QED BY <1>2, <1>10, <1>11, <1>13, <2>3, <2>4, <2>5 DEF StayOwn
<1>26. Inner'
  <2>1. \A p \in DOMAIN named' : Len(p) = 2 /\ Aside(p, 2)' => p \in DOMAIN named
    <3>1. Len(a) = 2 => 2 \in 1..Len(a)
      BY <1>5
    <3> QED BY <1>10, <1>12, <3>1
  <2> QED BY <1>1, <1>2, <1>11, <2>1 DEF Inner
<1>27. Proper'
  BY <1>1, <1>2, <1>10, <1>11 DEF Proper
<1>28. Nested'
  BY <1>1, <1>2, <1>10, <1>11 DEF Nested
<1>29. ConvertingOK'
  BY <1>22, <1>23, <1>24, <1>25, <1>26, <1>27, <1>28 DEF ConvertingOK
<1>30. Progress' /\ PlainOK'
  BY <1>2, <1>4 DEF Progress, PlainOK, Nothing
<1> QED BY <1>14, <1>15, <1>21, <1>29, <1>30 DEF NamesInv

\* Every step keeps the invariant.
LEMMA NextStep ==
    ASSUME Assumed, NamesInv, [NamesNext]_namesVars
    PROVE  NamesInv'
<1>1. CASE UNCHANGED namesVars
  <2>1. /\ UNCHANGED <<title, named, record, clock, saved>> /\ UNCHANGED <<up, stage, step, naming, known>>
        /\ PlanOK /\ TreeOK /\ ConvertingOK /\ NamesTypeOK /\ ControlOK /\ Progress /\ PlainOK
    BY <1>1 DEF namesVars, NamesInv
  <2>2. PlanOK' /\ TreeOK' /\ ConvertingOK' /\ \A i : Used(i)' <=> Used(i)
    BY <2>1, Quiet
  <2>3. NamesTypeOK' /\ ControlOK' /\ PlainOK'
    BY <2>1 DEF NamesTypeOK, ControlOK, PlainOK, Plan
  <2>4. Progress'
    <3>1. Remakes' <=> Remakes
      BY <2>1 DEF Remakes
    <3>2. \A s : Stays(s)' <=> Stays(s)
      BY <2>1 DEF Stays, NamesApart
    <3> QED BY <2>1, <2>2, <3>1, <3>2 DEF Progress, Plan
  <2> QED BY <2>2, <2>3, <2>4 DEF NamesInv
<1>2. CASE NamesNext
  <2>1. UNCHANGED title
    BY <1>2 DEF NamesNext
  <2>2. CASE Settle
    <3>1. SettleEncoded \/ SettleAsKnown \/ SettleUnconverted \/ ResumeConversion => NamesInv'
      BY <2>1, IdleStep
    <3>2. SettlePlain => NamesInv'
      BY <2>1, SettlePlainStep
    <3>3. StartConversion => NamesInv'
      BY <2>1, StartConversionStep
    <3> QED BY <2>2, <3>1, <3>2, <3>3 DEF Settle
  <2>3. CASE Convert
    <3>1. ASSUME MoveAside PROVE NamesInv'
      <4>1. CASE (Exists(TemporaryPath(step)) \/ ~Exists(Plan[step])) /\ UNCHANGED named /\ Advance
        BY <2>1, <3>1, <4>1, MoveAsideStays
      <4>2. CASE /\ ~Exists(TemporaryPath(step)) /\ Exists(Plan[step])
                 /\ Rename(Plan[step], TemporaryPath(step)) /\ Advance
        BY <2>1, <3>1, <4>2, MoveAsideMoves
      <4> QED BY <3>1, <4>1, <4>2 DEF MoveAside, Plan
    <3>2. ASSUME Place PROVE NamesInv'
      <4>1. CASE ~Exists(PlacingPath(step)) /\ UNCHANGED named
        BY <2>1, <3>2, <4>1, PlaceStays
      <4>2. CASE ~Exists(Destination) /\ Exists(PlacingPath(step)) /\ Rename(PlacingPath(step), Destination)
        BY <2>1, <3>2, <4>2, PlaceMoves
      <4> QED BY <3>2, <4>1, <4>2 DEF Place
    <3>3. CannotMove \/ CannotGoOn => NamesInv'
      BY <2>1, IdleStep
    <3>4. AllMoved => NamesInv'
      BY <2>1, AllMovedStep
    <3>5. AllPlaced => NamesInv'
      BY <2>1, AllPlacedStep
    <3>6. MoveBack => NamesInv'
      BY <2>1, MoveBackStep
    <3>7. Undone => NamesInv'
      BY <2>1, UndoneStep
    <3> QED BY <2>3, <3>1, <3>2, <3>3, <3>4, <3>5, <3>6, <3>7 DEF Convert
  <2>4. ASSUME NEW k \in title, ReadSave(k) PROVE NamesInv'
    BY <2>1, <2>4, ReadSaveStep
  <2>5. ASSUME NEW k \in title, BecomeEncoded(k) PROVE NamesInv'
    BY <2>1, <2>5, BecomeEncodedStep
  <2>6. ASSUME NEW k \in title, WriteSave(k) PROVE NamesInv'
    BY <2>1, <2>6, WriteSaveStep
  <2>7. ASSUME NEW k \in title, EarlierBuildWrites(k) PROVE NamesInv'
    BY <2>1, <2>7, EarlierBuildWritesStep
  <2>8. Stop \/ Start => NamesInv'
    BY <2>1, IdleStep
  <2> QED BY <1>2, <2>2, <2>3, <2>4, <2>5, <2>6, <2>7, <2>8 DEF NamesNext
<1> QED BY <1>1, <1>2

\* The invariant holds throughout, whatever the title, the volume and the bounds.
THEOREM NamesInvAlways ==
    ASSUME NamesAssumption, DirectoriesAssumption
    PROVE  NamesSpec => []NamesInv
<1>1. NamesInit => NamesInv
  BY InitNames DEF Assumed
<1>2. NamesInv /\ [NamesNext]_namesVars => NamesInv'
  BY NextStep DEF Assumed
<1> QED BY <1>1, <1>2, PTL DEF NamesSpec

-----------------------------------------------------------------------------
(***************************************************************************)
(* What the invariant is for.                                              *)
(***************************************************************************)

\* The invariant implies that no name stays temporary.
LEMMA NothingTemporary ==
    ASSUME Assumed, NamesInv
    PROVE  NoNameStaysTemporary
<1>1. NamesTypeOK /\ PlanOK /\ Spelt
  BY DEF NamesInv, TreeOK
<1>2. ASSUME record.state \in {"absent", "encoded"}, NEW p \in DOMAIN named, NEW n \in 1..Len(p)
      PROVE  p[n] \notin TemporaryNames
  <2>1. Key(p)[n] \in Segments /\ Reads(p, n)
    BY <1>1, FilesAre
  <2>2. p[n] = Key(p)[n] \/ p[n] = Encode[Key(p)[n]]
    BY <1>2, <2>1 DEF Reads, Own, Encoded
  <2>3. p[n] \in SegmentNames
    BY <2>1, <2>2, NamesAre DEF Assumed
  <2> QED BY <2>3 DEF Assumed, NamesAssumption
<1>3. \A p \in DOMAIN named : DOMAIN p = 1..Len(p)
  BY <1>1, FilesAre, PathShape
<1> QED BY <1>2, <1>3 DEF NoNameStaysTemporary

\* A key's newest file is its last save; a key with none has no file.
LEMMA SavesAre ==
    ASSUME Assumed, NamesTypeOK, Spelt, Times, Kept, NEW k \in title
    PROVE  /\ saved[k] # 0 => \E p \in DOMAIN named : Key(p) = k /\ named[p].at = saved[k]
           /\ saved[k] = 0 => (\A p \in DOMAIN named : Key(p) # k) /\ Saves(k) = {}
           /\ \A p \in DOMAIN named : Key(p) = k /\ named[p].at = saved[k] =>
                 saved[k] # 0 /\ Saves(k) = {named[p]} /\ named[p] = [key |-> k, at |-> saved[k]]
<1>1. \A p \in DOMAIN named : named[p] \in File /\ named[p].at <= saved[Key(p)] /\ named[p].at \in Nat /\ named[p].at # 0
  BY DEF NamesTypeOK, File, Times, Assumed, NamesAssumption
<1>2. ASSUME NEW p \in DOMAIN named, Key(p) = k, named[p].at = saved[k]
      PROVE  saved[k] # 0 /\ Saves(k) = {named[p]} /\ named[p] = [key |-> k, at |-> saved[k]]
  <2>1. named[p] = [key |-> k, at |-> saved[k]]
    BY <1>1, <1>2 DEF Key, File
  <2>2. saved[k] # 0
    BY <1>1, <1>2
  <2> QED BY <2>1, <2>2 DEF Saves
<1>3. ASSUME saved[k] = 0, NEW p \in DOMAIN named PROVE Key(p) # k
  BY <1>1, <1>3
<1> QED BY <1>2, <1>3 DEF Kept, Saves

\* The invariant implies that no save is lost.
LEMMA NothingLost ==
    ASSUME Assumed, NamesInv
    PROVE  NoSaveIsLost
<1>1. NamesTypeOK /\ Spelt /\ Times /\ Kept
  BY DEF NamesInv, TreeOK
<1>2. ASSUME NEW k \in title PROVE Saves(k) \subseteq {named[p] : p \in DOMAIN named}
  <2>1. CASE saved[k] = 0
    BY <1>1, <2>1, SavesAre
  <2>2. CASE saved[k] # 0
    <3>1. PICK p \in DOMAIN named : Key(p) = k /\ named[p].at = saved[k]
      BY <1>1, <2>2, SavesAre
    <3>2. Saves(k) = {named[p]}
      BY <1>1, <3>1, SavesAre
    <3> QED BY <3>2
  <2> QED BY <2>1, <2>2
<1> QED BY <1>2 DEF NoSaveIsLost

\* The key a listing reads a file's path as is the one it was written for.
LEMMA KeyOfIs ==
    ASSUME Assumed, NamesInv, stage = "settled", naming # "converting", NEW p \in DOMAIN named
    PROVE  KeyOf(p) = Key(p)
<1>1. NamesTypeOK /\ PlanOK /\ ControlOK /\ Spelt
  BY DEF NamesInv, TreeOK
<1>2. p \in Paths /\ Key(p) \in Paths /\ Len(p) = Len(Key(p)) /\ title \in Titles
  BY <1>1, FilesAre DEF NamesTypeOK
<1>3. CASE naming = "encoded"
  <2>1. InOrder(named)
    BY <1>1, <1>3, NamedInOrder DEF ControlOK
  <2>2. \A n \in 1..Len(p) : ReadName(p[n]) = Key(p)[n]
    BY <1>2, <2>1, ReadsAsKey DEF Key
  <2>3. PICK q \in Paths : q = Key(p)
    BY <1>2
  <2>4. DOMAIN p = 1..Len(p) /\ q = [n \in 1..Len(p) |-> q[n]]
    <3>1. DOMAIN p = 1..Len(p) /\ DOMAIN q = 1..Len(q) /\ q \in Seq(Names)
      BY <1>2, PathShape
    <3>2. q = [n \in DOMAIN q |-> q[n]]
      BY <3>1, SeqDef
    <3> QED BY <1>2, <2>3, <3>1, <3>2
  <2>5. KeyOf(p) = [n \in 1..Len(p) |-> ReadName(p[n])]
    BY <1>3, <2>4 DEF KeyOf
  <2> QED BY <2>2, <2>3, <2>4, <2>5
<1>4. CASE naming # "encoded"
  <2>1. record.state = "absent"
    BY <1>1, <1>4 DEF ControlOK
  <2>2. p = Key(p)
    BY <1>1, <2>1, StillOwn
  <2> QED BY <1>4, <2>2 DEF KeyOf
<1> QED BY <1>3, <1>4

\* The invariant implies that a listing is complete.
LEMMA ListingComplete ==
    ASSUME Assumed, NamesInv
    PROVE  ListingIsComplete
<1>1. NamesTypeOK /\ Spelt /\ Times /\ Kept
  BY DEF NamesInv, TreeOK
<1>2. SUFFICES ASSUME stage = "settled", naming # "converting"
               PROVE  Listing = UNION {{<<k, f>> : f \in Saves(k)} : k \in title}
  BY DEF ListingIsComplete
<1> DEFINE Chosen(p) == \A q \in DOMAIN named :
               KeyOf(q) = KeyOf(p) =>
                   \/ named[q].at < named[p].at
                   \/ named[q].at = named[p].at /\ (p = q \/ p = EncodedPath(KeyOf(p)))
<1>3. ASSUME NEW p \in DOMAIN named PROVE Chosen(p) <=> named[p].at = saved[Key(p)]
  <2>1. \A q \in DOMAIN named : KeyOf(q) = Key(q)
    BY <1>2, KeyOfIs
  <2>2. Key(p) \in title /\ \A q \in DOMAIN named : named[q].at \in Nat /\ named[q].at <= saved[Key(q)]
    BY <1>1, FilesAre DEF Times, NamesTypeOK, File, Assumed, NamesAssumption
  <2>3. saved[Key(p)] # 0
    BY <1>1, <2>2, SavesAre
  <2>4. PICK w \in DOMAIN named : Key(w) = Key(p) /\ named[w].at = saved[Key(p)]
    BY <1>1, <2>2, <2>3, SavesAre
  <2>5. ASSUME Chosen(p) PROVE named[p].at = saved[Key(p)]
    <3>1. named[w].at < named[p].at \/ named[w].at = named[p].at
      BY <2>1, <2>4, <2>5
    <3> QED BY <2>2, <2>4, <3>1
  <2>6. ASSUME named[p].at = saved[Key(p)], NEW q \in DOMAIN named, Key(q) = Key(p)
        PROVE  named[q].at < named[p].at \/ (named[q].at = named[p].at /\ p = q)
    <3>1. named[q].at <= named[p].at /\ named[q].at \in Nat /\ named[p].at \in Nat
      BY <2>2, <2>6
    <3>2. named[q].at = named[p].at => p = q
      BY <1>1, <2>6 DEF Times
    <3> QED BY <3>1, <3>2
  <2> QED BY <2>1, <2>5, <2>6
<1>4. Listing = {<<KeyOf(p), named[p]>> : p \in {q \in DOMAIN named : Chosen(q)}}
  BY DEF Listing
<1> HIDE DEF Chosen
<1>5. \A p \in DOMAIN named : KeyOf(p) = Key(p) /\ Key(p) \in title
  BY <1>1, <1>2, KeyOfIs, FilesAre
<1>6. ASSUME NEW x \in Listing PROVE x \in UNION {{<<k, f>> : f \in Saves(k)} : k \in title}
  <2>1. PICK p \in DOMAIN named : Chosen(p) /\ x = <<KeyOf(p), named[p]>>
    BY <1>4, Zenon
  <2>2. PICK k \in title : k = Key(p) /\ x = <<k, named[p]>> /\ named[p].at = saved[k]
    BY <1>3, <1>5, <2>1
  <2>3. named[p] \in Saves(k)
    <3>1. Saves(k) = {named[p]}
      BY <1>1, <2>2, SavesAre
    <3> QED BY <3>1
  <2> QED BY <2>2, <2>3
<1>7. ASSUME NEW k \in title, NEW f \in Saves(k) PROVE <<k, f>> \in Listing
  <2>1. PICK p \in DOMAIN named : Key(p) = k /\ named[p].at = saved[k]
    BY <1>1, SavesAre
  <2>2. f = named[p]
    <3>1. Saves(k) = {named[p]}
      BY <1>1, <2>1, SavesAre
    <3> QED BY <3>1
  <2>3. Chosen(p) /\ KeyOf(p) = k
    BY <1>3, <1>5, <2>1
  <2> QED BY <1>4, <2>2, <2>3
<1>8. ASSUME NEW x \in UNION {{<<k, f>> : f \in Saves(k)} : k \in title} PROVE x \in Listing
  BY <1>7
<1> QED BY <1>6, <1>8

\* A key's first names are in the plan when it lists them.
LEMMA InPlanIs ==
    ASSUME Assumed, NamesTypeOK, PlanOK, NEW k \in title, NEW n \in 1..Len(k)
    PROVE  /\ InPlan(SubSeq(k, 1, n)) <=> Listed(k, n)
           /\ \A i \in DOMAIN Plan : Lists(i, k, n) =>
                TemporaryOf(SubSeq(k, 1, n)) = Temporary[i] /\ Plan[i][n] = k[n] /\ Converts(k[n])
<1>1. PICK s \in Paths : s = SubSeq(k, 1, n) /\ Len(s) = n /\ \A j \in 1..n : s[j] = k[j]
  BY ZenonT(60), FirstNames, KeysAre DEF NamesTypeOK, Assumed
<1>2. k \in Paths /\ (Len(k) = 1 \/ Len(k) = 2) /\ n <= Len(k)
  BY KeysAre, TwoNames DEF NamesTypeOK, Assumed
<1>3. \A i \in DOMAIN Plan : Plan[i] \in Paths
  BY PlanIs
<1>4. ASSUME NEW i \in DOMAIN Plan PROVE Lists(i, k, n) <=> Plan[i] = s
  <2>1. PICK b \in Paths : b = Plan[i]
    BY <1>3
  <2>2. Above(b, k) <=> Len(b) <= Len(k) /\ b = SubSeq(k, 1, Len(b))
    BY <1>2, FirstNamesAre
  <2> QED BY <1>1, <1>2, <2>1, <2>2 DEF Lists
<1>5. InPlan(s) <=> Listed(k, n)
  BY <1>4 DEF InPlan, Listed, Plan
<1>6. ASSUME NEW i \in DOMAIN Plan, Lists(i, k, n)
      PROVE  TemporaryOf(s) = Temporary[i] /\ Plan[i][n] = k[n] /\ Converts(k[n])
  <2>1. Plan[i] = s
    BY <1>4, <1>6
  <2>2. PICK c : c = CHOOSE j \in DOMAIN record.plan : record.plan[j] = s
    OBVIOUS
  <2>3. c \in DOMAIN Plan /\ Plan[c] = s
    BY <2>1, <2>2 DEF Plan
  <2>4. c = i
    BY <2>1, <2>3 DEF PlanOK
  <2>5. TemporaryOf(s) = Temporary[c]
    BY <2>2 DEF TemporaryOf
  <2>6. Converts(s[n]) /\ s[n] = k[n]
    <3>1. n \in 1..n
      BY <1>2
    <3> QED BY <1>1, <2>1, <3>1 DEF PlanOK
  <2> QED BY <2>1, <2>4, <2>5, <2>6
<1> QED BY <1>1, <1>5, <1>6

\* The spellings a read tries while the names are being converted.
LEMMA SpellingsAre ==
    ASSUME Assumed, NamesTypeOK, PlanOK, NEW k \in title, NEW n \in 1..Len(k), NEW x
    PROVE  x \in ConvertingSpellings(k, n) <=>
             \/ ~Listed(k, n) /\ x = k[n]
             \/ Listed(k, n) /\ (\E i \in DOMAIN Plan : Lists(i, k, n) /\ x = Temporary[i])
             \/ Listed(k, n) /\ x = IF record.state = "placing" THEN Encode[k[n]] ELSE k[n]
<1>1. CASE ~Listed(k, n)
  BY <1>1, InPlanIs DEF ConvertingSpellings
<1>2. CASE Listed(k, n)
  <2>1. PICK i \in DOMAIN Plan : Lists(i, k, n)
    BY <1>2 DEF Listed
  <2>2. \A j \in DOMAIN Plan : Lists(j, k, n) => TemporaryOf(SubSeq(k, 1, n)) = Temporary[j]
    BY InPlanIs
  <2>3. InPlan(SubSeq(k, 1, n))
    BY <1>2, InPlanIs
  <2> QED BY <1>2, <2>1, <2>2, <2>3 DEF ConvertingSpellings
<1> QED BY <1>1, <1>2

\* An entry that lists a file's n-th name lists every key's that it is.
LEMMA SameSegment ==
    ASSUME Assumed, NamesTypeOK, PlanOK, NEW k \in title, NEW l \in title, NEW n \in 1..Len(k), n \in 1..Len(l),
           NEW i \in DOMAIN Plan, Lists(i, k, n), Lists(i, l, n)
    PROVE  k[n] = l[n]
BY InPlanIs

FoundFor(k) == {p \in DOMAIN named :
                  Len(p) = Len(k) /\ \A n \in DOMAIN k : p[n] \in ConvertingSpellings(k, n)}

\* In the first pass: the names a key's file may be under are its files'.
LEMMA FoundMoving ==
    ASSUME Assumed, NamesTypeOK, PlanOK, Spelt, record.state = "moving", NEW k \in title, NEW p \in DOMAIN named
    PROVE  p \in FoundFor(k) <=> Key(p) = k
<1>1. /\ k \in Paths /\ Key(p) \in Paths /\ Key(p) \in title /\ Len(p) = Len(Key(p)) /\ DOMAIN k = 1..Len(k)
      /\ \A n \in 1..Len(k) : k[n] \in SegmentNames
  BY FilesAre, KeysAre, NamesAre, PathShape DEF NamesTypeOK, Assumed
<1>2. ASSUME Len(p) = Len(k), NEW n \in 1..Len(k), p[n] \in ConvertingSpellings(k, n) PROVE Key(p)[n] = k[n]
  <2>1. n \in 1..Len(p) /\ n \in 1..Len(Key(p))
    BY <1>1, <1>2
  <2>2. CASE p[n] = k[n]
    <3>1. Own(p, n)
      BY <1>1, <2>1, <2>2, OwnIs
    <3> QED BY <2>2, <3>1 DEF Own
  <2>3. ASSUME NEW i \in DOMAIN Plan, Lists(i, k, n), p[n] = Temporary[i] PROVE Key(p)[n] = k[n]
    <3>1. Lists(i, Key(p), n)
      BY <2>1, <2>3, TemporaryIs
    <3> QED BY <1>1, <2>1, <2>3, <3>1, SameSegment
  <2>4. \/ p[n] = k[n]
        \/ \E i \in DOMAIN Plan : Lists(i, k, n) /\ p[n] = Temporary[i]
    BY <1>2, SpellingsAre
  <2> QED BY <2>2, <2>3, <2>4
<1>3. ASSUME Key(p) = k, NEW n \in 1..Len(k) PROVE p[n] \in ConvertingSpellings(k, n)
  <2>1. Own(p, n) \/ Aside(p, n)
    BY <1>1, <1>3, FilesAre DEF Reads
  <2>2. Aside(p, n) => Listed(k, n)
    BY <1>3 DEF Aside, Listed
  <2> QED BY <1>3, <2>1, <2>2, SpellingsAre DEF Own, Aside
<1>4. ASSUME Len(p) = Len(k), \A n \in 1..Len(k) : Key(p)[n] = k[n] PROVE Key(p) = k
  BY <1>1, <1>4, SamePath
<1> QED BY <1>1, <1>2, <1>3, <1>4 DEF FoundFor

\* In the second pass: while the key has a save, and none is put back.
LEMMA FoundPlacing ==
    ASSUME Assumed, NamesTypeOK, PlanOK, Spelt, StayOwn, Proper, record.state = "placing", NEW k \in title,
           ~PutBack(k), NEW w \in DOMAIN named, Key(w) = k, NEW p \in DOMAIN named
    PROVE  p \in FoundFor(k) <=> Key(p) = k
<1>1. /\ k \in Paths /\ DOMAIN k = 1..Len(k) /\ title \in Titles
      /\ \A n \in 1..Len(k) : k[n] \in Segments /\ k[n] \in SegmentNames /\ Encode[k[n]] \in SegmentNames
  BY KeysAre, NamesAre, PathShape DEF NamesTypeOK, Assumed
<1>2. \A q \in DOMAIN named : Key(q) \in Paths /\ Key(q) \in title /\ Len(q) = Len(Key(q))
  BY FilesAre
<1>3. ASSUME NEW q \in DOMAIN named, Key(q) = k, NEW n \in 1..Len(k)
      PROVE  (Listed(k, n) => ~Own(q, n)) /\ (~Listed(k, n) => Own(q, n))
  <2>1. n \in 1..Len(q) /\ Reads(q, n)
    BY <1>2, <1>3, FilesAre
  <2>2. ASSUME Listed(k, n), Own(q, n) PROVE FALSE
    <3>1. q = k
      BY <1>3, <2>1, <2>2 DEF Proper
    <3>2. InPlan(SubSeq(k, 1, n))
      BY <2>2, InPlanIs
    <3> QED BY <1>1, <1>3, <3>1, <3>2 DEF PutBack, Key
  <2>3. ~Listed(k, n) => Own(q, n)
    BY <1>3, <2>1 DEF Reads, Aside, Placed, Listed
  <2> QED BY <2>2, <2>3
<1>4. ASSUME NEW n \in 1..Len(k), ~Listed(k, n) PROVE Unambiguous(k[n])
  <2>1. Own(w, n) /\ n \in 1..Len(w)
    BY <1>2, <1>3, <1>4
  <2> QED BY <2>1 DEF StayOwn, Stays, Own
<1>5. ASSUME Len(p) = Len(k), NEW n \in 1..Len(k), p[n] \in ConvertingSpellings(k, n) PROVE Key(p)[n] = k[n]
  <2>1. n \in 1..Len(p) /\ n \in 1..Len(Key(p)) /\ Reads(p, n) /\ Key(p)[n] \in Segments
    BY <1>2, <1>5, FilesAre
  <2>2. p[n] \in SegmentNames => ~Aside(p, n)
    BY PlanIs DEF Aside
  <2>3. Own(p, n) \/ Aside(p, n) \/ Placed(p, n)
    BY <2>1 DEF Reads
  <2>4. CASE ~Listed(k, n) /\ p[n] = k[n]
    <3>1. Own(p, n) \/ p[n] = Encode[Key(p)[n]]
      BY <1>1, <2>2, <2>3, <2>4 DEF Placed
    <3>2. p[n] = Encode[Key(p)[n]] => Key(p)[n] = k[n]
      BY <1>1, <1>4, <2>1, <2>4, ReadsAs DEF Assumed
    <3> QED BY <2>4, <3>1, <3>2 DEF Own
  <2>5. ASSUME NEW i \in DOMAIN Plan, Lists(i, k, n), p[n] = Temporary[i] PROVE Key(p)[n] = k[n]
    <3>1. Lists(i, Key(p), n)
      BY <2>1, <2>5, TemporaryIs
    <3> QED BY <1>2, <2>1, <2>5, <3>1, SameSegment
  <2>6. CASE Listed(k, n) /\ p[n] = Encode[k[n]]
    <3>1. Encode[k[n]] # k[n]
      BY <2>6, InPlanIs DEF Listed, Converts
    <3>2. ~Own(p, n)
      <4>1. ASSUME Own(p, n) PROVE FALSE
        <5>1. Unambiguous(p[n]) /\ p[n] \in Segments
          BY <2>1, <4>1 DEF StayOwn, Stays, Own
        <5>2. k[n] = p[n]
          BY <1>1, <2>6, <5>1, ReadsAs DEF Assumed
        <5> QED BY <2>6, <3>1, <5>2
      <4> QED BY <4>1
    <3>3. Encode[Key(p)[n]] = Encode[k[n]]
      BY <1>1, <2>2, <2>3, <2>6, <3>2 DEF Placed
    <3> QED BY <1>1, <2>1, <3>3, NamesAre DEF Assumed
  <2>7. \/ ~Listed(k, n) /\ p[n] = k[n]
        \/ \E i \in DOMAIN Plan : Lists(i, k, n) /\ p[n] = Temporary[i]
        \/ Listed(k, n) /\ p[n] = Encode[k[n]]
    BY <1>5, SpellingsAre
  <2> QED BY <2>4, <2>5, <2>6, <2>7
<1>6. ASSUME Key(p) = k, NEW n \in 1..Len(k) PROVE p[n] \in ConvertingSpellings(k, n)
  <2>1. n \in 1..Len(p) /\ Reads(p, n) /\ (Listed(k, n) => ~Own(p, n)) /\ (~Listed(k, n) => Own(p, n))
    BY <1>2, <1>3, <1>6, FilesAre
  <2> QED BY <1>6, <2>1, SpellingsAre DEF Reads, Own, Aside, Placed
<1>7. ASSUME Len(p) = Len(k), \A n \in 1..Len(k) : Key(p)[n] = k[n] PROVE Key(p) = k
  BY <1>1, <1>2, <1>7, SamePath
<1> QED BY <1>1, <1>2, <1>5, <1>6, <1>7 DEF FoundFor

Precedes(k, p, q) ==
    \E n \in DOMAIN k :
        /\ SubSeq(p, 1, n - 1) = SubSeq(q, 1, n - 1)
        /\ p[n] # q[n] /\ p[n] = FirstSpelling(k, n)

\* The file such a read takes.
LEMMA ConvertingFileIs ==
    ASSUME NEW k
    PROVE  ConvertingFile(k) = {p \in FoundFor(k) : ~\E q \in FoundFor(k) : Precedes(k, q, p)}
BY DEF ConvertingFile, FoundFor, Precedes

\* In the first pass a key's own path is looked up before any other.
LEMMA OwnFirst ==
    ASSUME Assumed, NamesTypeOK, PlanOK, record.state = "moving", NEW k \in title, NEW p \in Paths, Len(p) = Len(k)
    PROVE  (p # k <=> Precedes(k, k, p)) /\ ~Precedes(k, p, k)
<1>1. k \in Paths /\ DOMAIN k = 1..Len(k) /\ (Len(k) = 1 \/ Len(k) = 2)
  BY KeysAre, PathShape, TwoNames DEF NamesTypeOK, Assumed
<1>2. \A n \in 1..Len(k) : FirstSpelling(k, n) = k[n]
  BY DEF FirstSpelling
<1>3. ASSUME p # k PROVE Precedes(k, k, p)
  <2>1. CASE k[1] # p[1]
    <3>1. SubSeq(k, 1, 0) = SubSeq(p, 1, 0)
      <4>1. SubSeq(k, 1, 0) = <<>>
        BY SubSeqEmpty
      <4>2. SubSeq(p, 1, 0) = <<>>
        BY SubSeqEmpty
      <4> QED BY <4>1, <4>2
    <3>2. PICK n \in 1..Len(k) : n = 1
      <4>1. CASE Len(k) = 1
        BY <4>1
      <4>2. CASE Len(k) = 2
        BY <4>2
      <4> QED BY <1>1, <4>1, <4>2
    <3>3. n - 1 = 0 /\ k[n] # p[n] /\ k[n] = FirstSpelling(k, n) /\ n \in DOMAIN k
      BY <1>1, <1>2, <2>1, <3>2
    <3>4. SubSeq(k, 1, n - 1) = SubSeq(p, 1, n - 1)
      BY <3>1, <3>3
    <3> QED BY <3>3, <3>4 DEF Precedes
  <2>2. CASE k[1] = p[1]
    <3>1. Len(k) = 2 /\ k[2] # p[2]
      BY <1>1, <1>3, <2>2, TwoNamesApiece
    <3>2. 1 \in 1..Len(k) /\ 2 \in 1..Len(k) /\ 1 \in 1..Len(p)
      BY <3>1
    <3>3. PICK f \in Paths : f = SubSeq(k, 1, 1) /\ Len(f) = 1 /\ f[1] = k[1]
      <4>1. 1 \in 1..1
        OBVIOUS
      <4> QED BY <1>1, <3>2, <4>1, FirstNames
    <3>4. PICK g \in Paths : g = SubSeq(p, 1, 1) /\ Len(g) = 1 /\ g[1] = p[1]
      <4>1. 1 \in 1..1
        OBVIOUS
      <4> QED BY <3>2, <4>1, FirstNames
    <3>5. f = g
      BY <2>2, <3>3, <3>4, OneName
    <3>6. PICK n \in 1..Len(k) : n = 2
      BY <3>2
    <3>7. n - 1 = 1 /\ k[n] # p[n] /\ k[n] = FirstSpelling(k, n) /\ n \in DOMAIN k
      BY <1>1, <1>2, <3>1, <3>6
    <3>8. SubSeq(k, 1, n - 1) = SubSeq(p, 1, n - 1)
      BY <3>3, <3>4, <3>5, <3>7
    <3> QED BY <3>7, <3>8 DEF Precedes
  <2> QED BY <2>1, <2>2
<1>4. Precedes(k, k, p) => p # k
  BY DEF Precedes
<1>5. ~Precedes(k, p, k)
  BY <1>1, <1>2 DEF Precedes
<1> QED BY <1>3, <1>4, <1>5

\* While a conversion can neither go on nor be undone.
LEMMA ConvertingReads ==
    ASSUME Assumed, NamesInv, record.state \in {"moving", "placing"}, NEW k \in title, saved[k] # 0,
           record.state = "placing" => ~PutBack(k)
    PROVE  {named[p] : p \in ConvertingFile(k)} = Saves(k)
<1>1. /\ NamesTypeOK /\ PlanOK /\ Spelt /\ Times /\ Kept /\ OwnNewest /\ Sole /\ StayOwn /\ Proper
  BY DEF NamesInv, TreeOK, ConvertingOK
<1>2. PICK w \in DOMAIN named : Key(w) = k /\ named[w].at = saved[k]
  BY <1>1, SavesAre
<1>3. \A p \in DOMAIN named : p \in FoundFor(k) <=> Key(p) = k
  BY <1>1, <1>2, FoundMoving, FoundPlacing
<1>4. FoundFor(k) \subseteq DOMAIN named
  BY DEF FoundFor
<1>5. CASE k \in DOMAIN named /\ Key(k) = k /\ record.state = "moving"
  <2>1. named[k].at = saved[k]
    BY <1>1, <1>5 DEF OwnNewest
  <2>2. w = k
    BY <1>1, <1>2, <1>5, <2>1 DEF Times
  <2>3. \A p \in FoundFor(k) : p \in Paths /\ Len(p) = Len(k)
    BY <1>1, <1>4 DEF FoundFor, NamesTypeOK
  <2>4. \A p \in FoundFor(k) : (p # k <=> Precedes(k, k, p)) /\ ~Precedes(k, p, k)
    BY <1>1, <1>5, <2>3, OwnFirst
  <2>5. k \in FoundFor(k)
    BY <1>3, <1>5
  <2>6. ConvertingFile(k) = {k}
    BY <2>4, <2>5, ConvertingFileIs
  <2>7. Saves(k) = {named[k]}
    BY <1>1, <1>2, <2>2, SavesAre
  <2> QED BY <2>6, <2>7
<1>6. CASE ~(k \in DOMAIN named /\ Key(k) = k /\ record.state = "moving")
  <2>1. ASSUME NEW p \in DOMAIN named, Key(p) = k PROVE p = w
    <3>1. CASE k \in DOMAIN named /\ Key(k) = k
      <4>1. record.state = "placing" /\ k \in Paths /\ DOMAIN k = 1..Len(k)
        BY <1>1, <1>6, <3>1, KeysAre, PathShape DEF NamesTypeOK, Assumed
      <4>2. \A n \in 1..Len(k) : ~Listed(k, n)
        BY <3>1, <4>1, <1>1, InPlanIs DEF PutBack, Key
      <4>3. ASSUME NEW q \in DOMAIN named, Key(q) = k PROVE q = k
        <5>1. ASSUME NEW n \in 1..Len(q) PROVE Own(q, n)
          <6>1. Reads(q, n) /\ n \in 1..Len(k)
            BY <1>1, <4>3, FilesAre
          <6>2. ~Listed(k, n)
            BY <4>2, <6>1
          <6> QED BY <4>1, <4>3, <6>1, <6>2 DEF Reads, Aside, Placed, Listed
        <5> QED BY <1>1, <4>3, <5>1, AllOwn
      <4> QED BY <1>2, <2>1, <4>3
    <3>2. CASE ~(k \in DOMAIN named /\ Key(k) = k)
      BY <1>1, <1>2, <2>1, <3>2 DEF Sole
    <3> QED BY <3>1, <3>2
  <2>2. FoundFor(k) = {w}
    BY <1>2, <1>3, <1>4, <2>1
  <2>3. ~Precedes(k, w, w)
    BY DEF Precedes
  <2>4. ConvertingFile(k) = {w}
    BY <2>2, <2>3, ConvertingFileIs
  <2>5. Saves(k) = {named[w]}
    BY <1>1, <1>2, SavesAre
  <2> QED BY <2>4, <2>5
<1> QED BY <1>5, <1>6

\* In an encoded directory.
LEMMA EncodedReads ==
    ASSUME Assumed, NamesInv, record.state = "encoded", NEW k \in title
    PROVE  {named[p] : p \in IF LaterEarlierFile(k) # {} THEN LaterEarlierFile(k) ELSE EncodedFile(k)} = Saves(k)
<1>1. /\ NamesTypeOK /\ PlanOK /\ Spelt /\ Times /\ Kept /\ InOrder(named) /\ title \in Titles
  BY NamedInOrder DEF NamesInv, TreeOK, NamesTypeOK
<1>2. \A p \in DOMAIN named : named[p].at \in Nat /\ named[p].at <= saved[Key(p)]
  BY <1>1 DEF NamesTypeOK, File, Times, Assumed, NamesAssumption
<1>3. \A p \in EncodedFile(k) : p = EncodedPath(k) /\ p \in DOMAIN named /\ Key(p) = k
  <2>1. CASE Fits(k)
    <3>1. EncodedFile(k) = {EncodedPath(k)} \cap DOMAIN named
      BY <1>1, <2>1, EncodedOnDisk DEF EncodedFile
    <3>2. EncodedPath(k) \in DOMAIN named => Key(EncodedPath(k)) = k
      BY <1>1, <2>1, EncodedOnDisk
    <3> QED BY <3>1, <3>2
  <2>2. CASE ~Fits(k)
    BY <2>2 DEF EncodedFile
  <2> QED BY <2>1, <2>2
<1>4. \A p \in LaterEarlierFile(k) : p \in DOMAIN named /\ Key(p) = k /\ p # EncodedPath(k)
  BY <1>1, LaterFileIs
<1>5. CASE saved[k] = 0
  <2>1. (\A p \in DOMAIN named : Key(p) # k) /\ Saves(k) = {}
    BY <1>1, <1>5, SavesAre
  <2> QED BY <1>3, <1>4, <2>1
<1>6. CASE saved[k] # 0
  <2>1. PICK w \in DOMAIN named : Key(w) = k /\ named[w].at = saved[k]
    BY <1>1, <1>6, SavesAre
  <2>2. \A p \in DOMAIN named : Key(p) = k /\ p # w => named[p].at < named[w].at
    BY <1>1, <1>2, <2>1 DEF Times
  <2>3. Saves(k) = {named[w]}
    BY <1>1, <2>1, SavesAre
  <2>4. CASE w # EncodedPath(k)
    <3>1. w \in EarlierFile(k)
      <4>1. \A q \in DOMAIN named \ {EncodedPath(k)} : Key(q) = k => named[q].at <= named[w].at
        BY <1>2, <2>1
      <4> QED BY <1>1, <2>1, <2>4, <4>1, EarlierFileIs
    <3>2. \A q \in EncodedFile(k) : named[w].at > named[q].at
      BY <1>2, <1>3, <2>1, <2>2, <2>4
    <3>3. w \in LaterEarlierFile(k)
      BY <3>1, <3>2 DEF LaterEarlierFile
    <3>4. ASSUME NEW p \in LaterEarlierFile(k) PROVE p = w
      <4>1. p \in EarlierFile(k) /\ p \in DOMAIN named /\ Key(p) = k
        BY <1>4 DEF LaterEarlierFile
      <4>2. named[w].at <= named[p].at
        BY <1>1, <2>1, <2>4, <4>1, EarlierFileIs
      <4> QED BY <1>2, <2>1, <2>2, <4>1, <4>2
    <3>5. LaterEarlierFile(k) = {w}
      BY <3>3, <3>4
    <3> QED BY <2>3, <3>5
  <2>5. CASE w = EncodedPath(k)
    <3>1. Fits(k)
      <4>1. \A n \in 1..Len(w) : Fitting(named, w, n)
        BY <1>1 DEF InOrder
      <4>2. Len(w) = Len(k) /\ DOMAIN k = 1..Len(k)
        BY <1>1, <2>5, EncodedPathIs, PathShape
      <4>3. ASSUME NEW n \in 1..Len(k) PROVE k[n] \notin Long
        <5>1. w[n] = Encode[k[n]]
          BY <1>1, <2>5, EncodedPathIs
        <5>2. Fitting(named, w, n) /\ named[w].key = k
          BY <2>1, <4>1, <4>2 DEF Key
        <5>3. k[n] \in Long => Encode[k[n]] # k[n]
          BY NamesAre DEF Assumed
        <5> QED BY <5>1, <5>2, <5>3 DEF Fitting
      <4> QED BY <4>2, <4>3 DEF Fits
    <3>2. EncodedFile(k) = {w}
      BY <1>1, <2>5, <3>1, EncodedOnDisk DEF EncodedFile
    <3>3. LaterEarlierFile(k) = {}
      <4>1. ASSUME NEW p \in LaterEarlierFile(k) PROVE FALSE
        <5>1. named[w].at < named[p].at
          BY <1>1, <2>5, <3>1, LaterFileIs
        <5>2. named[p].at < named[w].at
          BY <1>4, <2>2, <2>5
        <5>3. named[p].at \in Nat /\ named[w].at \in Nat
          BY <1>2, <1>4
        <5> QED BY <5>1, <5>2, <5>3
      <4> QED BY <4>1
    <3> QED BY <2>3, <3>2, <3>3
  <2> QED BY <2>4, <2>5
<1> QED BY <1>5, <1>6

\* In a directory without the record.
LEMMA PlainReads ==
    ASSUME Assumed, NamesInv, stage = "settled", naming \in {"plain", "earlier"}, NEW k \in title
    PROVE  {named[p] : p \in Located(k)} = Saves(k)
<1>1. /\ NamesTypeOK /\ PlanOK /\ ControlOK /\ Spelt /\ Times /\ Kept /\ title \in Titles
  BY DEF NamesInv, TreeOK, NamesTypeOK
<1>2. \A p \in DOMAIN named : p = Key(p)
  BY <1>1, StillOwn DEF ControlOK
<1>3. Located(k) = {k} \cap DOMAIN named
  <2>1. CASE naming = "earlier"
    BY <2>1 DEF Located
  <2>2. CASE naming = "plain"
    <3>1. Located(k) = PlainFile(k)
      BY <2>2 DEF Located
    <3>2. CASE Fits(k) /\ Exists(EncodedPath(k))
      <4>1. InOrder(named)
        BY <2>2, NamedInOrder
      <4>2. /\ OnDisk(EncodedPath(k)) = {EncodedPath(k)} \cap DOMAIN named
            /\ EncodedPath(k) \in DOMAIN named => Key(EncodedPath(k)) = k
        BY <1>1, <3>2, <4>1, EncodedOnDisk
      <4>3. EncodedPath(k) = k
        BY <1>2, <3>2, <4>2 DEF Exists
      <4> QED BY <3>1, <3>2, <4>2, <4>3 DEF PlainFile
    <3>3. CASE ~(Fits(k) /\ Exists(EncodedPath(k)))
      BY <3>1, <3>3 DEF PlainFile
    <3> QED BY <3>2, <3>3
  <2> QED BY <2>1, <2>2
<1>4. CASE k \in DOMAIN named
  <2>1. saved[k] # 0
    BY <1>1, <1>2, <1>4, SavesAre
  <2>2. PICK w \in DOMAIN named : Key(w) = k /\ named[w].at = saved[k]
    BY <1>1, <2>1, SavesAre
  <2>3. Saves(k) = {named[w]} /\ w = k
    BY <1>1, <1>2, <2>2, SavesAre
  <2> QED BY <1>3, <1>4, <2>3
<1>5. CASE k \notin DOMAIN named
  <2>1. saved[k] = 0
    BY <1>1, <1>2, <1>5, SavesAre
  <2>2. Saves(k) = {}
    BY <1>1, <2>1, SavesAre
  <2> QED BY <1>3, <1>5, <2>2
<1> QED BY <1>4, <1>5

\* The invariant implies that a read answers the last save.
LEMMA ReadsAnswer ==
    ASSUME Assumed, NamesInv
    PROVE  ReadsAnswerTheSave
<1>1. ASSUME stage = "settled", NEW k \in title
      PROVE  IF naming = "converting"
             THEN saved[k] # 0 /\ (record.state = "placing" => ~PutBack(k)) =>
                     {named[p] : p \in Located(k)} = Saves(k)
             ELSE {named[p] : p \in Located(k)} = Saves(k)
  <2>1. ControlOK
    BY DEF NamesInv
  <2>2. CASE naming = "converting"
    <3>1. Located(k) = ConvertingFile(k) /\ record.state \in {"moving", "placing"}
      BY <1>1, <2>1, <2>2 DEF Located, ControlOK
    <3> QED BY <2>2, <3>1, ConvertingReads
  <2>3. CASE naming = "encoded"
    <3>1. record.state = "encoded"
      BY <1>1, <2>1, <2>3 DEF ControlOK
    <3>2. Located(k) = IF LaterEarlierFile(k) # {} THEN LaterEarlierFile(k) ELSE EncodedFile(k)
      BY <2>3 DEF Located
    <3> QED BY <2>3, <3>1, <3>2, EncodedReads
  <2>4. CASE naming \in {"plain", "earlier"}
    BY <1>1, <2>4, PlainReads
  <2> QED BY <1>1, <2>1, <2>2, <2>3, <2>4 DEF ControlOK
<1> QED BY <1>1 DEF ReadsAnswerTheSave

\* Whatever the conversion, its failures, a stop and the writes of an earlier
\* build between them did to the names, the file a read takes for a key is the
\* last save written under it (locateSave in save_names.go).
THEOREM SavesAreRead ==
    ASSUME NamesAssumption, DirectoriesAssumption
    PROVE  NamesSpec => []ReadsAnswerTheSave
<1>1. NamesInv => ReadsAnswerTheSave
  BY ReadsAnswer DEF Assumed
<1> QED BY <1>1, NamesInvAlways, PTL

\* A listing of the directory names every key that has a save, and nothing else,
\* by whichever names its files have (saveEntryKey and saveEntryChoice).
THEOREM SavesAreListed ==
    ASSUME NamesAssumption, DirectoriesAssumption
    PROVE  NamesSpec => []ListingIsComplete
<1>1. NamesInv => ListingIsComplete
  BY ListingComplete DEF Assumed
<1> QED BY <1>1, NamesInvAlways, PTL

\* The last save under a key is below the directory at every step, between two
\* renames of a conversion or of an undo as well.
THEOREM SavesAreKept ==
    ASSUME NamesAssumption, DirectoriesAssumption
    PROVE  NamesSpec => []NoSaveIsLost
<1>1. NamesInv => NoSaveIsLost
  BY NothingLost DEF Assumed
<1> QED BY <1>1, NamesInvAlways, PTL

\* No conversion that came to its end leaves a file under a temporary name, where
\* neither build would look for it (convertSaveNames, undoSaveNames).
THEOREM NamesBecomeEncoded ==
    ASSUME NamesAssumption, DirectoriesAssumption
    PROVE  NamesSpec => []NoNameStaysTemporary
<1>1. NamesInv => NoNameStaysTemporary
  BY NothingTemporary DEF Assumed
<1> QED BY <1>1, NamesInvAlways, PTL

=============================================================================

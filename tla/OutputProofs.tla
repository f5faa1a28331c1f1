----------------------------- MODULE OutputProofs -----------------------------
(***************************************************************************)
(* For any pictures, sounds, queues and people: the page's canvas shows a    *)
(* picture of the timeline the page was told of, drawn over the picture it   *)
(* was made from, a game's first picture reaches it, the page and the loop    *)
(* agree on what the numbers of the sounds mean, and when everything has     *)
(* arrived the page sounds what the game sounds.                             *)
(*                                                                          *)
(* At most four pictures are on their way, one at each place: the end of the *)
(* writer's batch or the writer's hand, the queue before it, the encoder,    *)
(* the queue before that. Each is a whole one or made from the one before    *)
(* it, as far as both are of the running timeline; the others are left out   *)
(* when the writer comes to them. And the texts tell the page of a timeline  *)
(* before the first picture of it, in the order of the timelines.            *)
(*                                                                          *)
(* A number is given to one sound in a timeline and never again; and when    *)
(* the page has taken every text on its way it has a definition for each     *)
(* number in use, each text finding those it refers to.                      *)
(*                                                                          *)
(* The page was not told of the timeline yet, waits for a reset or hears     *)
(* some sounds. From what it does now the texts on their way lead to what it  *)
(* may be doing when it has taken them; and of those, what hears anything      *)
(* hears the game, unless a reset is due.                                  *)
(***************************************************************************)
EXTENDS OutputPipeline, SequenceTheorems, FiniteSetTheorems, WellFoundedInduction, TLAPS

-----------------------------------------------------------------------------
(***************************************************************************)
(* Sequences whose members are of no known set.                            *)
(***************************************************************************)
IsSeq(s) == \E S : s \in Seq(S)

\* The length and the indices of a sequence.
LEMMA SeqIndices ==
    ASSUME NEW s, IsSeq(s)
    PROVE  /\ Len(s) \in Nat /\ DOMAIN s = 1..Len(s)
           /\ s = <<>> <=> Len(s) = 0
BY LenProperties, EmptySeq DEF IsSeq

LEMMA EmptyIsSeq == IsSeq(<<>>) /\ Len(<<>>) = 0 /\ DOMAIN <<>> = {}
BY EmptySeq DEF IsSeq

LEMMA OneIsSeq ==
    ASSUME NEW x
    PROVE  IsSeq(<<x>>) /\ Len(<<x>>) = 1 /\ <<x>>[1] = x /\ DOMAIN <<x>> = 1..1 /\ <<x>> # <<>>
<1>1. <<x>> \in Seq({x})
  OBVIOUS
<1>2. IsSeq(<<x>>)
  BY <1>1 DEF IsSeq
<1>3. Len(<<x>>) = 1 /\ <<x>>[1] = x /\ DOMAIN <<x>> = 1..1 /\ <<x>> # <<>>
  OBVIOUS
<1> QED BY <1>2, <1>3

\* A message more.
LEMMA SeqAppended ==
    ASSUME NEW s, IsSeq(s), NEW m
    PROVE  /\ IsSeq(Append(s, m)) /\ Len(Append(s, m)) = Len(s) + 1
           /\ Append(s, m) # <<>>
           /\ \A i \in 1..Len(s) : Append(s, m)[i] = s[i]
           /\ Append(s, m)[Len(s) + 1] = m
<1>1. PICK S : s \in Seq(S)
  BY DEF IsSeq
<1>2. s \in Seq(S \cup {m}) /\ m \in S \cup {m}
  BY <1>1, SeqMonotonic
<1> QED BY <1>2, AppendProperties DEF IsSeq

\* Two sequences one after the other.
LEMMA SeqJoined ==
    ASSUME NEW s, IsSeq(s), NEW t, IsSeq(t)
    PROVE  /\ IsSeq(s \o t) /\ Len(s \o t) = Len(s) + Len(t)
           /\ \A i \in 1..(Len(s) + Len(t)) :
                (s \o t)[i] = IF i <= Len(s) THEN s[i] ELSE t[i - Len(s)]
           /\ s \o <<>> = s /\ <<>> \o s = s
<1>1. PICK S, T : s \in Seq(S) /\ t \in Seq(T)
  BY DEF IsSeq
<1>2. s \in Seq(S \cup T) /\ t \in Seq(S \cup T)
  BY <1>1, SeqMonotonic
<1> QED BY <1>2, ConcatProperties, ConcatEmptySeq DEF IsSeq

\* Appending to the second of two is appending to both.
LEMMA SeqJoinedAppended ==
    ASSUME NEW s, IsSeq(s), NEW t, IsSeq(t), NEW m
    PROVE  s \o Append(t, m) = Append(s \o t, m)
<1>1. PICK S, T : s \in Seq(S) /\ t \in Seq(T)
  BY DEF IsSeq
<1> DEFINE U == S \cup T \cup {m}
<1>2. s \in Seq(U) /\ t \in Seq(U) /\ m \in U
  BY <1>1, SeqMonotonic
<1> HIDE DEF U
<1>3. Append(t, m) = t \o <<m>> /\ Append(s \o t, m) = (s \o t) \o <<m>> /\ <<m>> \in Seq(U)
  BY <1>2, AppendIsConcat, ConcatProperties
<1> QED BY <1>2, <1>3, ConcatAssociative

\* All but the first.
LEMMA SeqTail ==
    ASSUME NEW s, IsSeq(s), s # <<>>
    PROVE  /\ IsSeq(Tail(s)) /\ Len(Tail(s)) = Len(s) - 1 /\ Head(s) = s[1]
           /\ \A i \in 1..(Len(s) - 1) : Tail(s)[i] = s[i + 1]
BY HeadTailProperties DEF IsSeq

\* The first of two joined goes with the first of them.
LEMMA SeqJoinedTail ==
    ASSUME NEW s, IsSeq(s), s # <<>>, NEW t, IsSeq(t)
    PROVE  Tail(s \o t) = Tail(s) \o t
<1>1. PICK S, T : s \in Seq(S) /\ t \in Seq(T)
  BY DEF IsSeq
<1> DEFINE U == S \cup T
           r == Tail(s)
<1>2. s \in Seq(U) /\ t \in Seq(U)
  BY <1>1, SeqMonotonic
<1> HIDE DEF U
<1>3. /\ r \in Seq(U) /\ Len(r) = Len(s) - 1 /\ Len(s) \in Nat \ {0} /\ Len(t) \in Nat
      /\ \A i \in 1..Len(r) : r[i] = s[i + 1]
  BY <1>2, HeadTailProperties, EmptySeq, LenProperties
<1> HIDE DEF r
<1> DEFINE u == s \o t
           v == r \o t
<1>4. /\ u \in Seq(U) /\ Len(u) = Len(s) + Len(t)
      /\ \A i \in 1..(Len(s) + Len(t)) : u[i] = IF i <= Len(s) THEN s[i] ELSE t[i - Len(s)]
  BY <1>2, ConcatProperties
<1>5. /\ v \in Seq(U) /\ Len(v) = Len(r) + Len(t)
      /\ \A i \in 1..(Len(r) + Len(t)) : v[i] = IF i <= Len(r) THEN r[i] ELSE t[i - Len(r)]
  BY <1>2, <1>3, ConcatProperties
<1> HIDE DEF u, v
<1>6. u # <<>>
  BY <1>3, <1>4
<1>7. /\ Tail(u) \in Seq(U) /\ Len(Tail(u)) = Len(u) - 1
      /\ \A i \in 1..(Len(u) - 1) : Tail(u)[i] = u[i + 1]
  BY <1>4, <1>6, HeadTailProperties
<1>8. ASSUME NEW i \in 1..Len(v) PROVE Tail(u)[i] = v[i]
  <2>1. Tail(u)[i] = u[i + 1] /\ i + 1 \in 1..(Len(s) + Len(t))
    BY <1>3, <1>4, <1>5, <1>7
  <2>2. CASE i <= Len(r)
    BY <2>1, <2>2, <1>3, <1>4, <1>5
  <2>3. CASE ~(i <= Len(r))
    <3>1. ~(i + 1 <= Len(s)) /\ (i + 1) - Len(s) = i - Len(r)
      BY <2>3, <1>3
    <3> QED BY <2>1, <2>3, <3>1, <1>3, <1>4, <1>5
  <2> QED BY <2>2, <2>3
<1>9. Len(Tail(u)) = Len(v)
  BY <1>3, <1>4, <1>5, <1>7
<1>10. Tail(u) = v
  BY <1>5, <1>7, <1>8, <1>9, SeqEqual
<1> QED BY <1>10 DEF u, v, r

-----------------------------------------------------------------------------
(***************************************************************************)
(* Induction over the numbers, stated of a set, and with it what the writer  *)
(* leaves of a batch.                                                      *)
(***************************************************************************)
Less == {p \in Nat \X Nat : p[1] < p[2]}

LEMMA LessWF == IsWellFoundedOn(Less, Nat)
<1>1. Less = OpToRel(<, Nat)
  BY Zenon DEF Less, OpToRel
<1> QED BY <1>1, NatLessThanWellFounded, Zenon

LEMMA SetInduction ==
    ASSUME NEW P, 0 \in P, \A n \in Nat : n \in P => n + 1 \in P
    PROVE  Nat \subseteq P
<1> DEFINE T == Nat \ P
<1>1. SUFFICES ASSUME T # {} PROVE FALSE
  OBVIOUS
<1>2. PICK n \in T : \A m \in T : ~(<<m, n>> \in Less)
  BY <1>1, LessWF, WFMin, Zenon
<1>3. n - 1 \in Nat /\ (n - 1) + 1 = n
  OBVIOUS
<1>4. n - 1 \in T
  BY <1>3
<1>5. <<n - 1, n>> \in Less
  BY <1>3 DEF Less
<1> QED BY <1>2, <1>4, <1>5

\* t is what is left of the first n of b, in the order they had: h says which.
Leaves(t, b, n, h) ==
    /\ IsSeq(t)
    /\ h \in [1..Len(t) -> 1..n]
    /\ \A i \in 1..Len(t) : t[i] = b[h[i]] /\ Current(b[h[i]])
    /\ \A i, j \in 1..Len(t) : i < j => h[i] < h[j]
    /\ \A k \in 1..n : Current(b[k]) => \E i \in 1..Len(t) : h[i] = k

\* One message more, left out or not.
LEMMA LeavesOut ==
    ASSUME NEW b, NEW t, NEW n \in Nat, NEW h, Leaves(t, b, n, h), ~Current(b[n + 1])
    PROVE  Leaves(t, b, n + 1, h)
<1>1. Len(t) \in Nat
  BY SeqIndices DEF Leaves
<1> QED BY <1>1 DEF Leaves

LEMMA LeavesIn ==
    ASSUME NEW b, NEW t, NEW n \in Nat, NEW h, Leaves(t, b, n, h), Current(b[n + 1])
    PROVE  \E g : Leaves(Append(t, b[n + 1]), b, n + 1, g)
<1> DEFINE m == b[n + 1]
           u == Append(t, m)
           g == [i \in 1..Len(u) |-> IF i = Len(u) THEN n + 1 ELSE h[i]]
<1>1. Len(t) \in Nat /\ IsSeq(t)
  BY SeqIndices DEF Leaves
<1>2. /\ IsSeq(u) /\ Len(u) = Len(t) + 1
      /\ \A i \in 1..Len(t) : u[i] = t[i]
      /\ u[Len(t) + 1] = m
  BY <1>1, SeqAppended
<1>3. /\ \A i \in 1..Len(t) : h[i] \in 1..n
      /\ \A i \in 1..Len(t) : t[i] = b[h[i]] /\ Current(b[h[i]])
      /\ \A i, j \in 1..Len(t) : i < j => h[i] < h[j]
      /\ \A k \in 1..n : Current(b[k]) => \E i \in 1..Len(t) : h[i] = k
  BY DEF Leaves
<1> HIDE DEF u
<1>4. /\ g \in [1..Len(u) -> 1..(n + 1)]
      /\ \A i \in 1..Len(t) : g[i] = h[i]
      /\ g[Len(t) + 1] = n + 1
  BY <1>1, <1>2, <1>3
<1> HIDE DEF g
<1>5. \A i \in 1..Len(u) : u[i] = b[g[i]] /\ Current(b[g[i]])
  BY <1>1, <1>2, <1>3, <1>4
<1>6. \A i, j \in 1..Len(u) : i < j => g[i] < g[j]
  <2> SUFFICES ASSUME NEW i \in 1..Len(u), NEW j \in 1..Len(u), i < j
               PROVE  g[i] < g[j]
    OBVIOUS
  <2>1. i \in 1..Len(t) /\ g[i] = h[i] /\ h[i] \in 1..n
    BY <1>1, <1>2, <1>3, <1>4
  <2>2. CASE j = Len(t) + 1
    BY <2>1, <2>2, <1>4
  <2>3. CASE j \in 1..Len(t)
    BY <2>1, <2>3, <1>3, <1>4
  <2> QED BY <2>2, <2>3, <1>1, <1>2
<1>7. \A k \in 1..(n + 1) : Current(b[k]) => \E i \in 1..Len(u) : g[i] = k
  <2> TAKE k \in 1..(n + 1)
  <2> HAVE Current(b[k])
  <2>1. CASE k = n + 1
    BY <2>1, <1>1, <1>2, <1>4
  <2>2. CASE k \in 1..n
    BY <2>2, <1>1, <1>2, <1>3, <1>4
  <2> QED BY <2>1, <2>2
<1>8. Leaves(u, b, n + 1, g)
  BY <1>2, <1>4, <1>5, <1>6, <1>7 DEF Leaves
<1> QED BY <1>8 DEF u

Writing(f, b) ==
    /\ WrittenOf(b) = f[Len(b)]
    /\ f[0] = <<>>
    /\ \A n \in 0..(Len(b) - 1) : f[n + 1] = IF Current(b[n + 1]) THEN Append(f[n], b[n + 1]) ELSE f[n]

\* A batch is gone through a message at a time.
LEMMA WrittenSteps ==
    ASSUME NEW b, IsSeq(b)
    PROVE  \E f : Writing(f, b)
<1> DEFINE Step(f, n) == IF n = 0 THEN <<>>
                        ELSE IF Current(b[n]) THEN Append(f[n - 1], b[n]) ELSE f[n - 1]
           Built(f, n) == f = [k \in 0..n |-> Step(f, k)]
<1>1. Len(b) \in Nat
  BY SeqIndices
<1>2. \E f : Built(f, Len(b))
  <2> DEFINE P == {n \in Nat : \E f : Built(f, n)}
  <2>1. 0 \in P
    <3> DEFINE f == [k \in 0..0 |-> <<>>]
    <3>1. Built(f, 0)
      OBVIOUS
    <3> QED BY <3>1
  <2>2. ASSUME NEW n \in Nat, n \in P PROVE n + 1 \in P
    <3>1. PICK f : Built(f, n)
      BY <2>2
    <3> DEFINE g == [k \in 0..(n + 1) |-> Step(f, k)]
    <3>2. \A k \in 0..n : f[k] = Step(f, k)
      <4> HIDE DEF Step
      <4> QED BY <3>1
    <3>3. \A k \in 0..n : g[k] = Step(f, k)
      <4> HIDE DEF Step
      <4> QED OBVIOUS
    <3>4. \A k \in 0..(n + 1) : Step(g, k) = Step(f, k)
      <4> TAKE k \in 0..(n + 1)
      <4>1. CASE k = 0
        BY <4>1
      <4>2. CASE k - 1 \in 0..n
        <5>1. g[k - 1] = f[k - 1]
          BY <3>2, <3>3, <4>2
        <5> HIDE DEF g
        <5> QED BY <4>2, <5>1
      <4> QED BY <4>1, <4>2
    <3>5. Built(g, n + 1)
      <4> HIDE DEF Step
      <4> QED BY <3>4
    <3>6. n + 1 \in Nat /\ \E e : Built(e, n + 1)
      <4> HIDE DEF g, Built
      <4> QED BY <3>5
    <3> HIDE DEF Built
    <3> QED BY <3>6
  <2> HIDE DEF P
  <2>3. Nat \subseteq P
    BY <2>1, <2>2, SetInduction
  <2> QED BY <1>1, <2>3 DEF P
<1> DEFINE written == CHOOSE f : Built(f, Len(b))
<1>3. WrittenOf(b) = written[Len(b)]
  BY Zenon DEF WrittenOf
<1>4. Built(written, Len(b))
  BY <1>2, Zenon
<1> HIDE DEF written
<1>5. \A k \in 0..Len(b) : written[k] = Step(written, k)
  <2> HIDE DEF Step
  <2> QED BY <1>4
<1>6. written[0] = <<>>
  BY <1>1, <1>5
<1>7. ASSUME NEW n \in 0..(Len(b) - 1)
      PROVE  written[n + 1] = IF Current(b[n + 1]) THEN Append(written[n], b[n + 1]) ELSE written[n]
  <2>1. n + 1 \in 0..Len(b) /\ n + 1 # 0 /\ (n + 1) - 1 = n
    BY <1>1
  <2> QED BY <1>5, <2>1
<1>8. Writing(written, b)
  BY <1>3, <1>6, <1>7 DEF Writing
<1> QED BY <1>8

\* What is written of a batch is its current messages, in their order.
LEMMA WrittenLeaves ==
    ASSUME NEW b, IsSeq(b)
    PROVE  \E h : Leaves(WrittenOf(b), b, Len(b), h)
<1>1. Len(b) \in Nat
  BY SeqIndices
<1>2. PICK written : Writing(written, b)
  BY WrittenSteps
<1>3. WrittenOf(b) = written[Len(b)]
  BY <1>2 DEF Writing
<1>4. /\ written[0] = <<>>
      /\ \A n \in 0..(Len(b) - 1) :
            written[n + 1] = IF Current(b[n + 1]) THEN Append(written[n], b[n + 1]) ELSE written[n]
  BY <1>2 DEF Writing
<1> DEFINE Q == {n \in Nat : n <= Len(b) => \E h : Leaves(written[n], b, n, h)}
<1>5. 0 \in Q
  <2>1. IsSeq(written[0]) /\ Len(written[0]) = 0 /\ 1..0 = {}
    BY <1>4, EmptyIsSeq
  <2> DEFINE h == [i \in {} |-> 0]
  <2>2. Leaves(written[0], b, 0, h)
    BY <2>1 DEF Leaves
  <2> QED BY <2>2
<1>6. ASSUME NEW n \in Nat, n \in Q PROVE n + 1 \in Q
  <2>1. SUFFICES ASSUME n + 1 <= Len(b) PROVE \E h : Leaves(written[n + 1], b, n + 1, h)
    OBVIOUS
  <2>2. PICK h : Leaves(written[n], b, n, h)
    BY <1>1, <1>6, <2>1
  <2>3. n \in 0..(Len(b) - 1)
    BY <1>1, <2>1
  <2>4. CASE Current(b[n + 1])
    BY <1>4, <2>2, <2>3, <2>4, LeavesIn
  <2>5. CASE ~Current(b[n + 1])
    BY <1>4, <2>2, <2>3, <2>5, LeavesOut
  <2> QED BY <2>4, <2>5
<1> HIDE DEF Q
<1>7. Nat \subseteq Q
  BY <1>5, <1>6, SetInduction
<1> QED BY <1>1, <1>3, <1>7 DEF Q

-----------------------------------------------------------------------------
(***************************************************************************)
(* What there is at each place.                                            *)
(***************************************************************************)
Places == {"run", "sound", "rebuild", "allOff", "result", "starting", "pushing",
           "restored", "resuming", "pushLoaded"}
TextKinds == {"audio", "result", "error", "restored", "started"}

Drawing == [shows : Screens \cup {None}, line : Nat]
Frame == [shows : Screens, line : Nat, force : BOOLEAN, epoch : Nat]
Picture == [kind : {"picture"}, epoch : Nat, shows : Screens, line : Nat, base : Drawing]
Drawn(m) == [shows |-> m.shows, line |-> m.line]

OneOf(S) == {<<x>> : x \in S}

GameShape ==
    /\ epoch \in Nat
    /\ game \in [on : BOOLEAN, shows : Screens \cup {None}, flushed : BOOLEAN,
                 sounding : SUBSET Sounds, epoch : {epoch}, line : {epoch}]
\* Where the loop is in a start, a stop and a load.
LoopRecord(l) ==
    /\ l = [pc |-> l.pc, then |-> l.then, force |-> l.force, needsReset |-> l.needsReset,
            audio |-> l.audio, defs |-> l.defs]
    /\ l.force \in BOOLEAN
LoopShape ==
    /\ LoopRecord(loop)
    /\ loop.pc \in Places
    /\ loop.pc \in {"allOff", "result", "starting"} => ~game.on
    /\ loop.pc = "allOff" => loop.then \in {"starting", "result"}
    /\ loop.pc = "pushing" => loop.then \in {"run", "sound"} /\ loop.force
    /\ loop.pc \in {"restored", "resuming", "pushLoaded"} => game.on

\* A picture is of one timeline.
Timely(m) == m.line = m.epoch /\ m.epoch <= epoch
FramesShape ==
    /\ frames \in {<<>>} \cup OneOf(Frame)
    /\ frames # <<>> => Timely(frames[1])
EncShape ==
    /\ enc = [pc |-> enc.pc, epoch |-> enc.epoch, base |-> enc.base, frame |-> enc.frame]
    /\ enc.epoch \in 0..epoch /\ enc.base \in Drawing
    /\ \/ enc.pc = "idle" /\ enc.frame = <<>>
       \/ enc.pc = "held" /\ enc.frame \in OneOf(Frame)
       \/ enc.pc = "put" /\ enc.frame \in OneOf(Picture)
    /\ enc.frame # <<>> => Timely(enc.frame[1])
QueuedShape ==
    /\ outFrames \in {<<>>} \cup OneOf(Picture)
    /\ outFrames # <<>> => Timely(outFrames[1])

Texts(s) == IsSeq(s) /\ \A i \in 1..Len(s) : s[i].kind \in TextKinds /\ s[i].epoch \in 0..epoch
\* A picture is the last of a batch.
WriterShape ==
    /\ writer = [pc |-> writer.pc, batch |-> writer.batch, picture |-> writer.picture]
    /\ \/ writer.pc = "select" /\ writer.batch = <<>> /\ writer.picture = <<>>
       \/ writer.pc \in {"look", "write"} /\ writer.picture = <<>>
       \/ writer.pc = "append" /\ writer.picture \in OneOf(Picture)
       \/ writer.pc = "sending" /\ writer.batch # <<>> /\ writer.picture = <<>>
    /\ writer.picture # <<>> => Timely(writer.picture[1])
    /\ IsSeq(writer.batch)
    /\ \A i \in 1..Len(writer.batch) :
        /\ writer.batch[i].epoch \in 0..epoch
        /\ \/ writer.batch[i].kind \in TextKinds
           \/ /\ writer.batch[i] \in Picture /\ Timely(writer.batch[i])
              /\ i = Len(writer.batch) /\ writer.pc \in {"write", "sending"}
PageShape ==
    /\ page = [epoch |-> page.epoch, canvas |-> page.canvas, table |-> page.table,
               sounding |-> page.sounding, pending |-> page.pending, skipped |-> page.skipped]
    /\ page.epoch \in 0..epoch
    /\ \/ page.canvas = NoPicture
       \/ page.canvas \in Drawing /\ page.canvas.shows # None /\ page.canvas.line = page.epoch

Shape ==
    GameShape /\ LoopShape /\ FramesShape /\ EncShape /\ QueuedShape /\ Texts(outText) /\ WriterShape
    /\ PageShape

-----------------------------------------------------------------------------
(***************************************************************************)
(* The texts. Coming is what the page is given next; a picture the writer   *)
(* will leave out does not count.                                          *)
(***************************************************************************)
Coming == writer.batch \o outText

Restores(m, e) == m.kind = "restored" /\ m.epoch = e
Counts(m, pc, e) ==
    \/ m.kind \in {"restored", "started"}
    \/ m.kind = "picture" /\ (pc = "sending" \/ m.epoch = e)

\* A page that was told of p is told of each timeline before anything of it.
InOrder(s, pc, p, e) ==
    /\ \A i \in 1..Len(s) : Counts(s[i], pc, e) =>
        /\ p <= s[i].epoch
        /\ p = s[i].epoch \/ \E j \in 1..i : Restores(s[j], s[i].epoch)
    /\ \A i, j \in 1..Len(s) :
        i < j /\ Counts(s[i], pc, e) /\ Counts(s[j], pc, e) => s[i].epoch <= s[j].epoch
ToldOf(s, p, e) == p = e \/ \E i \in 1..Len(s) : Restores(s[i], e)
UnsaidIn(s, e) == \A i \in 1..Len(s) : ~Restores(s[i], e)

Told ==
    /\ InOrder(Coming, writer.pc, page.epoch, epoch)
    /\ loop.pc # "restored" => ToldOf(Coming, page.epoch, epoch)
    /\ loop.pc = "restored" => UnsaidIn(Coming, epoch)

\* Until the page is told of it there is no picture of a timeline.
Untold ==
    loop.pc = "restored" =>
        /\ enc.epoch # epoch /\ page.epoch # epoch
        /\ frames # <<>> => frames[1].epoch # epoch
        /\ enc.frame # <<>> => enc.frame[1].epoch # epoch
        /\ outFrames # <<>> => outFrames[1].epoch # epoch
        /\ writer.picture # <<>> => writer.picture[1].epoch # epoch
        /\ \A i \in 1..Len(writer.batch) : writer.batch[i].kind = "picture" => writer.batch[i].epoch # epoch

-----------------------------------------------------------------------------
(***************************************************************************)
(* The pictures.                                                           *)
(***************************************************************************)
BatchPicture == writer.batch[Len(writer.batch)]
EndsInPicture == writer.batch # <<>> /\ BatchPicture.kind = "picture"

\* The picture of a timeline the page has, and will have when the writer's
\* pictures are drawn, and the one in the queue before it.
OnCanvas(e) == IF page.epoch = e THEN page.canvas ELSE NoPicture
WithWriters(e) ==
    IF EndsInPicture /\ BatchPicture.epoch = e THEN Drawn(BatchPicture)
    ELSE IF writer.picture # <<>> /\ writer.picture[1].epoch = e THEN Drawn(writer.picture[1])
    ELSE OnCanvas(e)
WithQueued ==
    IF outFrames # <<>> /\ outFrames[1].epoch = epoch THEN Drawn(outFrames[1]) ELSE WithWriters(epoch)

WritersChain ==
    /\ EndsInPicture /\ Counts(BatchPicture, writer.pc, epoch) =>
        BatchPicture.base \in {NoPicture, OnCanvas(BatchPicture.epoch)}
    /\ writer.picture # <<>> /\ writer.picture[1].epoch = epoch =>
        writer.picture[1].base \in {NoPicture, OnCanvas(epoch)}
EncodersChain ==
    /\ outFrames # <<>> /\ outFrames[1].epoch = epoch => outFrames[1].base \in {NoPicture, WithWriters(epoch)}
    /\ enc.epoch = epoch => enc.base \in {NoPicture, WithQueued}
    /\ enc.pc = "put" => enc.frame[1].epoch = enc.epoch /\ enc.frame[1].base \in {NoPicture, enc.base}

Chain == WritersChain /\ EncodersChain

\* There is a picture of this timeline, on its way or on the page.
Seen ==
    \/ WithQueued # NoPicture
    \/ enc.frame # <<>> /\ enc.frame[1].epoch = epoch
    \/ frames # <<>> /\ frames[1].epoch = epoch

Running == game.on /\ loop.pc \in {"run", "sound", "rebuild", "pushing"} /\ ~loop.force
FirstSeen == Running => game.shows # None /\ Seen

PicturesInv == Shape /\ Told /\ Untold /\ Chain /\ FirstSeen

-----------------------------------------------------------------------------
(***************************************************************************)
(* The order of the texts.                                                 *)
(***************************************************************************)
\* A message at the end that is of the last timeline.
LEMMA InOrderMore ==
    ASSUME NEW s, IsSeq(s), NEW pc, NEW p \in Nat, NEW e \in Nat, InOrder(s, pc, p, e), p <= e,
           \A i \in 1..Len(s) : s[i].epoch \in 0..e,
           NEW m, m.epoch = e,
           Counts(m, pc, e) => Restores(m, e) \/ ToldOf(s, p, e)
    PROVE  /\ InOrder(Append(s, m), pc, p, e)
           /\ ToldOf(s, p, e) \/ Restores(m, e) => ToldOf(Append(s, m), p, e)
           /\ UnsaidIn(s, e) /\ ~Restores(m, e) => UnsaidIn(Append(s, m), e)
<1> DEFINE t == Append(s, m)
<1>1. /\ Len(s) \in Nat /\ Len(t) = Len(s) + 1
      /\ \A i \in 1..Len(s) : t[i] = s[i]
      /\ t[Len(s) + 1] = m
  BY SeqIndices, SeqAppended
<1> HIDE DEF t
<1>2. ToldOf(s, p, e) \/ Restores(m, e) => ToldOf(t, p, e)
  BY <1>1 DEF ToldOf
<1>5. UnsaidIn(s, e) /\ ~Restores(m, e) => UnsaidIn(t, e)
  BY <1>1 DEF UnsaidIn
<1>3. ASSUME NEW i \in 1..Len(t), Counts(t[i], pc, e)
      PROVE  /\ p <= t[i].epoch
             /\ p = t[i].epoch \/ \E j \in 1..i : Restores(t[j], t[i].epoch)
  <2>1. CASE i \in 1..Len(s)
    BY <1>1, <1>3, <2>1 DEF InOrder
  <2>2. CASE i = Len(s) + 1
    BY <1>1, <1>3, <2>2 DEF ToldOf
  <2> QED BY <1>1, <2>1, <2>2
<1>4. ASSUME NEW i \in 1..Len(t), NEW j \in 1..Len(t), i < j, Counts(t[i], pc, e), Counts(t[j], pc, e)
      PROVE  t[i].epoch <= t[j].epoch
  <2>0. i \in 1..Len(s)
    BY <1>1, <1>4
  <2>1. CASE j \in 1..Len(s)
    BY <1>1, <1>4, <2>0, <2>1 DEF InOrder
  <2>2. CASE j = Len(s) + 1
    BY <1>1, <2>0, <2>2
  <2> QED BY <1>1, <2>1, <2>2
<1> QED BY <1>2, <1>3, <1>4, <1>5 DEF InOrder, t

\* What leaves out messages that do not count leaves the others in order.
Thins(t, pd, s, pc, e, h) ==
    /\ IsSeq(s) /\ IsSeq(t) /\ h \in [1..Len(t) -> 1..Len(s)]
    /\ \A i \in 1..Len(t) : t[i] = s[h[i]] /\ (Counts(t[i], pd, e) => Counts(t[i], pc, e))
    /\ \A i, j \in 1..Len(t) : i < j => h[i] < h[j]
    /\ \A k \in 1..Len(s) : s[k].kind = "restored" => \E i \in 1..Len(t) : h[i] = k

LEMMA InOrderLess ==
    ASSUME NEW s, NEW t, NEW pc, NEW pd, NEW p \in Nat, NEW e \in Nat, NEW h,
           InOrder(s, pc, p, e), Thins(t, pd, s, pc, e, h)
    PROVE  /\ InOrder(t, pd, p, e) /\ (ToldOf(s, p, e) => ToldOf(t, p, e))
           /\ UnsaidIn(s, e) => UnsaidIn(t, e)
<1>0. /\ IsSeq(s) /\ IsSeq(t) /\ h \in [1..Len(t) -> 1..Len(s)]
      /\ \A i \in 1..Len(t) : t[i] = s[h[i]] /\ (Counts(t[i], pd, e) => Counts(t[i], pc, e))
      /\ \A i, j \in 1..Len(t) : i < j => h[i] < h[j]
      /\ \A k \in 1..Len(s) : s[k].kind = "restored" => \E i \in 1..Len(t) : h[i] = k
  BY Zenon DEF Thins
<1>1. Len(s) \in Nat /\ Len(t) \in Nat
  BY <1>0, SeqIndices
<1>2. ASSUME NEW i \in 1..Len(t), Counts(t[i], pd, e)
      PROVE  /\ p <= t[i].epoch
             /\ p = t[i].epoch \/ \E j \in 1..i : Restores(t[j], t[i].epoch)
  <2>1. h[i] \in 1..Len(s) /\ s[h[i]] = t[i] /\ Counts(s[h[i]], pc, e)
    BY <1>0, <1>2
  <2>2. /\ p <= t[i].epoch
        /\ p = t[i].epoch \/ \E k \in 1..h[i] : Restores(s[k], t[i].epoch)
    BY <2>1 DEF InOrder
  <2>3. ASSUME NEW k \in 1..h[i], Restores(s[k], t[i].epoch)
        PROVE  \E j \in 1..i : Restores(t[j], t[i].epoch)
    <3>1. k \in 1..Len(s) /\ s[k].kind = "restored"
      BY <2>1, <2>3, <1>1 DEF Restores
    <3>2. PICK j \in 1..Len(t) : h[j] = k
      BY <3>1, <1>0
    <3>3. j <= i
      <4>1. SUFFICES ASSUME i < j PROVE FALSE
        BY <1>1
      <4> QED BY <4>1, <3>2, <2>1, <1>0, <1>1
    <3> QED BY <3>2, <3>3, <2>3, <1>0, <1>1
  <2> QED BY <2>2, <2>3
<1>3. ASSUME NEW i \in 1..Len(t), NEW j \in 1..Len(t), i < j, Counts(t[i], pd, e), Counts(t[j], pd, e)
      PROVE  t[i].epoch <= t[j].epoch
  <2>1. h[i] \in 1..Len(s) /\ h[j] \in 1..Len(s) /\ h[i] < h[j]
    BY <1>0, <1>3
  <2> QED BY <2>1, <1>3, <1>0 DEF InOrder
<1>4. ASSUME ToldOf(s, p, e) PROVE ToldOf(t, p, e)
  BY <1>0, <1>4 DEF ToldOf, Restores
<1>5. UnsaidIn(s, e) => UnsaidIn(t, e)
  BY <1>0 DEF UnsaidIn
<1> QED BY <1>2, <1>3, <1>4, <1>5 DEF InOrder

\* The page has taken the first message, and knows of its timeline.
LEMMA InOrderTail ==
    ASSUME NEW s, IsSeq(s), s # <<>>, NEW pc, NEW pd, NEW p \in Nat, NEW q \in Nat, NEW e \in Nat,
           InOrder(s, pc, p, e), \A i \in 1..Len(s) : s[i].epoch \in 0..e,
           q = IF s[1].kind = "restored" THEN s[1].epoch ELSE p,
           \A i \in 2..Len(s) : Counts(s[i], pd, e) => Counts(s[i], pc, e)
    PROVE  /\ InOrder(Tail(s), pd, q, e) /\ (p <= e /\ ToldOf(s, p, e) => ToldOf(Tail(s), q, e))
           /\ UnsaidIn(s, e) => UnsaidIn(Tail(s), e)
<1> DEFINE t == Tail(s)
<1>1. /\ Len(s) \in Nat \ {0} /\ Len(t) = Len(s) - 1
      /\ \A i \in 1..Len(t) : t[i] = s[i + 1] /\ i + 1 \in 2..Len(s)
  BY SeqIndices, SeqTail
<1> HIDE DEF t
<1>2. s[1].kind = "restored" => Counts(s[1], pc, e) /\ p <= s[1].epoch
  BY <1>1 DEF InOrder, Counts
<1>3. ASSUME NEW i \in 1..Len(t), Counts(t[i], pd, e)
      PROVE  /\ q <= t[i].epoch
             /\ q = t[i].epoch \/ \E j \in 1..i : Restores(t[j], t[i].epoch)
  <2>1. i + 1 \in 1..Len(s) /\ 1 \in 1..Len(s) /\ 1 < i + 1 /\ Counts(s[i + 1], pc, e) /\ t[i] = s[i + 1]
    BY <1>1, <1>3
  <2>2. /\ p <= t[i].epoch
        /\ p = t[i].epoch \/ \E k \in 1..(i + 1) : Restores(s[k], t[i].epoch)
    BY <2>1 DEF InOrder
  <2>3. s[1].kind = "restored" => s[1].epoch <= t[i].epoch
    BY <1>2, <2>1 DEF InOrder
  <2>4. s[1].epoch \in Nat /\ t[i].epoch \in Nat
    BY <2>1
  <2>5. q <= t[i].epoch
    BY <2>2, <2>3
  <2>6. CASE p = t[i].epoch
    BY <2>6, <2>3, <2>4, <1>2
  <2>7. ASSUME NEW k \in 1..(i + 1), Restores(s[k], t[i].epoch)
        PROVE  q = t[i].epoch \/ \E j \in 1..i : Restores(t[j], t[i].epoch)
    <3>1. CASE k = 1
      BY <2>7, <3>1 DEF Restores
    <3>2. CASE k # 1
      <4>1. k - 1 \in 1..i /\ k - 1 \in 1..Len(t) /\ (k - 1) + 1 = k
        BY <2>7, <3>2, <1>1
      <4>2. t[k - 1] = s[k]
        BY <4>1, <1>1
      <4> QED BY <4>1, <4>2, <2>7
    <3> QED BY <3>1, <3>2
  <2> QED BY <2>2, <2>5, <2>6, <2>7
<1>4. ASSUME NEW i \in 1..Len(t), NEW j \in 1..Len(t), i < j, Counts(t[i], pd, e), Counts(t[j], pd, e)
      PROVE  t[i].epoch <= t[j].epoch
  <2>1. i + 1 \in 1..Len(s) /\ j + 1 \in 1..Len(s) /\ i + 1 < j + 1
        /\ Counts(s[i + 1], pc, e) /\ Counts(s[j + 1], pc, e)
    BY SMTT(60), <1>1, <1>4
  <2> QED BY <2>1, <1>1 DEF InOrder
<1>5. ASSUME p <= e, ToldOf(s, p, e) PROVE ToldOf(t, q, e)
  <2>1. CASE p = e
    BY <2>1, <1>1, <1>2 DEF ToldOf
  <2>2. ASSUME NEW k \in 1..Len(s), Restores(s[k], e)
        PROVE  ToldOf(t, q, e)
    <3>1. CASE k = 1
      BY <2>2, <3>1 DEF Restores, ToldOf
    <3>2. CASE k # 1
      <4>1. k - 1 \in 1..Len(t) /\ (k - 1) + 1 = k
        BY <2>2, <3>2, <1>1
      <4>2. t[k - 1] = s[k]
        BY <4>1, <1>1
      <4> QED BY <4>1, <4>2, <2>2 DEF ToldOf
    <3> QED BY <3>1, <3>2
  <2> QED BY <1>5, <2>1, <2>2 DEF ToldOf
<1>6. UnsaidIn(s, e) => UnsaidIn(t, e)
  <2>1. SUFFICES ASSUME UnsaidIn(s, e), NEW i \in 1..Len(t) PROVE ~Restores(t[i], e)
    BY DEF UnsaidIn
  <2>2. i + 1 \in 1..Len(s) /\ t[i] = s[i + 1]
    BY <1>1
  <2> QED BY <2>1, <2>2 DEF UnsaidIn
<1> QED BY <1>3, <1>4, <1>5, <1>6 DEF InOrder, t

-----------------------------------------------------------------------------
(***************************************************************************)
(* The loop and the people: what they add to the queues.                   *)
(***************************************************************************)
\* All texts that come, and where they lie.
LEMMA ComingShape ==
    ASSUME Shape
    PROVE  /\ IsSeq(Coming) /\ Len(Coming) = Len(writer.batch) + Len(outText)
           /\ Len(writer.batch) \in Nat /\ Len(outText) \in Nat
           /\ \A i \in 1..Len(Coming) :
                /\ Coming[i] = IF i <= Len(writer.batch) THEN writer.batch[i]
                                                        ELSE outText[i - Len(writer.batch)]
                /\ Coming[i].epoch \in 0..epoch
<1>1. IsSeq(writer.batch) /\ IsSeq(outText)
  BY DEF Shape, WriterShape, Texts
<1>2. /\ IsSeq(Coming) /\ Len(Coming) = Len(writer.batch) + Len(outText)
      /\ Len(writer.batch) \in Nat /\ Len(outText) \in Nat
      /\ \A i \in 1..Len(Coming) :
            Coming[i] = IF i <= Len(writer.batch) THEN writer.batch[i]
                                                 ELSE outText[i - Len(writer.batch)]
  <2>1. Len(writer.batch) \in Nat /\ Len(outText) \in Nat
    BY <1>1, SeqIndices
  <2>2. /\ IsSeq(Coming) /\ Len(Coming) = Len(writer.batch) + Len(outText)
        /\ \A i \in 1..(Len(writer.batch) + Len(outText)) :
              Coming[i] = IF i <= Len(writer.batch) THEN writer.batch[i]
                                                   ELSE outText[i - Len(writer.batch)]
    BY <1>1, SeqJoined, Zenon DEF Coming
  <2> QED BY <2>1, <2>2
<1>3. ASSUME NEW i \in 1..Len(Coming) PROVE Coming[i].epoch \in 0..epoch
  <2>1. CASE i <= Len(writer.batch)
    <3>1. i \in 1..Len(writer.batch)
      BY <1>2, <2>1
    <3> QED BY <3>1, <1>2, <2>1 DEF Shape, WriterShape
  <2>2. CASE ~(i <= Len(writer.batch))
    <3>1. i - Len(writer.batch) \in 1..Len(outText)
      BY <1>2, <2>2
    <3> QED BY <3>1, <1>2, <2>2 DEF Shape, Texts
  <2> QED BY <2>1, <2>2
<1> QED BY <1>2, <1>3

Pushed ==
    /\ frames = <<>>
    /\ \E f \in Frame : frames' = <<f>> /\ f.epoch = epoch /\ f.line = epoch

\* A text of the running timeline, which is told of itself before anything else.
Sent ==
    \E m :
        /\ outText' = Append(outText, m) /\ m.epoch = epoch /\ m.kind \in TextKinds
        /\ m.kind = "started" => loop.pc # "restored"
        /\ m.kind = "restored" => loop'.pc # "restored"
        /\ loop'.pc = "restored" \/ loop.pc # "restored" \/ m.kind = "restored"

loopAlone == <<epoch, outFrames, enc, writer, page>>

\* What the loop and the environment may do to the pictures and the texts.
LEMMA LoopKeeps ==
    ASSUME PicturesInv, UNCHANGED loopAlone, GameShape', LoopShape', FirstSeen',
           frames' = frames \/ (Pushed /\ loop.pc # "restored"),
           \/ outText' = outText /\ (loop.pc = "restored" => loop'.pc = "restored")
           \/ Sent,
           loop'.pc = "restored" => loop.pc = "restored"
    PROVE  PicturesInv'
<1>1. /\ epoch' = epoch /\ outFrames' = outFrames /\ enc' = enc /\ writer' = writer /\ page' = page
      /\ Shape /\ epoch \in Nat
  BY DEF loopAlone, PicturesInv, Shape, GameShape
<1>2. Chain' /\ EncShape' /\ QueuedShape' /\ WriterShape' /\ PageShape'
  BY <1>1 DEF PicturesInv, Shape, Chain, EncShape, QueuedShape, WriterShape, PageShape, Timely,
     WritersChain, EncodersChain, EndsInPicture, BatchPicture, OnCanvas, WithQueued, WithWriters
<1>3. FramesShape'
  BY <1>1 DEF Shape, FramesShape, Pushed, OneOf, Timely
<1>4. Untold'
  BY <1>1 DEF PicturesInv, Untold
<1>5. Texts(outText)' /\ Told'
  <2>1. CASE outText' = outText /\ (loop.pc = "restored" => loop'.pc = "restored")
    BY <1>1, <2>1 DEF PicturesInv, Shape, Texts, Told, Coming
  <2>2. CASE Sent
    <3>1. PICK m : /\ outText' = Append(outText, m) /\ m.epoch = epoch /\ m.kind \in TextKinds
                   /\ m.kind = "started" => loop.pc # "restored"
                   /\ m.kind = "restored" => loop'.pc # "restored"
                   /\ loop'.pc = "restored" \/ loop.pc # "restored" \/ m.kind = "restored"
      BY <2>2, Zenon DEF Sent
    <3>2. IsSeq(outText) /\ IsSeq(writer.batch) /\ Len(outText) \in Nat
      BY <1>1, SeqIndices DEF Shape, Texts, WriterShape
    <3>3. Texts(outText)'
      <4>1. /\ IsSeq(outText') /\ Len(outText') = Len(outText) + 1
            /\ \A i \in 1..Len(outText) : outText'[i] = outText[i]
            /\ outText'[Len(outText) + 1] = m
        BY <3>1, <3>2, SeqAppended
      <4>2. ASSUME NEW i \in 1..Len(outText') PROVE outText'[i].kind \in TextKinds /\ outText'[i].epoch \in 0..epoch
        <5>1. CASE i \in 1..Len(outText)
          BY <5>1, <4>1, <1>1 DEF Shape, Texts
        <5>2. CASE i = Len(outText) + 1
          BY <5>2, <4>1, <3>1, <1>1
        <5> QED BY <4>1, <5>1, <5>2, <3>2
      <4> QED BY <4>1, <4>2, <1>1 DEF Texts
    <3>4. Coming' = Append(Coming, m)
      <4>1. writer.batch \o Append(outText, m) = Append(writer.batch \o outText, m)
        <5>1. \A s, t : IsSeq(s) /\ IsSeq(t) => s \o Append(t, m) = Append(s \o t, m)
          BY SeqJoinedAppended
        <5> QED BY <3>2, <5>1, Zenon
      <4> QED BY <1>1, <3>1, <4>1 DEF Coming
    <3>5. /\ IsSeq(Coming) /\ \A i \in 1..Len(Coming) : Coming[i].epoch \in 0..epoch
      BY <1>1, ComingShape
    <3>6. InOrder(Coming, writer.pc, page.epoch, epoch) /\ page.epoch \in Nat /\ page.epoch <= epoch
      BY <1>1 DEF PicturesInv, Told, Shape, PageShape
    <3>7. Counts(m, writer.pc, epoch) => Restores(m, epoch) \/ ToldOf(Coming, page.epoch, epoch)
      BY <3>1 DEF Counts, Restores, TextKinds, PicturesInv, Told
    <3>8. /\ InOrder(Append(Coming, m), writer.pc, page.epoch, epoch)
          /\ ToldOf(Coming, page.epoch, epoch) \/ Restores(m, epoch) => ToldOf(Append(Coming, m), page.epoch, epoch)
          /\ UnsaidIn(Coming, epoch) /\ ~Restores(m, epoch) => UnsaidIn(Append(Coming, m), epoch)
      BY <1>1, <3>1, <3>5, <3>6, <3>7, InOrderMore
    <3>9. Told'
      BY <1>1, <3>1, <3>4, <3>8 DEF Told, PicturesInv, Restores
    <3> QED BY <3>3, <3>9
  <2> QED BY <2>1, <2>2
<1> QED BY <1>2, <1>3, <1>4, <1>5 DEF PicturesInv, Shape

\* A picture of the running timeline does not get lost by what they do.
LEMMA SeenStays ==
    ASSUME PicturesInv, UNCHANGED loopAlone, frames' = frames \/ Pushed,
           Running' => \/ Pushed /\ game'.shows # None
                       \/ Running /\ (game.shows # None => game'.shows # None)
    PROVE  FirstSeen'
<1>1. WithQueued' = WithQueued
  BY DEF loopAlone, WithQueued, WithWriters, EndsInPicture, BatchPicture, OnCanvas
<1>2. CASE Pushed
  <2>1. frames' # <<>> /\ frames'[1].epoch = epoch'
    BY <1>2 DEF Pushed, loopAlone
  <2> QED BY <2>1, <1>2 DEF FirstSeen, Seen, PicturesInv
<1>3. CASE ~Pushed
  BY <1>1, <1>3 DEF FirstSeen, Seen, PicturesInv, loopAlone
<1> QED BY <1>2, <1>3

\* A place is taken, a push made, a sound sent: what becomes of the loop.
LEMMA AtDoes ==
    ASSUME LoopShape, NEW pc
    PROVE  LoopRecord(At(pc)) /\ At(pc).pc = pc /\ At(pc).force = loop.force /\ At(pc).then = loop.then
BY DEF LoopShape, LoopRecord, At

LEMMA MarkDoes ==
    ASSUME NEW r, LoopRecord(r), NEW x
    PROVE  /\ LoopRecord([r EXCEPT !.needsReset = x])
           /\ [r EXCEPT !.needsReset = x].pc = r.pc /\ [r EXCEPT !.needsReset = x].force = r.force
BY DEF LoopRecord

LEMMA ForceDoes ==
    ASSUME NEW r, LoopRecord(r), NEW f \in BOOLEAN
    PROVE  /\ LoopRecord([r EXCEPT !.force = f])
           /\ [r EXCEPT !.force = f].pc = r.pc /\ [r EXCEPT !.force = f].force = f
           /\ [r EXCEPT !.force = f].then = r.then
BY DEF LoopRecord

LEMMA PushDoes ==
    ASSUME Shape, NEW l, LoopRecord(l), Push(l)
    PROVE  /\ LoopRecord(loop') /\ loop'.pc = l.pc /\ loop'.then = l.then
           /\ \/ frames' = frames /\ ~Pushed /\ loop'.force = l.force
              \/ Pushed /\ game.shows # None /\ loop'.force = FALSE
<1>1. CASE game.shows # None /\ frames = <<>>
  <2> DEFINE f == [shows |-> game.shows, line |-> game.line, force |-> l.force, epoch |-> epoch]
  <2>1. f \in Frame /\ f.epoch = epoch /\ f.line = epoch
    BY <1>1 DEF Shape, GameShape, Frame, LoopRecord
  <2>2. frames' = <<f>> /\ loop' = [l EXCEPT !.force = FALSE]
    BY <1>1 DEF Push
  <2>3. LoopRecord(loop') /\ loop'.pc = l.pc /\ loop'.then = l.then /\ loop'.force = FALSE
    BY <2>2 DEF LoopRecord
  <2> HIDE DEF f
  <2> QED BY <1>1, <2>1, <2>2, <2>3 DEF Pushed
<1>2. CASE ~(game.shows # None /\ frames = <<>>)
  <2>1. frames' = frames /\ loop' = l
    BY <1>2 DEF Push
  <2>2. ~Pushed
    BY <2>1 DEF Pushed
  <2> QED BY <2>1, <2>2
<1> QED BY <1>1, <1>2

\* A text that tells the page nothing of timelines.
Spoken ==
    \E m :
        /\ outText' = Append(outText, m) /\ m.epoch = epoch
        /\ m.kind \in {"audio", "result", "error"}

LEMMA SendSoundDoes ==
    ASSUME NEW l, LoopRecord(l), NEW events, SendSound(l, events)
    PROVE  /\ LoopRecord(loop') /\ loop'.pc = l.pc /\ loop'.then = l.then /\ loop'.force = l.force
           /\ outText' = outText \/ Spoken
<1> DEFINE e == Encode(l.defs, events)
<1>1. \/ outText' = Append(outText, SoundOf(e.wire)) /\ loop' = [l EXCEPT !.defs = e.defs]
      \/ outText' = outText /\ loop' = [l EXCEPT !.defs = Dropped(e.defs), !.needsReset = TRUE]
  BY DEF SendSound
<1> HIDE DEF e
<1>2. SoundOf(e.wire).epoch = epoch /\ SoundOf(e.wire).kind = "audio"
  BY DEF SoundOf
<1>3. LoopRecord(loop') /\ loop'.pc = l.pc /\ loop'.then = l.then /\ loop'.force = l.force
  BY <1>1 DEF LoopRecord
<1> HIDE DEF LoopRecord
<1>4. outText' = outText \/ Spoken
  BY <1>1, <1>2 DEF Spoken
<1> QED BY <1>3, <1>4

LEMMA SendTextDoes ==
    ASSUME NEW kind, SendText(Said(kind))
    PROVE  /\ outText' = Append(outText, Said(kind)) /\ Said(kind).epoch = epoch /\ Said(kind).kind = kind
           /\ kind \in {"result", "error"} => Spoken
BY DEF SendText, Said, Spoken

\* The three ways a step that takes nothing from the queues may go.
LEMMA SpeaksKeeps ==
    ASSUME PicturesInv, UNCHANGED loopAlone, GameShape', LoopShape', frames' = frames,
           outText' = outText \/ Spoken,
           Running' => Running /\ (game.shows # None => game'.shows # None),
           loop'.pc = "restored" <=> loop.pc = "restored"
    PROVE  PicturesInv'
<1>1. FirstSeen'
  BY SeenStays
<1>2. ASSUME Spoken PROVE Sent
  <2>1. PICK m :
            /\ outText' = Append(outText, m) /\ m.epoch = epoch
            /\ m.kind \in {"audio", "result", "error"}
    BY <1>2, Zenon DEF Spoken
  <2> QED BY <2>1 DEF Sent, TextKinds
<1> QED BY <1>1, <1>2, LoopKeeps

LEMMA PushesKeeps ==
    ASSUME PicturesInv, UNCHANGED loopAlone, GameShape', LoopShape', outText' = outText,
           frames' = frames \/ (Pushed /\ game'.shows # None),
           ~Pushed /\ Running' => Running /\ (game.shows # None => game'.shows # None),
           loop.pc # "restored", loop'.pc # "restored"
    PROVE  PicturesInv'
<1>1. FirstSeen'
  <2>1. CASE Pushed
    <3>1. game'.shows # None
      BY <2>1 DEF Pushed
    <3> QED BY <2>1, <3>1, SeenStays
  <2>2. CASE ~Pushed
    BY <2>2, SeenStays
  <2> QED BY <2>1, <2>2
<1> QED BY <1>1, LoopKeeps

LEMMA TickEndsKeeps == PicturesInv /\ TickEnds => PicturesInv'
<1> SUFFICES ASSUME PicturesInv, TickEnds PROVE PicturesInv'
  OBVIOUS
<1> DEFINE l == At(IF SoundWaits THEN "sound" ELSE "run")
<1>1. /\ UNCHANGED loopAlone /\ outText' = outText /\ loop.pc = "run" /\ game.on
      /\ game' = [game EXCEPT !.flushed = FALSE] /\ Shape /\ LoopShape
  BY DEF TickEnds, loopAlone, PicturesInv, Shape
<1>2. LoopRecord(l) /\ l.pc \in {"sound", "run"} /\ l.force = loop.force /\ l.then = loop.then
  BY <1>1, AtDoes
<1>3. IF game.flushed \/ loop.force THEN Push(l) ELSE frames' = frames /\ loop' = l
  BY Zenon DEF TickEnds
<1> HIDE DEF l
<1>4. /\ LoopRecord(loop') /\ loop'.pc = l.pc
      /\ \/ frames' = frames /\ ~Pushed /\ loop'.force = l.force
         \/ Pushed /\ game.shows # None
  <2>1. CASE Push(l)
    BY <1>1, <1>2, <2>1, PushDoes
  <2>2. CASE frames' = frames /\ loop' = l
    BY SMTT(60), <1>2, <2>2 DEF Pushed
  <2> QED BY <1>3, <2>1, <2>2
<1>5. GameShape' /\ game'.on = game.on /\ game'.shows = game.shows
  BY <1>1 DEF loopAlone, Shape, GameShape
<1>6. LoopShape'
  BY <1>2, <1>4 DEF LoopShape, Places
<1>7. ~Pushed /\ Running' => Running
  BY <1>1, <1>2, <1>4 DEF Running
<1> QED BY <1>1, <1>2, <1>4, <1>5, <1>6, <1>7, PushesKeeps

LEMMA FlushesSoundKeeps == PicturesInv /\ FlushesSound => PicturesInv'
<1> SUFFICES ASSUME PicturesInv, FlushesSound PROVE PicturesInv'
  OBVIOUS
<1>1. /\ UNCHANGED loopAlone /\ frames' = frames /\ game' = game /\ loop.pc = "sound" /\ Shape /\ LoopShape
      /\ GameShape
      /\ (outText' = outText /\ loop' = At("run")) \/ SendSound(At("run"), collector.events)
  BY DEF FlushesSound, soundUnchanged, loopAlone, PicturesInv, Shape
<1>2. LoopRecord(At("run")) /\ At("run").pc = "run" /\ At("run").force = loop.force
  BY <1>1, AtDoes
<1>3. /\ LoopRecord(loop') /\ loop'.pc = "run" /\ loop'.force = loop.force
      /\ outText' = outText \/ Spoken
  BY <1>1, <1>2, SendSoundDoes
<1>4. GameShape' /\ LoopShape'
  <2>1. GameShape'
    BY <1>1 DEF GameShape, loopAlone
  <2>2. LoopShape'
    BY <1>1, <1>3 DEF LoopShape, Places
  <2> QED BY <2>1, <2>2
<1>5. Running' => Running
  BY <1>1, <1>3 DEF Running
<1> QED BY <1>1, <1>3, <1>4, <1>5, SpeaksKeeps

LEMMA WaitsToRebuildKeeps == PicturesInv /\ WaitsToRebuild => PicturesInv'
<1> SUFFICES ASSUME PicturesInv, WaitsToRebuild PROVE PicturesInv'
  OBVIOUS
<1>1. /\ UNCHANGED loopAlone /\ frames' = frames /\ game' = game /\ loop.pc = "sound" /\ Shape /\ LoopShape
      /\ GameShape /\ outText' = outText
  BY DEF WaitsToRebuild, soundUnchanged, loopAlone, PicturesInv, Shape
<1>2. LoopRecord(loop') /\ (loop'.pc = "rebuild" \/ loop'.pc = "run") /\ loop'.force = loop.force
  BY <1>1 DEF WaitsToRebuild, LoopShape, LoopRecord
<1>3. GameShape'
  BY <1>1 DEF GameShape, loopAlone
<1>4. LoopShape'
  BY <1>2 DEF LoopShape, Places
<1>5. Running' => Running
  BY <1>1, <1>2 DEF Running
<1> QED BY <1>1, <1>2, <1>3, <1>4, <1>5, SpeaksKeeps

LEMMA RebuildsSoundKeeps == PicturesInv /\ RebuildsSound => PicturesInv'
<1> SUFFICES ASSUME PicturesInv, RebuildsSound PROVE PicturesInv'
  OBVIOUS
<1> DEFINE l == [At("run") EXCEPT !.needsReset = FALSE]
<1>1. /\ UNCHANGED loopAlone /\ frames' = frames /\ game' = game /\ loop.pc = "rebuild" /\ Shape /\ LoopShape
      /\ GameShape /\ SendSound(l, <<AllOff>> \o Replay(game.sounding))
  BY DEF RebuildsSound, soundUnchanged, loopAlone, PicturesInv, Shape
<1>2. LoopRecord(l) /\ l.pc = "run" /\ l.force = loop.force
  <2>1. LoopRecord(At("run")) /\ At("run").pc = "run" /\ At("run").force = loop.force
    BY <1>1, AtDoes
  <2> QED BY <2>1, MarkDoes
<1> HIDE DEF l
<1>3. /\ LoopRecord(loop') /\ loop'.pc = "run" /\ loop'.force = loop.force
      /\ outText' = outText \/ Spoken
  BY <1>1, <1>2, SendSoundDoes
<1>4. GameShape' /\ LoopShape'
  <2>1. GameShape'
    BY <1>1 DEF GameShape, loopAlone
  <2>2. LoopShape'
    BY <1>1, <1>3 DEF LoopShape, Places
  <2> QED BY <2>1, <2>2
<1>5. Running' => Running
  BY <1>1, <1>3 DEF Running
<1> QED BY <1>1, <1>3, <1>4, <1>5, SpeaksKeeps

LEMMA RefusesKeeps == PicturesInv /\ (RefusesStale \/ RefusesQuickLoad) => PicturesInv'
<1> SUFFICES ASSUME PicturesInv, RefusesStale \/ RefusesQuickLoad PROVE PicturesInv'
  OBVIOUS
<1>1. /\ UNCHANGED loopAlone /\ frames' = frames /\ game' = game /\ loop' = loop /\ Shape /\ LoopShape
      /\ GameShape /\ (outText' = outText \/ SendText(Said("error")))
  BY DEF RefusesStale, RefusesQuickLoad, queuesUnchanged, loopAlone, PicturesInv, Shape
<1>2. outText' = outText \/ Spoken
  BY <1>1, SendTextDoes
<1>3. GameShape' /\ LoopShape' /\ (Running' => Running)
  BY <1>1 DEF GameShape, LoopShape, Running, loopAlone
<1> QED BY <1>1, <1>2, <1>3, SpeaksKeeps

LEMMA HandlesScaleKeeps == PicturesInv /\ HandlesScale => PicturesInv'
<1> SUFFICES ASSUME PicturesInv, HandlesScale PROVE PicturesInv'
  OBVIOUS
<1> DEFINE l == [loop EXCEPT !.force = TRUE]
<1>1. /\ UNCHANGED loopAlone /\ game' = game /\ outText' = outText /\ loop.pc = "run" /\ Shape /\ LoopShape
      /\ GameShape /\ (Push(l) \/ (frames' = frames /\ loop' = loop))
  BY DEF HandlesScale, TakesCommand, loopAlone, PicturesInv, Shape
<1>2. LoopRecord(l) /\ l.pc = "run" /\ l.force = TRUE
  BY <1>1, ForceDoes DEF LoopShape
<1> HIDE DEF l
<1>3. /\ LoopRecord(loop') /\ loop'.pc = "run"
      /\ \/ frames' = frames /\ ~Pushed /\ (loop'.force = TRUE \/ loop'.force = loop.force)
         \/ Pushed /\ game.shows # None
  <2>1. CASE Push(l)
    <3>1. /\ LoopRecord(loop') /\ loop'.pc = l.pc
          /\ \/ frames' = frames /\ ~Pushed /\ loop'.force = l.force
             \/ Pushed /\ game.shows # None
      BY <1>1, <1>2, <2>1, PushDoes
    <3> QED BY <3>1, <1>2
  <2>2. CASE frames' = frames /\ loop' = loop
    <3>1. ~Pushed
      BY SMTT(60), <2>2 DEF Pushed
    <3>2. LoopRecord(loop)
      BY <1>1 DEF LoopShape
    <3> QED BY <1>1, <2>2, <3>1, <3>2
  <2> QED BY <1>1, <2>1, <2>2
<1>4. GameShape' /\ LoopShape'
  <2>1. GameShape'
    BY <1>1 DEF GameShape, loopAlone
  <2>2. LoopShape'
    BY <1>1, <1>3 DEF LoopShape, Places
  <2> QED BY <2>1, <2>2
<1>5. ~Pushed /\ Running' => Running
  BY <1>1, <1>3 DEF Running
<1> QED BY <1>1, <1>3, <1>4, <1>5, PushesKeeps

LEMMA HandlesAudioResumeKeeps == PicturesInv /\ HandlesAudioResume => PicturesInv'
<1> SUFFICES ASSUME PicturesInv, HandlesAudioResume PROVE PicturesInv'
  OBVIOUS
<1>1. /\ UNCHANGED loopAlone /\ frames' = frames /\ game' = game /\ loop.pc = "run" /\ Shape /\ LoopShape
      /\ GameShape /\ outText' = outText
  BY DEF HandlesAudioResume, TakesCommand, queuesUnchanged, loopAlone, PicturesInv, Shape
<1>2. LoopRecord(loop') /\ loop'.pc = "run" /\ loop'.force = loop.force
  BY <1>1 DEF HandlesAudioResume, LoopShape, LoopRecord
<1>3. GameShape' /\ LoopShape'
  <2>1. GameShape'
    BY <1>1 DEF GameShape, loopAlone
  <2>2. LoopShape'
    BY <1>1, <1>2 DEF LoopShape, Places
  <2> QED BY <2>1, <2>2
<1>4. Running' => Running
  BY <1>1, <1>2 DEF Running
<1> QED BY <1>1, <1>2, <1>3, <1>4, SpeaksKeeps

\* The game is closed: nothing is expected of the pictures.
LEMMA ClosesKeeps == PicturesInv /\ (HandlesStart \/ HandlesStop \/ GameExits) => PicturesInv'
<1> SUFFICES ASSUME PicturesInv, HandlesStart \/ HandlesStop \/ GameExits PROVE PicturesInv'
  OBVIOUS
<1>1. /\ UNCHANGED loopAlone /\ frames' = frames /\ loop.pc = "run" /\ Shape /\ LoopShape
      /\ GameShape /\ outText' = outText
  BY DEF HandlesStart, HandlesStop, GameExits, TakesCommand, queuesUnchanged, loopAlone, PicturesInv, Shape
<1>2. GameShape' /\ ~game'.on
  BY <1>1 DEF HandlesStart, HandlesStop, GameExits, NoGame, GameShape, loopAlone
<1>3. /\ LoopRecord(loop') /\ loop'.pc \in {"allOff", "starting", "result"}
      /\ loop'.pc = "allOff" => loop'.then \in {"starting", "result"}
  <2>1. CASE HandlesStart
    BY <1>1, <2>1 DEF HandlesStart, Closed, LoopShape, LoopRecord
  <2>2. CASE HandlesStop
    BY <1>1, <2>2 DEF HandlesStop, Closed, At, LoopShape, LoopRecord
  <2>3. CASE GameExits
    BY <1>1, <2>3 DEF GameExits, Closed, LoopShape, LoopRecord
  <2> QED BY <2>1, <2>2, <2>3
<1>4. LoopShape'
  BY <1>2, <1>3 DEF LoopShape, Places
<1>5. ~Running'
  BY <1>2 DEF Running
<1> QED BY <1>1, <1>2, <1>3, <1>4, <1>5, SpeaksKeeps

LEMMA SilencesPageKeeps == PicturesInv /\ SilencesPage => PicturesInv'
<1> SUFFICES ASSUME PicturesInv, SilencesPage PROVE PicturesInv'
  OBVIOUS
<1>1. /\ UNCHANGED loopAlone /\ frames' = frames /\ game' = game /\ loop.pc = "allOff" /\ Shape /\ LoopShape
      /\ GameShape /\ SendSound(At(loop.then), <<AllOff>>)
  BY DEF SilencesPage, queuesUnchanged, loopAlone, PicturesInv, Shape
<1>2. /\ LoopRecord(At(loop.then)) /\ At(loop.then).pc = loop.then /\ loop.then \in {"starting", "result"}
      /\ ~game.on
  BY <1>1, AtDoes DEF LoopShape
<1>3. /\ LoopRecord(loop') /\ loop'.pc = loop.then
      /\ outText' = outText \/ Spoken
  BY <1>1, <1>2, SendSoundDoes
<1>4. GameShape' /\ LoopShape'
  <2>1. GameShape'
    BY <1>1 DEF GameShape, loopAlone
  <2>2. LoopShape'
    BY <1>1, <1>2, <1>3 DEF LoopShape, Places
  <2> QED BY <2>1, <2>2
<1>5. ~Running'
  BY <1>1, <1>2 DEF Running
<1> QED BY <1>1, <1>2, <1>3, <1>4, <1>5, SpeaksKeeps

LEMMA AnswersKeeps == PicturesInv /\ Answers => PicturesInv'
<1> SUFFICES ASSUME PicturesInv, Answers PROVE PicturesInv'
  OBVIOUS
<1>1. /\ UNCHANGED loopAlone /\ frames' = frames /\ game' = game /\ loop.pc = "result" /\ Shape /\ LoopShape
      /\ GameShape /\ SendText(Said("result")) /\ loop' = At("run")
  BY DEF Answers, queuesUnchanged, loopAlone, PicturesInv, Shape
<1>2. LoopRecord(loop') /\ loop'.pc = "run" /\ ~game.on /\ Spoken
  BY <1>1, AtDoes, SendTextDoes DEF LoopShape
<1>3. GameShape' /\ LoopShape'
  <2>1. GameShape'
    BY <1>1 DEF GameShape, loopAlone
  <2>2. LoopShape'
    BY <1>1, <1>2 DEF LoopShape, Places
  <2> QED BY <2>1, <2>2
<1>4. ~Running'
  BY <1>1, <1>2 DEF Running
<1> QED BY <1>1, <1>2, <1>3, <1>4, SpeaksKeeps

\* A start and a return force the first picture.
LEMMA StartedKeeps == PicturesInv /\ Started => PicturesInv'
<1> SUFFICES ASSUME PicturesInv, Started PROVE PicturesInv'
  OBVIOUS
<1>1. /\ UNCHANGED loopAlone /\ frames' = frames /\ loop.pc = "starting" /\ Shape /\ LoopShape
      /\ GameShape /\ game' = [game EXCEPT !.on = TRUE, !.flushed = FALSE] /\ SendText(Said("started"))
      /\ loop' = [At("pushing") EXCEPT !.then = "sound", !.force = TRUE, !.audio = TRUE]
  BY DEF Started, queuesUnchanged, loopAlone, PicturesInv, Shape
<1>2. LoopRecord(At("pushing")) /\ At("pushing").pc = "pushing"
  BY <1>1, AtDoes
<1>3. LoopRecord(loop') /\ loop'.pc = "pushing" /\ loop'.then = "sound" /\ loop'.force = TRUE
  <2>1. ASSUME NEW r, LoopRecord(r), loop' = [r EXCEPT !.then = "sound", !.force = TRUE, !.audio = TRUE]
        PROVE  LoopRecord(loop') /\ loop'.pc = r.pc /\ loop'.then = "sound" /\ loop'.force = TRUE
    BY <2>1 DEF LoopRecord
  <2> QED BY <1>1, <1>2, <2>1
<1>4. GameShape'
  BY <1>1 DEF GameShape, loopAlone
<1>5. LoopShape'
  BY <1>3 DEF LoopShape, Places
<1>6. Sent
  BY <1>1, SendTextDoes DEF Sent, TextKinds
<1>7. FirstSeen'
  BY <1>3 DEF FirstSeen, Running
<1> QED BY <1>1, <1>3, <1>4, <1>5, <1>6, <1>7, LoopKeeps

LEMMA HandlesResumeKeeps ==
    ASSUME ContentAssumption, NEW slot \in Slots, PicturesInv, HandlesResume(slot)
    PROVE  PicturesInv'
<1>1. /\ UNCHANGED loopAlone /\ frames' = frames /\ loop.pc = "run" /\ Shape /\ LoopShape
      /\ GameShape /\ SendText(Said("started"))
      /\ game' = IF game.on THEN game
                 ELSE [game EXCEPT !.on = TRUE, !.shows = slot.shows, !.sounding = slot.sounding,
                                   !.epoch = epoch, !.line = epoch]
      /\ loop' = [At("pushing") EXCEPT !.then = "run", !.force = TRUE, !.audio = TRUE,
                                       !.needsReset = @ \/ ~game.on]
  BY DEF HandlesResume, TakesCommand, queuesUnchanged, loopAlone, PicturesInv, Shape
<1>2. LoopRecord(At("pushing")) /\ At("pushing").pc = "pushing"
  BY <1>1, AtDoes
<1>3. LoopRecord(loop') /\ loop'.pc = "pushing" /\ loop'.then = "run" /\ loop'.force = TRUE
  <2> DEFINE x == At("pushing").needsReset \/ ~game.on
             r == At("pushing")
  <2>2. loop' = [r EXCEPT !.then = "run", !.force = TRUE, !.audio = TRUE, !.needsReset = x]
    BY <1>1
  <2>3. LoopRecord(r) /\ r.pc = "pushing"
    BY <1>2
  <2> HIDE DEF x, r
  <2> QED BY <2>2, <2>3 DEF LoopRecord
<1>4. GameShape'
  <2>1. slot \in [shows : Screens \cup {None}, sounding : SUBSET Sounds]
    BY DEF ContentAssumption
  <2> QED BY <1>1, <2>1 DEF GameShape, loopAlone
<1>5. LoopShape'
  BY <1>3 DEF LoopShape, Places
<1>6. Sent
  BY <1>1, SendTextDoes DEF Sent, TextKinds
<1>7. FirstSeen'
  BY <1>3 DEF FirstSeen, Running
<1> QED BY <1>1, <1>3, <1>4, <1>5, <1>6, <1>7, LoopKeeps

LEMMA PushesFirstKeeps == PicturesInv /\ PushesFirst => PicturesInv'
<1> SUFFICES ASSUME PicturesInv, PushesFirst PROVE PicturesInv'
  OBVIOUS
<1>1. /\ UNCHANGED loopAlone /\ game' = game /\ outText' = outText /\ loop.pc = "pushing" /\ Shape /\ LoopShape
      /\ GameShape /\ Push(At(loop.then))
  BY DEF PushesFirst, loopAlone, PicturesInv, Shape
<1>2. /\ LoopRecord(At(loop.then)) /\ At(loop.then).pc = loop.then /\ At(loop.then).force = loop.force
      /\ loop.then \in {"run", "sound"} /\ loop.force
  BY <1>1, AtDoes DEF LoopShape
<1>3. /\ LoopRecord(loop') /\ loop'.pc = loop.then
      /\ \/ frames' = frames /\ ~Pushed /\ loop'.force = loop.force
         \/ Pushed /\ game.shows # None
  BY <1>1, <1>2, PushDoes
<1>4. GameShape'
  BY <1>1 DEF GameShape, loopAlone
<1>5. LoopShape'
  BY <1>2, <1>3 DEF LoopShape, Places
<1>6. ~Pushed => ~Running'
  BY <1>2, <1>3 DEF Running
<1> QED BY <1>1, <1>2, <1>3, <1>4, <1>5, <1>6, PushesKeeps

LEMMA PushesLoadedKeeps == PicturesInv /\ PushesLoaded => PicturesInv'
<1> SUFFICES ASSUME PicturesInv, PushesLoaded PROVE PicturesInv'
  OBVIOUS
<1> DEFINE l == [At("run") EXCEPT !.force = TRUE]
<1>1. /\ UNCHANGED loopAlone /\ outText' = outText /\ loop.pc = "pushLoaded" /\ Shape /\ LoopShape
      /\ GameShape /\ Push(l) /\ game' = [game EXCEPT !.flushed = FALSE]
  BY DEF PushesLoaded, loopAlone, PicturesInv, Shape
<1>2. LoopRecord(l) /\ l.pc = "run" /\ l.force = TRUE
  <2>1. LoopRecord(At("run")) /\ At("run").pc = "run"
    BY <1>1, AtDoes
  <2> QED BY <2>1, ForceDoes
<1> HIDE DEF l
<1>3. /\ LoopRecord(loop') /\ loop'.pc = "run"
      /\ \/ frames' = frames /\ ~Pushed /\ loop'.force = TRUE
         \/ Pushed /\ game.shows # None
  <2>1. /\ LoopRecord(loop') /\ loop'.pc = l.pc
        /\ \/ frames' = frames /\ ~Pushed /\ loop'.force = l.force
           \/ Pushed /\ game.shows # None
    BY <1>1, <1>2, PushDoes
  <2> QED BY <2>1, <1>2
<1>4. GameShape' /\ game'.shows = game.shows
  BY <1>1 DEF GameShape, loopAlone
<1>5. LoopShape'
  BY <1>3 DEF LoopShape, Places
<1>6. ~Pushed => ~Running'
  BY <1>3 DEF Running
<1> QED BY <1>1, <1>3, <1>4, <1>5, <1>6, PushesKeeps

LEMMA TellsRestoredKeeps == PicturesInv /\ TellsRestored => PicturesInv'
<1> SUFFICES ASSUME PicturesInv, TellsRestored PROVE PicturesInv'
  OBVIOUS
<1>1. /\ UNCHANGED loopAlone /\ frames' = frames /\ game' = game /\ loop.pc = "restored" /\ Shape /\ LoopShape
      /\ GameShape /\ SendText(Said("restored")) /\ loop' = At("resuming")
  BY DEF TellsRestored, queuesUnchanged, loopAlone, PicturesInv, Shape
<1>2. LoopRecord(loop') /\ loop'.pc = "resuming" /\ game.on
  BY <1>1, AtDoes DEF LoopShape
<1>3. GameShape'
  BY <1>1 DEF GameShape, loopAlone
<1>4. LoopShape'
  BY <1>1, <1>2 DEF LoopShape, Places
<1>5. Sent
  BY <1>1, <1>2, SendTextDoes DEF Sent, TextKinds
<1>6. FirstSeen'
  BY <1>2 DEF FirstSeen, Running
<1> QED BY <1>1, <1>2, <1>3, <1>4, <1>5, <1>6, LoopKeeps

LEMMA RebuildsLoadedKeeps == PicturesInv /\ RebuildsLoaded => PicturesInv'
<1> SUFFICES ASSUME PicturesInv, RebuildsLoaded PROVE PicturesInv'
  OBVIOUS
<1> DEFINE l == [At("pushLoaded") EXCEPT !.needsReset = FALSE]
<1>1. /\ UNCHANGED loopAlone /\ frames' = frames /\ game' = game /\ loop.pc = "resuming" /\ Shape /\ LoopShape
      /\ GameShape /\ game.on
      /\ (outText' = outText /\ loop' = l) \/ SendSound(l, Replay(game.sounding))
  BY DEF RebuildsLoaded, queuesUnchanged, loopAlone, PicturesInv, Shape, LoopShape
<1>2. LoopRecord(l) /\ l.pc = "pushLoaded"
  <2>1. LoopRecord(At("pushLoaded")) /\ At("pushLoaded").pc = "pushLoaded"
    BY <1>1, AtDoes
  <2> QED BY <2>1, MarkDoes
<1> HIDE DEF l
<1>3. LoopRecord(loop') /\ loop'.pc = "pushLoaded" /\ (outText' = outText \/ Spoken)
  BY <1>1, <1>2, SendSoundDoes
<1>4. GameShape'
  BY <1>1 DEF GameShape, loopAlone
<1>5. LoopShape'
  BY <1>1, <1>3 DEF LoopShape, Places
<1>6. ~Running'
  BY <1>3 DEF Running
<1> QED BY <1>1, <1>3, <1>4, <1>5, <1>6, SpeaksKeeps

\* A new timeline begins: whatever is on its way is of an earlier one.
LEMMA QuickLoadsKeeps ==
    ASSUME ContentAssumption, NEW slot \in Slots, PicturesInv, QuickLoads(slot)
    PROVE  PicturesInv'
<1>1. /\ epoch' = epoch + 1 /\ frames' = frames /\ outFrames' = outFrames /\ outText' = outText
      /\ enc' = enc /\ writer' = writer /\ page' = page
      /\ loop.pc = "run" /\ game.on /\ loop' = [At("restored") EXCEPT !.defs = NoDefinitions]
      /\ game' = [game EXCEPT !.shows = slot.shows, !.sounding = slot.sounding, !.flushed = FALSE,
                             !.epoch = epoch + 1, !.line = @ + 1]
  BY DEF QuickLoads, TakesCommand, queuesUnchanged
<1>2. /\ Shape /\ GameShape /\ LoopShape /\ FramesShape /\ EncShape /\ QueuedShape /\ Texts(outText)
      /\ WriterShape /\ PageShape /\ epoch \in Nat
      /\ Told /\ Chain
  BY DEF PicturesInv, Shape, GameShape
<1>3. GameShape' /\ game'.on
  <2>1. slot \in [shows : Screens \cup {None}, sounding : SUBSET Sounds]
    BY DEF ContentAssumption
  <2>2. slot.shows \in Screens \cup {None} /\ slot.sounding \in SUBSET Sounds /\ game.line = epoch
        /\ game.on = TRUE
    BY <1>1, <1>2, <2>1 DEF GameShape
  <2>3. game = [on |-> game.on, shows |-> game.shows, flushed |-> game.flushed,
                sounding |-> game.sounding, epoch |-> game.epoch, line |-> game.line]
    BY <1>2 DEF GameShape
  <2>4. game' = [on |-> TRUE, shows |-> slot.shows, flushed |-> FALSE,
                 sounding |-> slot.sounding, epoch |-> epoch + 1, line |-> epoch + 1]
    BY <1>1, <2>2, <2>3
  <2>5. epoch' \in Nat /\ game'.on
    BY <1>1, <1>2, <2>4
  <2> QED BY <1>1, <2>2, <2>4, <2>5 DEF GameShape
<1>4. LoopShape' /\ loop'.pc = "restored"
  <2> DEFINE r == At("restored")
  <2>1. LoopRecord(r) /\ r.pc = "restored"
    BY <1>2, AtDoes
  <2>2. loop' = [r EXCEPT !.defs = NoDefinitions]
    BY <1>1
  <2> HIDE DEF r
  <2>3. LoopRecord(loop') /\ loop'.pc = "restored"
    BY <2>1, <2>2 DEF LoopRecord
  <2> QED BY <2>3, <1>3 DEF LoopShape, Places
<1>5. FramesShape' /\ EncShape' /\ QueuedShape' /\ PageShape'
  <2>1. FramesShape' /\ QueuedShape'
    BY <1>1, <1>2 DEF FramesShape, QueuedShape, Timely, OneOf, Frame, Picture
  <2>2. EncShape'
    BY <1>1, <1>2 DEF EncShape, Timely, OneOf, Frame, Picture
  <2>3. PageShape'
    BY <1>1, <1>2 DEF PageShape
  <2> QED BY <2>1, <2>2, <2>3
<1>6. Texts(outText)'
  BY <1>1, <1>2 DEF Texts
<1>7. WriterShape'
  BY <1>1, <1>2 DEF WriterShape, Timely, Picture, OneOf
<1>8. Told'
  <2>1. ASSUME NEW i \in 1..Len(Coming), Counts(Coming[i], writer.pc, epoch + 1)
        PROVE  Counts(Coming[i], writer.pc, epoch)
    <3>1. Coming[i].epoch \in 0..epoch
      BY <1>2, ComingShape
    <3> QED BY <2>1, <3>1, <1>2 DEF Counts
  <2>2. InOrder(Coming, writer.pc, page.epoch, epoch + 1)
    BY <1>2, <2>1 DEF Told, InOrder
  <2>3. Coming' = Coming
    BY <1>1 DEF Coming
  <2>4. UnsaidIn(Coming, epoch + 1)
    BY <1>2, ComingShape DEF UnsaidIn, Restores
  <2> QED BY <1>1, <1>4, <2>2, <2>3, <2>4 DEF Told
<1>9. Untold'
  <2>1. enc.epoch < epoch' /\ page.epoch < epoch'
    BY <1>1, <1>2 DEF EncShape, PageShape
  <2>2. /\ frames # <<>> => frames[1].epoch # epoch'
        /\ enc.frame # <<>> => enc.frame[1].epoch # epoch'
        /\ outFrames # <<>> => outFrames[1].epoch # epoch'
        /\ writer.picture # <<>> => writer.picture[1].epoch # epoch'
    BY <1>1, <1>2 DEF FramesShape, EncShape, QueuedShape, WriterShape, Timely, OneOf, Frame, Picture
  <2>3. \A i \in 1..Len(writer.batch) : writer.batch[i].epoch # epoch'
    BY <1>1, <1>2 DEF WriterShape
  <2>4. enc.epoch # epoch' /\ page.epoch # epoch'
    BY <2>1, <1>1, <1>2 DEF EncShape, PageShape
  <2> QED BY <1>1, <2>2, <2>3, <2>4 DEF Untold
<1>10. Chain'
  <2>1. Untold' /\ loop'.pc = "restored"
    BY <1>4, <1>9
  <2>2. EndsInPicture /\ Counts(BatchPicture, writer.pc, epoch + 1) => Counts(BatchPicture, writer.pc, epoch)
    <3>1. SUFFICES ASSUME EndsInPicture PROVE BatchPicture.epoch \in 0..epoch
      BY <1>2 DEF Counts
    <3>2. Len(writer.batch) \in 1..Len(writer.batch)
      BY <1>2, <3>1, SeqIndices DEF WriterShape, EndsInPicture
    <3> QED BY <1>2, <3>2 DEF WriterShape, BatchPicture
  <2>3. EndsInPicture' = EndsInPicture /\ BatchPicture' = BatchPicture /\ \A e : OnCanvas(e)' = OnCanvas(e)
    BY <1>1 DEF EndsInPicture, BatchPicture, OnCanvas
  <2>4. (EndsInPicture /\ Counts(BatchPicture, writer.pc, epoch) =>
          BatchPicture.base \in {NoPicture, OnCanvas(BatchPicture.epoch)})'
    BY <1>1, <1>2, <2>2, <2>3 DEF Chain, WritersChain
  <2> QED BY <1>1, <1>2, <2>1, <2>4 DEF Chain, WritersChain, EncodersChain, Untold
<1>11. FirstSeen'
  BY <1>4 DEF FirstSeen, Running
<1> QED BY <1>3, <1>4, <1>5, <1>6, <1>7, <1>8, <1>9, <1>10, <1>11 DEF PicturesInv, Shape

\* What the guest draws and plays, and what a person asks for.
LEMMA GuestKeeps ==
    ASSUME PicturesInv, (\E s \in Screens : Draws(s)) \/ StartsSound \/ StopsSound \/ Asks \/ AnswersPing,
           ContentAssumption
    PROVE  PicturesInv'
<1>1. /\ UNCHANGED loopAlone /\ frames' = frames /\ loop' = loop /\ Shape /\ LoopShape /\ GameShape
      /\ outText' = outText \/ SendText(Said("result"))
  BY DEF Draws, StartsSound, StopsSound, Plays, Asks, AnswersPing, hostVars, loopAlone, PicturesInv, Shape
<1>2. GameShape' /\ game'.on = game.on /\ (game.shows # None => game'.shows # None)
  <2>1. ASSUME NEW s \in Screens, Draws(s) PROVE GameShape' /\ game'.on = game.on /\ game'.shows # None
    BY <1>1, <2>1 DEF Draws, GameShape, loopAlone, ContentAssumption
  <2>2. ASSUME StartsSound \/ StopsSound PROVE GameShape' /\ game'.on = game.on /\ game'.shows = game.shows
    <3>1. PICK sounding \in SUBSET Sounds : game' = [game EXCEPT !.sounding = sounding]
      BY <1>1, <2>2 DEF StartsSound, StopsSound, Plays, GameShape
    <3> QED BY <1>1, <3>1 DEF GameShape, loopAlone
  <2>3. ASSUME Asks \/ AnswersPing PROVE GameShape' /\ game' = game
    BY <1>1, <2>3 DEF Asks, AnswersPing, GameShape, loopAlone
  <2> QED BY <2>1, <2>2, <2>3
<1>3. LoopShape'
  BY <1>1, <1>2 DEF LoopShape
<1>4. outText' = outText \/ Spoken
  BY <1>1, SendTextDoes
<1>5. Running' => Running
  BY <1>1, <1>2 DEF Running
<1> QED BY <1>1, <1>2, <1>3, <1>4, <1>5, SpeaksKeeps

LEMMA OffersKeeps == PicturesInv /\ Offers => PicturesInv'
<1> SUFFICES ASSUME PicturesInv, Offers PROVE PicturesInv'
  OBVIOUS
<1>1. /\ UNCHANGED loopAlone /\ loop' = loop /\ game' = game /\ outText' = outText /\ Shape /\ LoopShape /\ GameShape
      /\ frames = <<>> /\ game.shows # None /\ loop.pc # "restored"
  BY DEF Offers, GuestRuns, hostVars, loopAlone, PicturesInv, Shape
<1>2. Pushed
  <2> DEFINE f == [shows |-> game.shows, line |-> game.line, force |-> FALSE, epoch |-> game.epoch]
  <2>1. f \in Frame /\ f.epoch = epoch /\ f.line = epoch
    BY <1>1 DEF GameShape, Frame
  <2>2. frames' = <<f>>
    BY DEF Offers
  <2> HIDE DEF f
  <2> QED BY <1>1, <2>1, <2>2 DEF Pushed
<1>3. GameShape' /\ LoopShape'
  BY <1>1 DEF GameShape, LoopShape, loopAlone
<1> QED BY <1>1, <1>2, <1>3, PushesKeeps

-----------------------------------------------------------------------------
(***************************************************************************)
(* The encoder.                                                            *)
(***************************************************************************)
encoderFar == <<epoch, game, loop, outText, writer, page>>

LEMMA EncoderKeeps ==
    ASSUME PicturesInv, UNCHANGED encoderFar, FramesShape', EncShape', QueuedShape', Untold', EncodersChain',
           Seen => Seen'
    PROVE  PicturesInv'
<1>1. /\ epoch' = epoch /\ game' = game /\ loop' = loop /\ outText' = outText /\ writer' = writer /\ page' = page
  BY DEF encoderFar
<1>2. GameShape' /\ LoopShape' /\ Texts(outText)' /\ WriterShape' /\ PageShape'
  BY <1>1 DEF PicturesInv, Shape, GameShape, LoopShape, Texts, WriterShape, PageShape, Timely
<1>3. Told' /\ WritersChain' /\ FirstSeen'
  BY <1>1 DEF PicturesInv, Told, Coming, Chain, WritersChain, EndsInPicture, BatchPicture, OnCanvas, FirstSeen, Running
<1> QED BY <1>2, <1>3 DEF PicturesInv, Shape, Chain

LEMMA WithWritersStays == ASSUME UNCHANGED encoderFar PROVE WithWriters(epoch)' = WithWriters(epoch)
BY DEF encoderFar, WithWriters, EndsInPicture, BatchPicture, OnCanvas

LEMMA TakesFrameKeeps == PicturesInv /\ TakesFrame => PicturesInv'
<1> SUFFICES ASSUME PicturesInv, TakesFrame PROVE PicturesInv'
  OBVIOUS
<1>1. /\ UNCHANGED encoderFar /\ epoch' = epoch /\ loop' = loop /\ page' = page /\ writer' = writer
      /\ outFrames' = outFrames /\ enc.pc = "idle" /\ frames # <<>> /\ frames' = <<>>
      /\ enc' = [enc EXCEPT !.pc = "held", !.frame = frames]
  BY DEF TakesFrame, encoderUnchanged, encoderFar
<1>2. /\ FramesShape /\ EncShape /\ QueuedShape /\ Untold /\ EncodersChain
  BY DEF PicturesInv, Shape, Chain
<1>3. /\ enc' = [pc |-> "held", epoch |-> enc.epoch, base |-> enc.base, frame |-> frames]
      /\ enc.frame = <<>>
  BY <1>1, <1>2 DEF EncShape
<1>4. FramesShape' /\ EncShape' /\ QueuedShape'
  BY <1>1, <1>2, <1>3 DEF FramesShape, EncShape, QueuedShape, Timely
<1>5. Untold'
  BY <1>1, <1>2, <1>3 DEF Untold
<1>6. WithQueued' = WithQueued
  BY <1>1, WithWritersStays DEF WithQueued
<1>7. EncodersChain'
  BY <1>1, <1>2, <1>3, <1>6, WithWritersStays DEF EncodersChain
<1>8. Seen => Seen'
  BY <1>1, <1>3, <1>6 DEF Seen
<1> QED BY <1>1, <1>4, <1>5, <1>7, <1>8, EncoderKeeps

LEMMA EncodesFrameKeeps == ContentAssumption /\ PicturesInv /\ EncodesFrame => PicturesInv'
<1> SUFFICES ASSUME ContentAssumption, PicturesInv, EncodesFrame PROVE PicturesInv'
  OBVIOUS
<1> DEFINE frame == enc.frame[1]
<1>1. /\ UNCHANGED encoderFar /\ epoch' = epoch /\ loop' = loop /\ page' = page /\ writer' = writer
      /\ outFrames' = outFrames /\ frames' = frames /\ enc.pc = "held"
  BY DEF EncodesFrame, encoderUnchanged, encoderFar
<1>2. FramesShape /\ EncShape /\ QueuedShape /\ Untold /\ EncodersChain /\ epoch \in Nat
  BY DEF PicturesInv, Shape, Chain, GameShape
<1>3. /\ enc.frame = <<frame>> /\ frame \in Frame /\ Timely(frame) /\ enc.frame # <<>>
      /\ enc.epoch \in 0..epoch /\ enc.base \in Drawing
      /\ enc = [pc |-> enc.pc, epoch |-> enc.epoch, base |-> enc.base, frame |-> enc.frame]
  BY <1>1, <1>2 DEF EncShape, OneOf
<1>4. FramesShape' /\ QueuedShape'
  BY <1>1, <1>2 DEF FramesShape, QueuedShape, Timely
<1>5. WithWriters(epoch)' = WithWriters(epoch) /\ WithQueued' = WithQueued
  BY <1>1, WithWritersStays DEF WithQueued
<1>6. \/ frame.epoch # epoch /\ enc' = [enc EXCEPT !.pc = "idle", !.frame = <<>>]
      \/ /\ frame.epoch = epoch /\ ~Needed(frame)
         /\ enc' = [enc EXCEPT !.pc = "idle", !.frame = <<>>, !.epoch = frame.epoch, !.base = Base(frame)]
      \/ /\ frame.epoch = epoch
         /\ enc' = [enc EXCEPT !.pc = "put", !.frame = <<PictureOf(frame)>>,
                              !.epoch = frame.epoch, !.base = Base(frame)]
  BY DEF EncodesFrame
<1>7. Base(frame) \in Drawing /\ Base(frame) \in {NoPicture, enc.base}
      /\ (enc.epoch # epoch /\ frame.epoch = epoch => Base(frame) = NoPicture)
  BY <1>3 DEF Base, NoPicture, Drawing
<1> HIDE DEF frame
<1>8. CASE frame.epoch # epoch /\ enc' = [enc EXCEPT !.pc = "idle", !.frame = <<>>]
  <2>1. enc' = [pc |-> "idle", epoch |-> enc.epoch, base |-> enc.base, frame |-> <<>>]
    BY <1>3, <1>8
  <2>2. EncShape' /\ Untold' /\ EncodersChain'
    BY <1>1, <1>2, <1>3, <1>5, <2>1 DEF EncShape, Untold, EncodersChain
  <2>3. Seen => Seen'
    BY <1>1, <1>3, <1>5, <1>8, <2>1 DEF Seen
  <2> QED BY <1>1, <1>4, <2>2, <2>3, EncoderKeeps
<1>9. CASE /\ frame.epoch = epoch /\ ~Needed(frame)
           /\ enc' = [enc EXCEPT !.pc = "idle", !.frame = <<>>, !.epoch = frame.epoch, !.base = Base(frame)]
  <2>1. enc' = [pc |-> "idle", epoch |-> epoch, base |-> Base(frame), frame |-> <<>>]
    BY <1>3, <1>9
  <2>2. loop.pc # "restored"
    BY <1>2, <1>3, <1>9 DEF Untold, frame
  <2>3. EncShape' /\ Untold' /\ EncodersChain'
    <3>1. enc'.pc = "idle" /\ enc'.epoch = epoch /\ enc'.base = Base(frame) /\ enc'.frame = <<>>
      BY <2>1
    <3>2. EncShape'
      BY <1>1, <1>2, <1>7, <2>1, <3>1 DEF EncShape
    <3>3. EncodersChain'
      BY <1>1, <1>2, <1>5, <1>7, <1>9, <3>1 DEF EncodersChain
    <3> QED BY <1>1, <2>2, <3>2, <3>3 DEF Untold
  <2>4. Seen'
    <3>1. Base(frame).shows = frame.shows /\ frame.shows \in Screens
      BY <1>3, <1>9 DEF Needed, Frame
    <3>2. Base(frame) # NoPicture
      BY <3>1 DEF ContentAssumption, NoPicture
    <3>3. WithQueued # NoPicture
      BY <1>2, <1>7, <1>9, <3>2 DEF EncodersChain
    <3> QED BY <1>5, <3>3 DEF Seen
  <2> QED BY <1>1, <1>4, <2>3, <2>4, EncoderKeeps
<1>10. CASE /\ frame.epoch = epoch
            /\ enc' = [enc EXCEPT !.pc = "put", !.frame = <<PictureOf(frame)>>,
                                 !.epoch = frame.epoch, !.base = Base(frame)]
  <2> DEFINE m == PictureOf(frame)
  <2>1. m \in Picture /\ Timely(m) /\ m.epoch = epoch /\ m.base \in {NoPicture, Base(frame)}
    BY <1>3, <1>7, <1>10 DEF PictureOf, Picture, Frame, Timely, NoPicture, Drawing
  <2>2. enc' = [pc |-> "put", epoch |-> epoch, base |-> Base(frame), frame |-> <<m>>]
    BY <1>3, <1>10
  <2> HIDE DEF m
  <2>3. loop.pc # "restored"
    BY <1>2, <1>3, <1>10 DEF Untold, frame
  <2>4. enc'.frame = <<m>> /\ enc'.frame # <<>> /\ enc'.frame[1] = m /\ enc'.pc = "put" /\ enc'.epoch = epoch
        /\ enc'.base = Base(frame)
    BY <2>2
  <2>5. EncShape'
    BY <1>1, <1>2, <1>7, <2>1, <2>2, <2>4 DEF EncShape, OneOf, Timely
  <2>6. Untold' /\ EncodersChain'
    BY <1>1, <1>2, <1>5, <1>7, <1>10, <2>1, <2>3, <2>4 DEF Untold, EncodersChain
  <2>7. Seen'
    BY <1>1, <2>1, <2>4 DEF Seen
  <2> QED BY <1>1, <1>4, <2>5, <2>6, <2>7, EncoderKeeps
<1> QED BY <1>6, <1>8, <1>9, <1>10

LEMMA HandsPictureKeeps == ContentAssumption /\ PicturesInv /\ HandsPicture => PicturesInv'
<1> SUFFICES ASSUME ContentAssumption, PicturesInv, HandsPicture PROVE PicturesInv'
  OBVIOUS
<1> DEFINE m == enc.frame[1]
<1>1. /\ UNCHANGED encoderFar /\ epoch' = epoch /\ loop' = loop /\ page' = page /\ writer' = writer
      /\ outFrames = <<>> /\ outFrames' = enc.frame /\ frames' = frames /\ enc.pc = "put"
      /\ enc' = [enc EXCEPT !.pc = "idle", !.frame = <<>>, !.base = Drawn(m)]
  BY DEF HandsPicture, encoderUnchanged, encoderFar, Drawn
<1>2. FramesShape /\ EncShape /\ QueuedShape /\ Untold /\ EncodersChain /\ epoch \in Nat
  BY DEF PicturesInv, Shape, Chain, GameShape
<1>3. /\ enc.frame = <<m>> /\ m \in Picture /\ Timely(m) /\ m.epoch = enc.epoch
      /\ m.base \in {NoPicture, enc.base} /\ enc.epoch \in 0..epoch
      /\ enc = [pc |-> enc.pc, epoch |-> enc.epoch, base |-> enc.base, frame |-> enc.frame]
  BY <1>1, <1>2 DEF EncShape, OneOf, EncodersChain
<1>4. Drawn(m) \in Drawing /\ Drawn(m) # NoPicture
  BY <1>3 DEF Drawn, Drawing, Picture, NoPicture, ContentAssumption
<1> HIDE DEF m
<1>5. enc' = [pc |-> "idle", epoch |-> enc.epoch, base |-> Drawn(m), frame |-> <<>>]
  BY <1>1, <1>3
<1>6. outFrames' = <<m>> /\ outFrames' # <<>> /\ outFrames'[1] = m
  BY <1>1, <1>3
<1>7. FramesShape' /\ EncShape' /\ QueuedShape'
  <2>1. FramesShape'
    BY <1>1, <1>2 DEF FramesShape, Timely
  <2>2. EncShape'
    BY <1>1, <1>3, <1>4, <1>5 DEF EncShape
  <2>3. QueuedShape'
    BY <1>1, <1>3, <1>6 DEF QueuedShape, OneOf, Timely
  <2> QED BY <2>1, <2>2, <2>3
<1>8. Untold'
  BY <1>1, <1>2, <1>3, <1>5, <1>6 DEF Untold, m
<1>9. WithWriters(epoch)' = WithWriters(epoch) /\ WithQueued = WithWriters(epoch)
  BY <1>1, WithWritersStays DEF WithQueued
<1>10. WithQueued' = IF m.epoch = epoch THEN Drawn(m) ELSE WithQueued
  BY <1>1, <1>6, <1>9 DEF WithQueued
<1>11. EncodersChain'
  BY <1>1, <1>2, <1>3, <1>5, <1>6, <1>9, <1>10 DEF EncodersChain
<1>12. Seen => Seen'
  <2>1. CASE m.epoch = epoch
    BY <1>4, <1>10, <2>1 DEF Seen
  <2>2. CASE m.epoch # epoch
    BY <1>1, <1>3, <1>10, <2>2 DEF Seen, m
  <2> QED BY <2>1, <2>2
<1> QED BY <1>1, <1>7, <1>8, <1>11, <1>12, EncoderKeeps

-----------------------------------------------------------------------------
(***************************************************************************)
(* The writer.                                                             *)
(***************************************************************************)
writerFar == <<epoch, game, loop, frames, enc, page>>

LEMMA WriterKeeps ==
    ASSUME PicturesInv, UNCHANGED writerFar, Texts(outText)', WriterShape', QueuedShape', Told', Untold',
           WritersChain', WithQueued' = WithQueued,
           outFrames' = <<>> \/ (outFrames' = outFrames /\ WithWriters(epoch)' = WithWriters(epoch))
    PROVE  PicturesInv'
<1>1. /\ epoch' = epoch /\ game' = game /\ loop' = loop /\ frames' = frames /\ enc' = enc /\ page' = page
  BY DEF writerFar
<1>2. GameShape' /\ LoopShape' /\ FramesShape' /\ EncShape' /\ PageShape'
  BY <1>1 DEF PicturesInv, Shape, GameShape, LoopShape, FramesShape, EncShape, PageShape, Timely
<1>3. EncodersChain'
  BY <1>1 DEF PicturesInv, Chain, EncodersChain
<1>4. FirstSeen'
  BY <1>1 DEF PicturesInv, FirstSeen, Running, Seen
<1> QED BY <1>2, <1>3, <1>4 DEF PicturesInv, Shape, Chain

\* A batch that is not written yet holds no picture.
LEMMA TextsOnly ==
    ASSUME WriterShape, writer.pc \notin {"write", "sending"}
    PROVE  ~EndsInPicture /\ \A i \in 1..Len(writer.batch) : writer.batch[i].kind \in TextKinds
<1>1. \A i \in 1..Len(writer.batch) : writer.batch[i].kind \in TextKinds
  BY DEF WriterShape
<1>2. writer.batch # <<>> => Len(writer.batch) \in 1..Len(writer.batch)
  BY SeqIndices DEF WriterShape
<1> QED BY <1>1, <1>2 DEF EndsInPicture, BatchPicture, TextKinds

LEMMA TakesTextKeeps == PicturesInv /\ TakesText => PicturesInv'
<1> SUFFICES ASSUME PicturesInv, TakesText PROVE PicturesInv'
  OBVIOUS
<1>1. /\ UNCHANGED writerFar /\ epoch' = epoch /\ loop' = loop /\ page' = page /\ enc' = enc /\ frames' = frames
      /\ outFrames' = outFrames /\ writer.pc = "select" /\ outText' = <<>>
      /\ writer' = [writer EXCEPT !.pc = "look", !.batch = outText]
  BY DEF TakesText, writerUnchanged, writerFar
<1>2. WriterShape /\ QueuedShape /\ Texts(outText) /\ Told /\ Untold /\ Chain /\ epoch \in Nat
  BY DEF PicturesInv, Shape, GameShape
<1>3. /\ writer.batch = <<>> /\ writer.picture = <<>>
      /\ writer' = [pc |-> "look", batch |-> outText, picture |-> <<>>]
  BY <1>1, <1>2 DEF WriterShape
<1>4. writer'.pc = "look" /\ writer'.batch = outText /\ writer'.picture = <<>> /\ IsSeq(outText)
  BY <1>2, <1>3 DEF Texts
<1>5. WriterShape'
  BY <1>1, <1>2, <1>3, <1>4 DEF WriterShape, Texts
<1>6. Texts(outText)' /\ QueuedShape'
  BY <1>1, <1>2, EmptyIsSeq DEF Texts, QueuedShape, Timely
<1>7. ~EndsInPicture /\ ~EndsInPicture'
  <2>1. ~EndsInPicture
    BY <1>3 DEF EndsInPicture
  <2>2. outText # <<>> => outText[Len(outText)].kind \in TextKinds
    BY <1>2, SeqIndices DEF Texts
  <2> QED BY <1>4, <2>1, <2>2 DEF EndsInPicture, BatchPicture, TextKinds
<1>8. Told'
  <2>1. Coming = outText /\ Coming' = outText
    BY <1>1, <1>3, <1>4, SeqJoined, EmptyIsSeq DEF Coming
  <2>2. \A m, e : Counts(m, "look", e) <=> Counts(m, "select", e)
    BY DEF Counts
  <2>3. InOrder(outText, "look", page.epoch, epoch)
    BY <1>1, <1>2, <2>1, <2>2 DEF Told, InOrder
  <2> QED BY <1>1, <1>2, <1>4, <2>1, <2>3 DEF Told
<1>9. Untold'
  BY <1>1, <1>2, <1>4 DEF Untold, Texts, TextKinds
<1>10. \A e : WithWriters(e)' = WithWriters(e)
  BY <1>1, <1>3, <1>4, <1>7 DEF WithWriters, OnCanvas
<1>11. WritersChain' /\ WithQueued' = WithQueued
  BY <1>1, <1>4, <1>7, <1>10 DEF WritersChain, WithQueued
<1> QED BY <1>1, <1>5, <1>6, <1>8, <1>9, <1>10, <1>11, WriterKeeps

LEMMA TakesPictureKeeps == PicturesInv /\ TakesPicture => PicturesInv'
<1> SUFFICES ASSUME PicturesInv, TakesPicture PROVE PicturesInv'
  OBVIOUS
<1>1. /\ UNCHANGED writerFar /\ epoch' = epoch /\ loop' = loop /\ page' = page /\ enc' = enc /\ frames' = frames
      /\ outFrames # <<>> /\ outFrames' = <<>> /\ writer.pc \in {"select", "look"} /\ outText' = outText
      /\ writer' = [writer EXCEPT !.pc = "append", !.picture = outFrames]
  BY DEF TakesPicture, writerUnchanged, writerFar
<1>2. WriterShape /\ QueuedShape /\ Texts(outText) /\ Told /\ Untold /\ Chain /\ epoch \in Nat
  BY DEF PicturesInv, Shape, GameShape
<1>3. /\ writer.picture = <<>> /\ outFrames \in OneOf(Picture) /\ Timely(outFrames[1])
      /\ writer' = [pc |-> "append", batch |-> writer.batch, picture |-> outFrames]
      /\ \A i \in 1..Len(writer.batch) : writer.batch[i].kind \in TextKinds
      /\ ~EndsInPicture
  BY <1>1, <1>2, TextsOnly DEF WriterShape, QueuedShape
<1>4. writer'.pc = "append" /\ writer'.batch = writer.batch /\ writer'.picture = outFrames
  BY <1>3
<1>5. WriterShape'
  BY <1>1, <1>2, <1>3, <1>4 DEF WriterShape, Timely
<1>6. Texts(outText)' /\ QueuedShape'
  BY <1>1, <1>2 DEF Texts, QueuedShape, Timely
<1>7. ~EndsInPicture'
  BY <1>3, <1>4 DEF EndsInPicture, BatchPicture
<1>8. Told'
  <2>1. Coming' = Coming
    BY <1>1, <1>4 DEF Coming
  <2>2. \A m, e : Counts(m, "append", e) <=> Counts(m, writer.pc, e)
    BY <1>1 DEF Counts
  <2>3. InOrder(Coming, "append", page.epoch, epoch)
    BY <1>2, <2>2 DEF Told, InOrder
  <2> QED BY <1>1, <1>2, <1>4, <2>1, <2>3 DEF Told
<1>9. Untold'
  BY <1>1, <1>2, <1>3, <1>4 DEF Untold, TextKinds
<1>10. WithQueued' = WithQueued /\ WithWriters(epoch) = OnCanvas(epoch) /\ OnCanvas(epoch)' = OnCanvas(epoch)
  BY <1>1, <1>3, <1>4, <1>7 DEF WithWriters, OnCanvas, WithQueued
<1>11. WritersChain'
  BY <1>1, <1>2, <1>4, <1>7, <1>10 DEF WritersChain, EncodersChain, Chain
<1> QED BY <1>1, <1>5, <1>6, <1>8, <1>9, <1>10, <1>11, WriterKeeps

LEMMA GoesWithoutPictureKeeps == PicturesInv /\ GoesWithoutPicture => PicturesInv'
<1> SUFFICES ASSUME PicturesInv, GoesWithoutPicture PROVE PicturesInv'
  OBVIOUS
<1>1. /\ UNCHANGED writerFar /\ epoch' = epoch /\ loop' = loop /\ page' = page /\ enc' = enc /\ frames' = frames
      /\ outFrames' = outFrames /\ writer.pc = "look"
      /\ \/ writer' = [writer EXCEPT !.pc = "write", !.batch = @ \o outText] /\ outText' = <<>>
         \/ writer' = [writer EXCEPT !.pc = "write"] /\ outText' = outText
  BY DEF GoesWithoutPicture, writerUnchanged, writerFar
<1>2. /\ WriterShape /\ QueuedShape /\ Texts(outText) /\ Told /\ Untold /\ Chain /\ epoch \in Nat /\ Shape
  BY DEF PicturesInv, Shape, GameShape
<1>3. /\ writer.picture = <<>> /\ IsSeq(writer.batch) /\ IsSeq(outText)
      /\ \A i \in 1..Len(writer.batch) : writer.batch[i].kind \in TextKinds /\ writer.batch[i].epoch \in 0..epoch
      /\ ~EndsInPicture
  BY <1>1, <1>2, TextsOnly DEF WriterShape, Texts
<1>4. /\ writer' = [pc |-> "write", batch |-> writer'.batch, picture |-> <<>>]
      /\ writer'.batch = writer.batch \/ writer'.batch = writer.batch \o outText
      /\ writer'.pc = "write" /\ writer'.picture = <<>>
  BY <1>1, <1>2, <1>3 DEF WriterShape
<1>5. Coming' = Coming
  <2>1. CASE writer' = [writer EXCEPT !.pc = "write", !.batch = @ \o outText] /\ outText' = <<>>
    <3>1. writer'.batch = Coming
      BY <2>1, <1>2 DEF WriterShape, Coming
    <3>2. IsSeq(Coming)
      BY <1>3, SeqJoined DEF Coming
    <3>3. Coming \o <<>> = Coming
      BY <3>2, SeqJoined
    <3> QED BY <2>1, <3>1, <3>3 DEF Coming
  <2>2. CASE writer' = [writer EXCEPT !.pc = "write"] /\ outText' = outText
    BY <2>2, <1>2 DEF WriterShape, Coming
  <2> QED BY <1>1, <2>1, <2>2
<1>6. IsSeq(writer'.batch)
      /\ \A i \in 1..Len(writer'.batch) : writer'.batch[i].kind \in TextKinds /\ writer'.batch[i].epoch \in 0..epoch
  <2>1. CASE writer'.batch = writer.batch
    BY <2>1, <1>3
  <2>2. CASE writer'.batch = writer.batch \o outText
    <3>1. writer'.batch = Coming /\ IsSeq(Coming)
      BY <2>2, <1>2, ComingShape DEF Coming
    <3>2. ASSUME NEW i \in 1..Len(Coming) PROVE Coming[i].kind \in TextKinds /\ Coming[i].epoch \in 0..epoch
      <4>1. /\ Coming[i] = IF i <= Len(writer.batch) THEN writer.batch[i] ELSE outText[i - Len(writer.batch)]
            /\ Coming[i].epoch \in 0..epoch /\ Len(Coming) = Len(writer.batch) + Len(outText)
            /\ Len(writer.batch) \in Nat /\ Len(outText) \in Nat
        BY <1>2, ComingShape
      <4>2. CASE i <= Len(writer.batch)
        BY <4>1, <4>2, <1>3
      <4>3. CASE ~(i <= Len(writer.batch))
        <5>1. i - Len(writer.batch) \in 1..Len(outText)
          BY <4>1, <4>3
        <5> QED BY <4>1, <4>3, <5>1, <1>2 DEF Texts
      <4> QED BY <4>2, <4>3
    <3> QED BY <3>1, <3>2
  <2> QED BY <1>4, <2>1, <2>2
<1>7. WriterShape'
  BY <1>1, <1>4, <1>6 DEF WriterShape
<1>8. Texts(outText)' /\ QueuedShape'
  BY <1>1, <1>2, EmptyIsSeq DEF Texts, QueuedShape, Timely
<1>9. ~EndsInPicture'
  <2>1. writer'.batch # <<>> => Len(writer'.batch) \in 1..Len(writer'.batch)
    BY <1>6, SeqIndices
  <2> QED BY <1>6, <2>1 DEF EndsInPicture, BatchPicture, TextKinds
<1>10. Told'
  <2>1. \A m, e : Counts(m, "write", e) <=> Counts(m, writer.pc, e)
    BY <1>1 DEF Counts
  <2>2. InOrder(Coming, "write", page.epoch, epoch)
    BY <1>2, <2>1 DEF Told, InOrder
  <2> QED BY <1>1, <1>2, <1>4, <1>5, <2>2 DEF Told
<1>11. Untold'
  BY <1>1, <1>2, <1>4, <1>6 DEF Untold, TextKinds
<1>12. WithWriters(epoch)' = WithWriters(epoch) /\ WithQueued' = WithQueued
  <2>1. WithWriters(epoch)' = WithWriters(epoch)
    BY <1>1, <1>3, <1>4, <1>9 DEF WithWriters, OnCanvas
  <2> QED BY <1>1, <2>1 DEF WithQueued
<1>13. WritersChain'
  BY <1>4, <1>9 DEF WritersChain
<1> QED BY <1>1, <1>7, <1>8, <1>10, <1>11, <1>12, <1>13, WriterKeeps

LEMMA AppendsPictureKeeps == PicturesInv /\ AppendsPicture => PicturesInv'
<1> SUFFICES ASSUME PicturesInv, AppendsPicture PROVE PicturesInv'
  OBVIOUS
<1>1. /\ UNCHANGED writerFar /\ epoch' = epoch /\ loop' = loop /\ page' = page /\ enc' = enc /\ frames' = frames
      /\ outFrames' = outFrames /\ writer.pc = "append" /\ outText' = <<>>
      /\ writer' = [writer EXCEPT !.pc = "write", !.batch = @ \o outText \o writer.picture, !.picture = <<>>]
  BY DEF AppendsPicture, writerUnchanged, writerFar
<1>2. /\ WriterShape /\ QueuedShape /\ Texts(outText) /\ Told /\ Untold /\ Chain /\ epoch \in Nat /\ Shape
  BY DEF PicturesInv, Shape, GameShape
<1>3. PICK m \in Picture : writer.picture = <<m>>
  BY <1>1, <1>2 DEF WriterShape, OneOf
<1>4. Timely(m) /\ writer.picture # <<>> /\ writer.picture[1] = m /\ m.kind = "picture" /\ m.epoch \in 0..epoch
  BY <1>2, <1>3 DEF WriterShape, Timely, Picture
<1> DEFINE batch == Append(Coming, m)
<1>5. /\ IsSeq(Coming) /\ Len(Coming) \in Nat
      /\ \A i \in 1..Len(Coming) : Coming[i].kind \in TextKinds /\ Coming[i].epoch \in 0..epoch
  <2>1. IsSeq(Coming) /\ Len(Coming) \in Nat
    BY <1>2, ComingShape, SeqIndices
  <2>2. \A i \in 1..Len(writer.batch) : writer.batch[i].kind \in TextKinds
    BY <1>1, <1>2, TextsOnly
  <2>3. ASSUME NEW i \in 1..Len(Coming) PROVE Coming[i].kind \in TextKinds /\ Coming[i].epoch \in 0..epoch
    <3>1. /\ Coming[i] = IF i <= Len(writer.batch) THEN writer.batch[i] ELSE outText[i - Len(writer.batch)]
          /\ Coming[i].epoch \in 0..epoch /\ Len(Coming) = Len(writer.batch) + Len(outText)
          /\ Len(writer.batch) \in Nat /\ Len(outText) \in Nat
      BY <1>2, ComingShape
    <3>2. CASE i <= Len(writer.batch)
      BY <3>1, <3>2, <2>2
    <3>3. CASE ~(i <= Len(writer.batch))
      <4>1. i - Len(writer.batch) \in 1..Len(outText)
        BY <3>1, <3>3
      <4> QED BY <3>1, <3>3, <4>1, <1>2 DEF Texts
    <3> QED BY <3>2, <3>3
  <2> QED BY <2>1, <2>3
<1>6. writer' = [pc |-> "write", batch |-> batch, picture |-> <<>>]
  <2>1. Coming \o <<m>> = Append(Coming, m)
    <3>1. Coming \o Append(<<>>, m) = Append(Coming \o <<>>, m) /\ Coming \o <<>> = Coming
      BY <1>5, EmptyIsSeq, SeqJoinedAppended, SeqJoined
    <3>2. Append(<<>>, m) = <<m>>
      OBVIOUS
    <3> QED BY <3>1, <3>2
  <2> QED BY <1>1, <1>2, <1>3, <2>1 DEF WriterShape, Coming
<1>7. /\ IsSeq(batch) /\ Len(batch) = Len(Coming) + 1 /\ batch # <<>>
      /\ \A i \in 1..Len(Coming) : batch[i] = Coming[i]
      /\ batch[Len(Coming) + 1] = m
  BY <1>5, SeqAppended
<1> HIDE DEF batch
<1>8. writer'.pc = "write" /\ writer'.batch = batch /\ writer'.picture = <<>>
  BY <1>6
<1>9. WriterShape'
  <2>1. ASSUME NEW i \in 1..Len(batch)
        PROVE  /\ batch[i].epoch \in 0..epoch
               /\ \/ batch[i].kind \in TextKinds
                  \/ batch[i] \in Picture /\ Timely(batch[i]) /\ i = Len(batch)
    <3>1. CASE i \in 1..Len(Coming)
      BY <3>1, <1>5, <1>7
    <3>2. CASE i = Len(Coming) + 1
      BY <3>2, <1>3, <1>4, <1>7
    <3> QED BY <3>1, <3>2, <1>5, <1>7
  <2> QED BY <1>1, <1>6, <1>7, <1>8, <2>1 DEF WriterShape, Timely
<1>10. Texts(outText)' /\ QueuedShape'
  BY <1>1, <1>2, EmptyIsSeq DEF Texts, QueuedShape, Timely
<1>11. ~EndsInPicture /\ EndsInPicture' /\ BatchPicture' = m
  <2>1. ~EndsInPicture
    BY <1>1, <1>2, TextsOnly
  <2> QED BY <2>1, <1>4, <1>7, <1>8 DEF EndsInPicture, BatchPicture
<1>12. \A e : WithWriters(e)' = WithWriters(e) /\ OnCanvas(e)' = OnCanvas(e)
  BY <1>1, <1>4, <1>8, <1>11 DEF WithWriters, OnCanvas
<1>13. WritersChain' /\ WithQueued' = WithQueued
  <2>1. WithQueued' = WithQueued
    BY <1>1, <1>12 DEF WithQueued
  <2>2. m.epoch = epoch => m.base \in {NoPicture, OnCanvas(epoch)}
    BY <1>2, <1>4 DEF Chain, WritersChain
  <2>3. Counts(m, "write", epoch) => m.epoch = epoch
    BY <1>4 DEF Counts
  <2>4. (EndsInPicture /\ Counts(BatchPicture, writer.pc, epoch) =>
            BatchPicture.base \in {NoPicture, OnCanvas(BatchPicture.epoch)})'
    BY <1>1, <1>8, <1>11, <1>12, <2>2, <2>3
  <2> QED BY <1>8, <2>1, <2>4 DEF WritersChain
<1>14. Untold'
  <2>1. loop.pc = "restored" => m.epoch # epoch
    BY <1>2, <1>4 DEF Untold
  <2>2. ASSUME loop.pc = "restored", NEW i \in 1..Len(batch), batch[i].kind = "picture"
        PROVE  batch[i].epoch # epoch
    <3>1. CASE i \in 1..Len(Coming)
      BY <2>2, <3>1, <1>5, <1>7 DEF TextKinds
    <3>2. CASE i = Len(Coming) + 1
      BY <2>1, <2>2, <3>2, <1>7
    <3> QED BY <3>1, <3>2, <1>5, <1>7
  <2> QED BY <1>1, <1>2, <1>8, <2>2 DEF Untold
<1>15. Told'
  <2>1. \A n, e : Counts(n, "write", e) <=> Counts(n, writer.pc, e)
    BY <1>1 DEF Counts
  <2>2. InOrder(Coming, "write", page.epoch, epoch)
    BY <1>2, <2>1 DEF Told, InOrder
  <2>3. page.epoch \in Nat /\ page.epoch <= epoch
    BY <1>2 DEF Shape, PageShape
  <2>4. loop.pc # "restored" => ToldOf(batch, page.epoch, epoch)
    BY <1>2, <1>5, <1>7 DEF Told, ToldOf
  <2>7. loop.pc = "restored" => UnsaidIn(batch, epoch)
    <3>1. ~Restores(m, epoch)
      BY <1>4 DEF Restores
    <3>2. 1..Len(batch) = (1..Len(Coming)) \cup {Len(Coming) + 1}
      BY <1>5, <1>7
    <3> QED BY <1>2, <1>5, <1>7, <3>1, <3>2 DEF Told, UnsaidIn
  <2>5. InOrder(batch, "write", page.epoch, epoch)
    <3>1. CASE m.epoch = epoch
      <4>1. loop.pc # "restored"
        BY <1>2, <1>4, <3>1 DEF Untold
      <4>2. ToldOf(Coming, page.epoch, epoch)
        BY <4>1, <1>2 DEF Told
      <4> QED BY <1>2, <1>5, <2>2, <2>3, <3>1, <4>2, InOrderMore DEF batch
    <3>2. CASE m.epoch # epoch
      <4>1. ~Counts(m, "write", epoch)
        BY <3>2, <1>4 DEF Counts
      <4>2. ASSUME NEW i \in 1..Len(batch), Counts(batch[i], "write", epoch)
            PROVE  i \in 1..Len(Coming) /\ batch[i] = Coming[i]
        BY <4>1, <4>2, <1>5, <1>7
      <4>3. ASSUME NEW i \in 1..Len(batch), Counts(batch[i], "write", epoch)
            PROVE  /\ page.epoch <= batch[i].epoch
                   /\ page.epoch = batch[i].epoch \/ \E j \in 1..i : Restores(batch[j], batch[i].epoch)
        <5>1. i \in 1..Len(Coming) /\ batch[i] = Coming[i] /\ \A j \in 1..i : batch[j] = Coming[j]
          BY <4>2, <4>3, <1>7, <1>5
        <5> QED BY <5>1, <4>3, <2>2 DEF InOrder
      <4>4. ASSUME NEW i \in 1..Len(batch), NEW j \in 1..Len(batch), i < j,
                   Counts(batch[i], "write", epoch), Counts(batch[j], "write", epoch)
            PROVE  batch[i].epoch <= batch[j].epoch
        BY <4>2, <4>4, <2>2 DEF InOrder
      <4> QED BY <4>3, <4>4 DEF InOrder
    <3> QED BY <3>1, <3>2
  <2>6. Coming' = batch
    BY <1>1, <1>7, <1>8, SeqJoined, EmptyIsSeq DEF Coming
  <2> QED BY <1>1, <1>8, <2>4, <2>5, <2>6, <2>7 DEF Told
<1> QED BY <1>1, <1>9, <1>10, <1>12, <1>13, <1>14, <1>15, WriterKeeps

LEMMA WritesKeeps == PicturesInv /\ Writes => PicturesInv'
<1> SUFFICES ASSUME PicturesInv, Writes PROVE PicturesInv'
  OBVIOUS
<1> DEFINE b == writer.batch
           w == WrittenOf(b)
<1>1. /\ UNCHANGED writerFar /\ epoch' = epoch /\ loop' = loop /\ page' = page /\ enc' = enc /\ frames' = frames
      /\ outFrames' = outFrames /\ writer.pc = "write" /\ outText' = outText /\ writer' = Sending(w)
  BY DEF Writes, writerUnchanged, writerFar
<1>2. /\ WriterShape /\ QueuedShape /\ Texts(outText) /\ Told /\ Untold /\ Chain /\ epoch \in Nat /\ Shape
  BY DEF PicturesInv, Shape, GameShape
<1>3. IsSeq(b) /\ writer.picture = <<>> /\ IsSeq(outText)
  BY <1>1, <1>2 DEF WriterShape, Texts
<1>4. PICK h : Leaves(w, b, Len(b), h)
  BY <1>3, WrittenLeaves
<1>5. writer' = [pc |-> IF w = <<>> THEN "select" ELSE "sending", batch |-> w, picture |-> <<>>]
  BY <1>1 DEF Sending
<1> HIDE DEF w
<1>6. /\ writer'.pc = (IF w = <<>> THEN "select" ELSE "sending") /\ writer'.batch = w /\ writer'.picture = <<>>
      /\ writer' = [pc |-> writer'.pc, batch |-> writer'.batch, picture |-> writer'.picture]
  BY <1>5
<1>7. /\ IsSeq(w) /\ Len(w) \in Nat /\ Len(b) \in Nat
      /\ (w = <<>> <=> Len(w) = 0) /\ (b = <<>> <=> Len(b) = 0)
      /\ h \in [1..Len(w) -> 1..Len(b)]
      /\ \A i \in 1..Len(w) : h[i] \in 1..Len(b) /\ w[i] = b[h[i]] /\ Current(w[i])
      /\ \A i, j \in 1..Len(w) : i < j => h[i] < h[j]
      /\ \A k \in 1..Len(b) : Current(b[k]) => \E i \in 1..Len(w) : h[i] = k
  BY <1>3, <1>4, SeqIndices DEF Leaves
<1>8. ASSUME NEW i \in 1..Len(w)
      PROVE  /\ w[i].epoch \in 0..epoch
             /\ \/ w[i].kind \in TextKinds
                \/ /\ w[i] \in Picture /\ Timely(w[i]) /\ w[i].epoch = epoch
                   /\ i = Len(w) /\ h[i] = Len(b)
  <2>1. /\ w[i].epoch \in 0..epoch
        /\ \/ w[i].kind \in TextKinds
           \/ w[i] \in Picture /\ Timely(w[i]) /\ h[i] = Len(b)
    BY <1>2, <1>7 DEF WriterShape
  <2>2. CASE w[i] \in Picture /\ Timely(w[i]) /\ h[i] = Len(b)
    <3>1. w[i].epoch = epoch
      BY <2>2, <1>7 DEF Current, OfTheTimeline, Picture
    <3>2. i = Len(w)
      <4>1. SUFFICES ASSUME i < Len(w) PROVE FALSE
        BY <1>7
      <4>2. Len(w) \in 1..Len(w)
        BY <1>7
      <4> QED BY <1>7, <2>2, <4>1, <4>2
    <3> QED BY <2>1, <2>2, <3>1, <3>2
  <2> QED BY <2>1, <2>2
<1>9. WriterShape'
  BY <1>1, <1>6, <1>7, <1>8 DEF WriterShape, Timely
<1>10. Texts(outText)' /\ QueuedShape'
  BY <1>1, <1>2 DEF Texts, QueuedShape, Timely
<1>11. /\ EndsInPicture' => EndsInPicture /\ BatchPicture' = BatchPicture /\ BatchPicture.epoch = epoch
       /\ EndsInPicture /\ BatchPicture.epoch = epoch => EndsInPicture' /\ BatchPicture' = BatchPicture
  <2>1. ASSUME EndsInPicture' PROVE EndsInPicture /\ BatchPicture' = BatchPicture /\ BatchPicture.epoch = epoch
    <3>1. w # <<>> /\ w[Len(w)].kind = "picture" /\ Len(w) \in 1..Len(w)
      BY <2>1, <1>6, <1>7 DEF EndsInPicture, BatchPicture
    <3>2. w[Len(w)] = b[Len(b)] /\ w[Len(w)].epoch = epoch /\ Len(b) # 0
      BY <3>1, <1>7, <1>8 DEF TextKinds
    <3> QED BY <3>1, <3>2, <1>6, <1>7 DEF EndsInPicture, BatchPicture
  <2>2. ASSUME EndsInPicture, BatchPicture.epoch = epoch PROVE EndsInPicture' /\ BatchPicture' = BatchPicture
    <3>1. b[Len(b)].kind = "picture" /\ Len(b) \in 1..Len(b) /\ Current(b[Len(b)])
      BY <2>2, <1>7 DEF EndsInPicture, BatchPicture, Current
    <3>2. PICK i \in 1..Len(w) : h[i] = Len(b)
      BY <3>1, <1>7
    <3>3. i = Len(w) /\ w[Len(w)] = b[Len(b)] /\ w # <<>>
      BY <3>1, <3>2, <1>7, <1>8 DEF TextKinds
    <3> QED BY <3>1, <3>3, <1>6 DEF EndsInPicture, BatchPicture
  <2> QED BY <2>1, <2>2
<1>12. WithWriters(epoch)' = WithWriters(epoch) /\ \A e : OnCanvas(e)' = OnCanvas(e)
  BY <1>1, <1>3, <1>6, <1>11 DEF WithWriters, OnCanvas
<1>13. WritersChain' /\ WithQueued' = WithQueued
  <2>1. WithQueued' = WithQueued
    BY <1>1, <1>12 DEF WithQueued
  <2>2. EndsInPicture /\ BatchPicture.epoch = epoch =>
            BatchPicture.base \in {NoPicture, OnCanvas(BatchPicture.epoch)}
    BY <1>2 DEF Chain, WritersChain, EndsInPicture, Counts
  <2>3. (EndsInPicture /\ Counts(BatchPicture, writer.pc, epoch) =>
            BatchPicture.base \in {NoPicture, OnCanvas(BatchPicture.epoch)})'
    BY <1>11, <1>12, <2>2
  <2> QED BY <1>6, <2>1, <2>3 DEF WritersChain
<1>14. Untold'
  <2>1. ASSUME loop.pc = "restored", NEW i \in 1..Len(w), w[i].kind = "picture"
        PROVE  w[i].epoch # epoch
    BY <1>2, <1>7, <2>1 DEF Untold
  <2> QED BY <1>1, <1>2, <1>6, <2>1 DEF Untold
<1>15. Told'
  <2> DEFINE t == w \o outText
             g == [i \in 1..Len(t) |-> IF i <= Len(w) THEN h[i] ELSE Len(b) + (i - Len(w))]
  <2>1. /\ IsSeq(t) /\ Len(t) = Len(w) + Len(outText) /\ Len(outText) \in Nat
        /\ \A i \in 1..(Len(w) + Len(outText)) : t[i] = IF i <= Len(w) THEN w[i] ELSE outText[i - Len(w)]
    <3>1. Len(outText) \in Nat
      BY <1>3, SeqIndices
    <3>2. /\ IsSeq(t) /\ Len(t) = Len(w) + Len(outText)
          /\ \A i \in 1..(Len(w) + Len(outText)) : t[i] = IF i <= Len(w) THEN w[i] ELSE outText[i - Len(w)]
      <4>1. IsSeq(w) /\ IsSeq(outText)
        BY <1>3, <1>7
      <4> QED BY <4>1, SeqJoined, Zenon
    <3> QED BY <3>1, <3>2
  <2>2. /\ IsSeq(Coming) /\ Len(Coming) = Len(b) + Len(outText)
        /\ \A i \in 1..Len(Coming) : Coming[i] = IF i <= Len(b) THEN b[i] ELSE outText[i - Len(b)]
    BY <1>2, ComingShape
  <2>3. Coming' = t
    BY <1>1, <1>6 DEF Coming
  <2> HIDE DEF t
  <2>4. /\ g \in [1..Len(t) -> 1..Len(Coming)]
        /\ \A i \in 1..Len(t) : g[i] = IF i <= Len(w) THEN h[i] ELSE Len(b) + (i - Len(w))
    BY <1>7, <2>1, <2>2
  <2> HIDE DEF g, b
  <2>5. ASSUME NEW i \in 1..Len(t)
        PROVE  t[i] = Coming[g[i]] /\ (Counts(t[i], writer'.pc, epoch) => Counts(t[i], "write", epoch))
    <3>1. CASE i \in 1..Len(w)
      <4>1. t[i] = w[i] /\ g[i] = h[i] /\ h[i] \in 1..Len(b)
        BY <3>1, <2>1, <2>4, <1>7
      <4>2. Coming[g[i]] = b[h[i]]
        BY <4>1, <2>2, <2>4, <1>7
      <4> QED BY <3>1, <4>1, <4>2, <1>7, <1>8 DEF Counts, TextKinds
    <3>2. CASE i \notin 1..Len(w)
      <4>1. t[i] = outText[i - Len(w)] /\ g[i] = Len(b) + (i - Len(w)) /\ i - Len(w) \in 1..Len(outText)
        BY <3>2, <2>1, <2>4, <1>7
      <4>2. Coming[g[i]] = outText[i - Len(w)]
        BY <4>1, <2>1, <2>2, <2>4, <1>7
      <4>3. t[i].kind \in TextKinds
        BY <4>1, <1>2 DEF Texts
      <4> QED BY <4>1, <4>2, <4>3 DEF Counts, TextKinds
    <3> QED BY <3>1, <3>2
  <2>6. ASSUME NEW i \in 1..Len(t), NEW j \in 1..Len(t), i < j PROVE g[i] < g[j]
    <3>1. CASE j <= Len(w)
      BY <2>1, <2>4, <2>6, <3>1, <1>7
    <3>2. CASE i <= Len(w) /\ ~(j <= Len(w))
      <4>1. i \in 1..Len(w) /\ h[i] \in 1..Len(b) /\ g[i] = h[i] /\ g[j] = Len(b) + (j - Len(w))
        BY <2>1, <2>4, <3>2, <1>7
      <4> QED BY <4>1, <2>1, <3>2, <1>7
    <3>3. CASE ~(i <= Len(w)) /\ ~(j <= Len(w))
      BY <2>1, <2>4, <2>6, <3>3, <1>7
    <3> QED BY <2>1, <2>6, <3>1, <3>2, <3>3, <1>7
  <2>7. ASSUME NEW k \in 1..Len(Coming), Coming[k].kind = "restored" PROVE \E i \in 1..Len(t) : g[i] = k
    <3>1. CASE k <= Len(b)
      <4>1. k \in 1..Len(b) /\ Coming[k] = b[k] /\ Current(b[k])
        BY <2>2, <2>7, <3>1, <1>7 DEF Current, OfTheTimeline
      <4>2. PICK i \in 1..Len(w) : h[i] = k
        BY <4>1, <1>7
      <4>3. i \in 1..Len(t) /\ g[i] = k
        BY <4>2, <2>1, <2>4, <1>7
      <4> QED BY <4>3
    <3>2. CASE ~(k <= Len(b))
      <4>1. Len(w) + (k - Len(b)) \in 1..Len(t) /\ ~(Len(w) + (k - Len(b)) <= Len(w))
        BY <2>1, <2>2, <3>2, <1>7
      <4>2. g[Len(w) + (k - Len(b))] = k
        BY <4>1, <2>1, <2>2, <2>4, <3>2, <1>7
      <4> QED BY <4>1, <4>2
    <3> QED BY <3>1, <3>2
  <2>8. InOrder(Coming, "write", page.epoch, epoch) /\ page.epoch \in Nat
    BY <1>1, <1>2 DEF Told, Shape, PageShape
  <2>9. InOrder(t, writer'.pc, page.epoch, epoch) /\ (ToldOf(Coming, page.epoch, epoch) => ToldOf(t, page.epoch, epoch))
        /\ (UnsaidIn(Coming, epoch) => UnsaidIn(t, epoch))
    <3> DEFINE pd == writer'.pc
    <3>1. \A i \in 1..Len(t) : t[i] = Coming[g[i]] /\ (Counts(t[i], pd, epoch) => Counts(t[i], "write", epoch))
      BY <2>5
    <3>2. \A i, j \in 1..Len(t) : i < j => g[i] < g[j]
      BY <2>6
    <3>3. \A k \in 1..Len(Coming) : Coming[k].kind = "restored" => \E i \in 1..Len(t) : g[i] = k
      BY <2>7
    <3> HIDE DEF pd
    <3>4. IsSeq(Coming) /\ IsSeq(t) /\ g \in [1..Len(t) -> 1..Len(Coming)]
          /\ page.epoch \in Nat /\ epoch \in Nat /\ InOrder(Coming, "write", page.epoch, epoch)
      BY <1>2, <2>1, <2>2, <2>4, <2>8
    <3>5. Thins(t, pd, Coming, "write", epoch, g)
      BY <3>1, <3>2, <3>3, <3>4, Zenon DEF Thins
    <3>6. InOrder(t, pd, page.epoch, epoch) /\ (ToldOf(Coming, page.epoch, epoch) => ToldOf(t, page.epoch, epoch))
        /\ (UnsaidIn(Coming, epoch) => UnsaidIn(t, epoch))
      BY <3>4, <3>5, InOrderLess
    <3> QED BY <3>6 DEF pd
  <2> QED BY <1>1, <1>2, <2>3, <2>9 DEF Told
<1> QED BY <1>1, <1>9, <1>10, <1>12, <1>13, <1>14, <1>15, WriterKeeps

-----------------------------------------------------------------------------
(***************************************************************************)
(* The page.                                                               *)
(***************************************************************************)
pageFar == <<epoch, game, loop, frames, outFrames, outText, enc>>

\* The first message, and what was told before it.
LEMMA HeadFacts ==
    ASSUME PicturesInv, NEW m, Receives(m)
    PROVE  /\ writer.pc = "sending" /\ IsSeq(writer.batch) /\ Len(writer.batch) \in Nat \ {0}
           /\ writer.picture = <<>> /\ m = writer.batch[1] /\ writer' = Sending(Tail(writer.batch))
           /\ m.epoch \in 0..epoch /\ page.epoch \in 0..epoch
           /\ m.kind = "restored" => page.epoch <= m.epoch
           /\ m.kind \in {"started", "picture"} => m.epoch = page.epoch
           /\ m.kind = "picture" => /\ m \in Picture /\ Timely(m) /\ Len(writer.batch) = 1
                                    /\ m.base \in {NoPicture, page.canvas}
<1>1. WriterShape /\ Told /\ Chain /\ Shape /\ page.epoch \in 0..epoch /\ epoch \in Nat
  BY DEF PicturesInv, Shape, PageShape, GameShape
<1>2. /\ writer.pc = "sending" /\ IsSeq(writer.batch) /\ Len(writer.batch) \in Nat \ {0}
      /\ writer.picture = <<>> /\ m = writer.batch[1] /\ writer' = Sending(Tail(writer.batch))
  BY <1>1, SeqTail, SeqIndices DEF Receives, WriterShape
<1>3. /\ m.epoch \in 0..epoch
      /\ m.kind \in TextKinds \/ (m \in Picture /\ Timely(m) /\ Len(writer.batch) = 1)
  BY <1>1, <1>2 DEF WriterShape
<1>4. Coming[1] = m /\ 1 \in 1..Len(Coming)
  BY <1>1, <1>2, ComingShape
<1>5. /\ m.kind = "restored" => page.epoch <= m.epoch
      /\ m.kind \in {"started", "picture"} => m.epoch = page.epoch
  <2>1. InOrder(Coming, "sending", page.epoch, epoch)
    BY <1>1, <1>2 DEF Told
  <2>2. Counts(m, "sending", epoch) =>
            /\ page.epoch <= m.epoch
            /\ page.epoch = m.epoch \/ \E j \in 1..1 : Restores(Coming[j], m.epoch)
    BY <1>4, <2>1 DEF InOrder
  <2> QED BY <1>4, <2>2 DEF Counts, Restores
<1>6. ASSUME m.kind = "picture" PROVE m.base \in {NoPicture, page.canvas}
  <2>1. EndsInPicture /\ BatchPicture = m
    BY <1>2, <1>3, <1>6, SeqIndices DEF EndsInPicture, BatchPicture, TextKinds
  <2> QED BY <1>1, <1>2, <1>5, <1>6, <2>1 DEF Chain, WritersChain, Counts, OnCanvas
<1> QED BY <1>1, <1>2, <1>3, <1>5, <1>6 DEF TextKinds

\* What of a message the canvas and the page's timeline are.
LEMMA PageKeeps ==
    ASSUME ContentAssumption, PicturesInv, NEW m, Receives(m), UNCHANGED pageFar,
           page' = [epoch |-> page'.epoch, canvas |-> page'.canvas, table |-> page'.table,
                    sounding |-> page'.sounding, pending |-> page'.pending, skipped |-> page'.skipped],
           page'.epoch = IF m.kind = "restored" THEN m.epoch ELSE page.epoch,
           page'.canvas = IF m.kind = "picture" THEN Drawn(m)
                          ELSE IF m.kind = "restored" /\ m.epoch # page.epoch THEN NoPicture
                          ELSE page.canvas
    PROVE  PicturesInv'
<1> DEFINE b == writer.batch
           t == Tail(b)
<1>1. /\ epoch' = epoch /\ game' = game /\ loop' = loop /\ frames' = frames /\ outFrames' = outFrames
      /\ outText' = outText /\ enc' = enc
      /\ WriterShape /\ Told /\ Untold /\ Chain /\ Shape /\ PageShape /\ Texts(outText) /\ epoch \in Nat
  BY DEF pageFar, PicturesInv, Shape, GameShape
<1>2. /\ writer.pc = "sending" /\ IsSeq(b) /\ Len(b) \in Nat \ {0}
      /\ writer.picture = <<>> /\ m = b[1] /\ writer' = Sending(t)
      /\ m.epoch \in 0..epoch /\ page.epoch \in 0..epoch
      /\ m.kind = "restored" => page.epoch <= m.epoch
      /\ m.kind = "picture" => m.epoch = page.epoch
      /\ m.kind = "picture" => m \in Picture /\ Timely(m) /\ Len(b) = 1
  BY HeadFacts
<1>3. /\ IsSeq(t) /\ Len(t) = Len(b) - 1 /\ Len(t) \in Nat /\ (t = <<>> <=> Len(t) = 0)
      /\ \A i \in 1..Len(t) : t[i] = b[i + 1] /\ i + 1 \in 2..Len(b)
  <2>1. b # <<>>
    BY <1>2, SeqIndices
  <2>2. /\ IsSeq(t) /\ Len(t) = Len(b) - 1
        /\ \A i \in 1..(Len(b) - 1) : t[i] = b[i + 1]
    BY <1>2, <2>1, SeqTail
  <2> HIDE DEF t
  <2>3. Len(t) \in Nat /\ (t = <<>> <=> Len(t) = 0)
    BY <2>2, SeqIndices
  <2> QED BY <1>2, <2>2, <2>3
<1>4. writer' = [pc |-> IF t = <<>> THEN "select" ELSE "sending", batch |-> t, picture |-> <<>>]
  BY <1>2 DEF Sending
<1> HIDE DEF t
<1>5. /\ writer'.pc = (IF t = <<>> THEN "select" ELSE "sending") /\ writer'.batch = t /\ writer'.picture = <<>>
      /\ writer' = [pc |-> writer'.pc, batch |-> writer'.batch, picture |-> writer'.picture]
  BY <1>4
<1>6. GameShape' /\ LoopShape' /\ FramesShape' /\ EncShape' /\ QueuedShape' /\ Texts(outText)'
  BY <1>1 DEF Shape, GameShape, LoopShape, FramesShape, EncShape, QueuedShape, Texts, Timely
<1>7. WriterShape'
  <2>1. ASSUME NEW i \in 1..Len(t)
        PROVE  /\ t[i].epoch \in 0..epoch
               /\ \/ t[i].kind \in TextKinds
                  \/ t[i] \in Picture /\ Timely(t[i]) /\ i = Len(t)
    BY <1>1, <1>3 DEF WriterShape
  <2> QED BY <1>1, <1>3, <1>5, <2>1 DEF WriterShape, Timely
<1>8. PageShape' /\ page'.epoch \in 0..epoch
  <2>1. page'.epoch \in 0..epoch
    BY <1>2
  <2>2. CASE m.kind = "picture"
    <3>1. Drawn(m) \in Drawing /\ Drawn(m).shows # None /\ Drawn(m).line = page.epoch
      BY <1>2, <2>2 DEF Drawn, Drawing, Picture, Timely, ContentAssumption
    <3> QED BY <1>1, <2>1, <2>2, <3>1 DEF PageShape
  <2>3. CASE m.kind # "picture" /\ page'.epoch # page.epoch
    BY <1>1, <2>1, <2>3 DEF PageShape
  <2>4. CASE m.kind # "picture" /\ page'.epoch = page.epoch
    BY <1>1, <2>1, <2>4 DEF PageShape
  <2> QED BY <2>1, <2>2, <2>3, <2>4
<1>9. Told'
  <2>1. /\ IsSeq(Coming) /\ Coming # <<>> /\ Coming[1] = m
        /\ \A i \in 1..Len(Coming) : Coming[i].epoch \in 0..epoch
    BY <1>1, <1>2, ComingShape, SeqIndices
  <2>2. Coming' = Tail(Coming)
    <3>1. Tail(b \o outText) = t \o outText
      BY <1>1, <1>2, SeqIndices, SeqJoinedTail DEF Texts, t
    <3> QED BY <1>1, <1>5, <3>1 DEF Coming
  <2> DEFINE pd == writer'.pc
             q == page'.epoch
  <2>3. \A i \in 2..Len(Coming) : Counts(Coming[i], pd, epoch) => Counts(Coming[i], "sending", epoch)
    BY DEF Counts
  <2>4. InOrder(Coming, "sending", page.epoch, epoch) /\ page.epoch \in Nat /\ q \in Nat /\ page.epoch <= epoch
    BY <1>1, <1>2, <1>8 DEF Told
  <2>5. q = IF Coming[1].kind = "restored" THEN Coming[1].epoch ELSE page.epoch
    BY <2>1
  <2> HIDE DEF pd, q
  <2>6. /\ InOrder(Tail(Coming), pd, q, epoch)
        /\ ToldOf(Coming, page.epoch, epoch) => ToldOf(Tail(Coming), q, epoch)
        /\ UnsaidIn(Coming, epoch) => UnsaidIn(Tail(Coming), epoch)
    BY <1>1, <2>1, <2>3, <2>4, <2>5, InOrderTail
  <2> QED BY <1>1, <2>2, <2>6 DEF Told, pd, q
<1>10. Untold'
  <2>1. SUFFICES ASSUME loop.pc = "restored" PROVE Untold'
    BY <1>1 DEF Untold
  <2>2. page'.epoch # epoch
    <3>1. 1 \in 1..Len(Coming) /\ Coming[1] = m
      BY <1>1, <1>2, ComingShape
    <3>2. ~Restores(m, epoch)
      BY <1>1, <2>1, <3>1 DEF Told, UnsaidIn
    <3> QED BY <1>1, <2>1, <3>2 DEF Untold, Restores
  <2>3. \A i \in 1..Len(t) : t[i].kind = "picture" => t[i].epoch # epoch
    BY <1>1, <1>3, <2>1 DEF Untold
  <2> QED BY <1>1, <1>5, <2>1, <2>2, <2>3 DEF Untold
<1>11. /\ EndsInPicture' => EndsInPicture /\ BatchPicture' = BatchPicture /\ m.kind # "picture"
       /\ EndsInPicture /\ m.kind # "picture" => EndsInPicture' /\ BatchPicture' = BatchPicture
       /\ m.kind = "picture" => EndsInPicture /\ BatchPicture = m
  <2>1. b # <<>> /\ (Len(t) # 0 => t[Len(t)] = b[Len(b)]) /\ (Len(t) = 0 => b[Len(b)] = m)
    BY <1>2, <1>3, SeqIndices
  <2> QED BY <1>2, <1>3, <1>5, <2>1 DEF EndsInPicture, BatchPicture
<1>12. /\ EndsInPicture /\ m.kind # "picture" =>
            /\ m.kind = "restored" => m.epoch <= BatchPicture.epoch
            /\ BatchPicture.base \in {NoPicture, OnCanvas(BatchPicture.epoch)}
            /\ BatchPicture.epoch \in 0..epoch
  <2>1. SUFFICES ASSUME EndsInPicture, m.kind # "picture"
                 PROVE  /\ m.kind = "restored" => m.epoch <= BatchPicture.epoch
                        /\ BatchPicture.base \in {NoPicture, OnCanvas(BatchPicture.epoch)}
                        /\ BatchPicture.epoch \in 0..epoch
    OBVIOUS
  <2>2. Counts(BatchPicture, "sending", epoch) /\ (m.kind = "restored" => Counts(m, "sending", epoch))
    BY <2>1 DEF Counts, EndsInPicture
  <2>3. /\ 1 \in 1..Len(Coming) /\ Len(b) \in 1..Len(Coming) /\ 1 < Len(b)
        /\ Coming[1] = m /\ Coming[Len(b)] = BatchPicture /\ Coming[Len(b)].epoch \in 0..epoch
    <3>1. Len(b) # 1
      BY <1>2, <2>1 DEF EndsInPicture, BatchPicture
    <3>2. /\ Len(Coming) = Len(b) + Len(outText) /\ Len(outText) \in Nat
          /\ \A i \in 1..Len(Coming) :
                /\ Coming[i] = IF i <= Len(b) THEN b[i] ELSE outText[i - Len(b)]
                /\ Coming[i].epoch \in 0..epoch
      BY <1>1, ComingShape
    <3>3. 1 \in 1..Len(Coming) /\ Len(b) \in 1..Len(Coming) /\ 1 < Len(b) /\ 1 <= Len(b)
      <4>1. ASSUME NEW n \in Nat \ {0}, NEW k \in Nat, n # 1
            PROVE  1 \in 1..(n + k) /\ n \in 1..(n + k) /\ 1 < n /\ 1 <= n
        <5>1. 1 <= n /\ n \in Int /\ k \in Int /\ 0 <= k
          OBVIOUS
        <5>2. 1 < n
          BY <5>1, <4>1
        <5>3. 1 <= n + k /\ n <= n + k
          BY <5>1
        <5> QED BY <5>1, <5>2, <5>3
      <4>2. Len(b) \in Nat \ {0} /\ Len(outText) \in Nat /\ Len(b) # 1 /\ Len(Coming) = Len(b) + Len(outText)
        BY <1>2, <3>1, <3>2
      <4> HIDE DEF b
      <4> QED BY <4>1, <4>2
    <3>4. Coming[1] = b[1] /\ Coming[Len(b)] = b[Len(b)] /\ Coming[Len(b)].epoch \in 0..epoch
      <4>1. 1 <= Len(b) /\ Len(b) <= Len(b)
        BY <3>3, <3>2
      <4> HIDE DEF b
      <4> QED BY <4>1, <3>2, <3>3
    <3>5. BatchPicture = b[Len(b)] /\ b[1] = m
      BY <1>2 DEF BatchPicture
    <3> HIDE DEF b
    <3> QED BY <3>3, <3>4, <3>5
  <2>4. m.kind = "restored" => m.epoch <= BatchPicture.epoch
    BY <1>1, <1>2, <2>2, <2>3 DEF Told, InOrder
  <2> QED BY <1>1, <1>2, <2>1, <2>2, <2>3, <2>4 DEF Chain, WritersChain
<1>13. ASSUME NEW e \in 0..epoch, m.kind = "restored" => m.epoch <= e, m.kind # "picture" PROVE OnCanvas(e)' = OnCanvas(e)
  <2>1. CASE page'.epoch = page.epoch
    BY <1>2, <1>13, <2>1 DEF OnCanvas
  <2>2. CASE page'.epoch # page.epoch
    <3>1. page.epoch < m.epoch /\ m.epoch <= e /\ page'.canvas = NoPicture
      BY <1>2, <1>13, <2>2
    <3>2. page.epoch # e
      BY <1>2, <3>1
    <3> QED BY <3>1, <3>2 DEF OnCanvas
  <2> QED BY <2>1, <2>2
<1>14. WithWriters(epoch)' = WithWriters(epoch)
  <2>1. CASE m.kind # "picture"
    <3>1. OnCanvas(epoch)' = OnCanvas(epoch)
      BY <1>1, <1>2, <1>13, <2>1
    <3>2. EndsInPicture' <=> EndsInPicture
      BY <1>11, <2>1
    <3>3. EndsInPicture => BatchPicture' = BatchPicture
      BY <1>11, <2>1
    <3> QED BY <1>1, <1>2, <1>5, <3>1, <3>2, <3>3 DEF WithWriters
  <2>2. CASE m.kind = "picture"
    <3>1. EndsInPicture /\ BatchPicture = m /\ ~EndsInPicture' /\ page'.epoch = m.epoch /\ page'.canvas = Drawn(m)
          /\ page.epoch = m.epoch
      BY <1>2, <1>11, <2>2
    <3> QED BY <1>1, <1>2, <1>5, <3>1 DEF WithWriters, OnCanvas
  <2> QED BY <2>1, <2>2
<1>15. WithQueued' = WithQueued
  BY <1>1, <1>14 DEF WithQueued
<1>16. Chain'
  <2>1. EncodersChain'
    BY <1>1, <1>14, <1>15 DEF Chain, EncodersChain
  <2>2. (EndsInPicture /\ Counts(BatchPicture, writer.pc, epoch) =>
            BatchPicture.base \in {NoPicture, OnCanvas(BatchPicture.epoch)})'
    <3>1. SUFFICES ASSUME EndsInPicture'
                   PROVE  (BatchPicture.base \in {NoPicture, OnCanvas(BatchPicture.epoch)})'
      OBVIOUS
    <3>2. PICK p : p = BatchPicture
      OBVIOUS
    <3>3. BatchPicture' = p /\ EndsInPicture /\ m.kind # "picture"
      BY <1>11, <3>1, <3>2
    <3>4. p.base \in {NoPicture, OnCanvas(p.epoch)} /\ p.epoch \in 0..epoch /\ (m.kind = "restored" => m.epoch <= p.epoch)
      BY <1>12, <3>2, <3>3
    <3>5. PICK e \in 0..epoch : e = p.epoch
      BY <3>4
    <3>6. OnCanvas(e)' = OnCanvas(e)
      BY <1>13, <3>3, <3>4, <3>5
    <3> QED BY <3>3, <3>4, <3>5, <3>6
  <2>3. WritersChain'
    BY <1>5, <2>2 DEF WritersChain
  <2> QED BY <2>1, <2>3 DEF Chain
<1>17. FirstSeen'
  BY <1>1, <1>15 DEF PicturesInv, FirstSeen, Running, Seen
<1> QED BY <1>6, <1>7, <1>8, <1>9, <1>10, <1>16, <1>17 DEF PicturesInv, Shape

LEMMA PageStepKeeps ==
    ASSUME ContentAssumption, PicturesInv, PageStep
    PROVE  PicturesInv'
<1>1. PICK m : \/ ReceivesPicture(m)
               \/ \E refused \in BOOLEAN : ReceivesSound(m, refused)
               \/ ReceivesRestored(m) \/ ReceivesStarted(m) \/ ReceivesAnswer(m)
  BY DEF PageStep
<1>2. Receives(m) /\ UNCHANGED pageFar
  BY <1>1 DEF ReceivesPicture, ReceivesSound, ReceivesRestored, ReceivesStarted, ReceivesAnswer,
     pageUnchanged, pageFar
<1>3. /\ page = [epoch |-> page.epoch, canvas |-> page.canvas, table |-> page.table,
                 sounding |-> page.sounding, pending |-> page.pending, skipped |-> page.skipped]
  BY DEF PicturesInv, Shape, PageShape
<1> DEFINE record == [epoch |-> page'.epoch, canvas |-> page'.canvas, table |-> page'.table,
                      sounding |-> page'.sounding, pending |-> page'.pending, skipped |-> page'.skipped]
<1>4. CASE ReceivesPicture(m)
  <2>1. m.base \in {NoPicture, page.canvas} /\ m.kind = "picture"
    BY <1>2, <1>4, HeadFacts DEF ReceivesPicture
  <2>2. page' = [page EXCEPT !.canvas = Drawn(m)]
    BY <1>4, <2>1 DEF ReceivesPicture, Drawn
  <2>3. page' = record /\ page'.epoch = page.epoch /\ page'.canvas = Drawn(m)
    BY <1>3, <2>2
  <2> QED BY <1>2, <2>1, <2>3, PageKeeps
<1>5. ASSUME NEW refused \in BOOLEAN, ReceivesSound(m, refused) PROVE PicturesInv'
  <2> DEFINE d == Decode(page.table, page.sounding, m.wire)
             p == [page EXCEPT !.table = d.table, !.skipped = @ \/ d.skipped]
  <2>1. \/ page' = p
        \/ page' = [p EXCEPT !.pending = FALSE, !.sounding = d.sounding]
        \/ Recovers([p EXCEPT !.pending = FALSE])
    BY <1>5 DEF ReceivesSound
  <2>2. \/ page' = p
        \/ page' = [p EXCEPT !.pending = FALSE, !.sounding = d.sounding]
        \/ page' = [[p EXCEPT !.pending = FALSE] EXCEPT !.pending = TRUE, !.sounding = {}]
        \/ page' = [p EXCEPT !.pending = FALSE]
    BY <2>1, Zenon DEF Recovers
  <2>3. /\ p = [epoch |-> p.epoch, canvas |-> p.canvas, table |-> p.table,
                sounding |-> p.sounding, pending |-> p.pending, skipped |-> p.skipped]
        /\ p.epoch = page.epoch /\ p.canvas = page.canvas
    <3> DEFINE x == d.table
               y == page.skipped \/ d.skipped
    <3>1. p = [page EXCEPT !.table = x, !.skipped = y]
      OBVIOUS
    <3> HIDE DEF x, y, p
    <3> QED BY <1>3, <3>1
  <2> HIDE DEF p, d
  <2>4. page' = record /\ page'.epoch = page.epoch /\ page'.canvas = page.canvas
    BY <2>2, <2>3
  <2>5. m.kind = "audio"
    BY <1>5 DEF ReceivesSound
  <2> QED BY <1>2, <2>4, <2>5, PageKeeps
<1>6. CASE ReceivesRestored(m)
  <2>1. m.kind = "restored" /\ page.epoch <= m.epoch /\ m.epoch \in Nat /\ page.epoch \in Nat
    BY <1>2, <1>6, HeadFacts DEF ReceivesRestored
  <2>2. page' = IF m.epoch <= page.epoch THEN page
               ELSE [epoch |-> m.epoch, canvas |-> NoPicture, table |-> {}, sounding |-> {},
                     pending |-> FALSE, skipped |-> page.skipped]
    BY <1>6 DEF ReceivesRestored
  <2>3. /\ page' = record /\ page'.epoch = m.epoch
        /\ page'.canvas = IF m.epoch # page.epoch THEN NoPicture ELSE page.canvas
    <3>1. CASE m.epoch <= page.epoch
      <4>1. page' = page /\ page.epoch = m.epoch
        BY <2>1, <2>2, <3>1
      <4> QED BY <1>3, <4>1
    <3>2. CASE ~(m.epoch <= page.epoch)
      <4>1. page.epoch # m.epoch
        BY <2>1, <3>2
      <4>2. page' = [epoch |-> m.epoch, canvas |-> NoPicture, table |-> {}, sounding |-> {},
                     pending |-> FALSE, skipped |-> page.skipped]
        BY <2>2, <3>2
      <4> QED BY <4>1, <4>2
    <3> QED BY <3>1, <3>2
  <2> QED BY <1>2, <2>1, <2>3, PageKeeps
<1>7. CASE ReceivesStarted(m)
  <2>1. m.kind = "started" /\ m.epoch = page.epoch
    BY <1>2, <1>7, HeadFacts DEF ReceivesStarted
  <2>2. page' = [page EXCEPT !.epoch = m.epoch, !.pending = FALSE]
    BY <1>7 DEF ReceivesStarted
  <2>3. page' = record /\ page'.epoch = page.epoch /\ page'.canvas = page.canvas
    BY <1>3, <2>1, <2>2
  <2> QED BY <1>2, <2>1, <2>3, PageKeeps
<1>8. CASE ReceivesAnswer(m)
  <2>1. m.kind \in {"result", "error"} /\ page' = page
    BY <1>8 DEF ReceivesAnswer
  <2>2. page' = record /\ page'.epoch = page.epoch /\ page'.canvas = page.canvas
    BY <1>3, <2>1
  <2> QED BY <1>2, <2>1, <2>2, PageKeeps
<1> QED BY <1>1, <1>4, <1>5, <1>6, <1>7, <1>8

-----------------------------------------------------------------------------
(***************************************************************************)
(* The theorems.                                                           *)
(***************************************************************************)
LEMMA PicturesInit == Init => PicturesInv
<1> SUFFICES ASSUME Init PROVE PicturesInv
  OBVIOUS
<1>1. /\ epoch = 0 /\ frames = <<>> /\ outFrames = <<>> /\ outText = <<>>
      /\ game = [on |-> FALSE, shows |-> None, flushed |-> FALSE, sounding |-> {}, epoch |-> 0, line |-> 0]
      /\ loop = [pc |-> "run", then |-> "run", force |-> FALSE, needsReset |-> FALSE,
                 audio |-> FALSE, defs |-> NoDefinitions]
      /\ enc = [pc |-> "idle", epoch |-> 0, base |-> NoPicture, frame |-> <<>>]
      /\ writer = [pc |-> "select", batch |-> <<>>, picture |-> <<>>]
      /\ page = [epoch |-> 0, canvas |-> NoPicture, table |-> {}, sounding |-> {},
                 pending |-> FALSE, skipped |-> FALSE]
  BY DEF Init
<1>2. GameShape /\ LoopShape /\ FramesShape /\ QueuedShape
  BY <1>1 DEF GameShape, LoopShape, LoopRecord, Places, FramesShape, QueuedShape
<1>3. EncShape /\ PageShape
  BY <1>1 DEF EncShape, PageShape, NoPicture, Drawing
<1>4. Texts(outText) /\ WriterShape
  BY <1>1, EmptyIsSeq DEF Texts, WriterShape
<1>5. Told
  <2>1. Coming = <<>>
    BY <1>1, SeqJoined, EmptyIsSeq DEF Coming
  <2> QED BY <1>1, <2>1, EmptyIsSeq DEF Told, InOrder, ToldOf
<1>6. Untold /\ FirstSeen
  BY <1>1 DEF Untold, FirstSeen, Running
<1>7. Chain
  BY <1>1 DEF Chain, WritersChain, EncodersChain, EndsInPicture
<1> QED BY <1>2, <1>3, <1>4, <1>5, <1>6, <1>7 DEF PicturesInv, Shape

LEMMA PicturesStep ==
    ASSUME ContentAssumption, PicturesInv, [Next]_vars
    PROVE  PicturesInv'
<1>1. CASE LoopStep
  <2>1. CASE HandlesCommand
    BY <2>1, RefusesKeeps, HandlesScaleKeeps, HandlesAudioResumeKeeps, ClosesKeeps, QuickLoadsKeeps,
       HandlesResumeKeeps DEF HandlesCommand
  <2> QED BY <1>1, <2>1, TickEndsKeeps, FlushesSoundKeeps, WaitsToRebuildKeeps, RebuildsSoundKeeps,
          SilencesPageKeeps, AnswersKeeps, StartedKeeps, PushesFirstKeeps, TellsRestoredKeeps,
          RebuildsLoadedKeeps, PushesLoadedKeeps DEF LoopStep
<1>2. CASE EncoderStep
  BY <1>2, TakesFrameKeeps, EncodesFrameKeeps, HandsPictureKeeps DEF EncoderStep
<1>3. CASE WriterStep
  BY <1>3, TakesTextKeeps, TakesPictureKeeps, GoesWithoutPictureKeeps, AppendsPictureKeeps, WritesKeeps
     DEF WriterStep
<1>4. CASE PageStep
  BY <1>4, PageStepKeeps
<1>5. CASE Environment
  BY <1>5, GuestKeeps, OffersKeeps, ClosesKeeps DEF Environment
<1>6. CASE UNCHANGED vars
  <2>1. UNCHANGED loopAlone /\ game' = game /\ loop' = loop /\ frames' = frames /\ outText' = outText
        /\ Shape /\ GameShape /\ LoopShape
    BY <1>6 DEF vars, loopAlone, PicturesInv, Shape
  <2>2. GameShape' /\ LoopShape' /\ (Running' => Running)
    BY <2>1 DEF GameShape, LoopShape, Running, loopAlone
  <2> QED BY <2>1, <2>2, SpeaksKeeps
<1> QED BY <1>1, <1>2, <1>3, <1>4, <1>5, <1>6 DEF Next

\* What an update drawn over another picture than it was made from, or a
\* picture of a replaced game, would break.
LEMMA CanvasFollows == ContentAssumption /\ PicturesInv => CanvasIsTrue
<1> SUFFICES ASSUME ContentAssumption, PicturesInv PROVE CanvasIsTrue
  OBVIOUS
<1>1. \/ page.canvas = NoPicture
      \/ page.canvas \in Drawing /\ page.canvas.shows # None /\ page.canvas.line = page.epoch
  BY DEF PicturesInv, Shape, PageShape
<1>2. None # "garbage"
  BY DEF None
<1>3. page.canvas.shows # "garbage"
  BY <1>1, <1>2 DEF ContentAssumption, NoPicture, Drawing
<1>4. Garbage.shows = "garbage"
  BY DEF Garbage
<1> QED BY <1>1, <1>3, <1>4 DEF CanvasIsTrue

LEMMA FirstPictureFollows == PicturesInv => FirstPictureArrives
<1> SUFFICES ASSUME PicturesInv, loop.pc = "run", game.on, ~loop.force, frames = <<>>, ~Encoding, outFrames = <<>>,
                    writer.pc = "select"
             PROVE  page.canvas # NoPicture /\ page.canvas.line = epoch
  BY DEF FirstPictureArrives
<1>1. FirstSeen /\ EncShape /\ WriterShape /\ PageShape
  BY DEF PicturesInv, Shape
<1>2. enc.frame = <<>> /\ writer.batch = <<>> /\ writer.picture = <<>>
  BY <1>1 DEF Encoding, EncShape, WriterShape
<1>3. WithQueued # NoPicture
  BY <1>1, <1>2 DEF FirstSeen, Running, Seen
<1>4. OnCanvas(epoch) # NoPicture
  BY <1>2, <1>3 DEF WithQueued, WithWriters, EndsInPicture
<1> QED BY <1>1, <1>4 DEF OnCanvas, PageShape

\* Nothing the queues still held of a replaced game is drawn after the page was
\* told of the load, no picture of the loaded game before, and no update over
\* another picture than the one it was made from: pushFrame, encodeFrames,
\* writeMessages and the page's frame stream.
THEOREM CanvasStaysTrue ==
    ASSUME ContentAssumption
    PROVE  Spec => []CanvasIsTrue
<1>1. Init => PicturesInv
  BY PicturesInit
<1>2. PicturesInv /\ [Next]_vars => PicturesInv'
  BY PicturesStep
<1>3. PicturesInv => CanvasIsTrue
  BY CanvasFollows
<1> QED BY <1>1, <1>2, <1>3, PTL DEF Spec

\* A game's first picture is not lost to a full queue, whoever else uses it.
THEOREM FirstPictureIsNotLost ==
    ASSUME ContentAssumption
    PROVE  Spec => []FirstPictureArrives
<1>1. Init => PicturesInv
  BY PicturesInit
<1>2. PicturesInv /\ [Next]_vars => PicturesInv'
  BY PicturesStep
<1>3. PicturesInv => FirstPictureArrives
  BY FirstPictureFollows
<1> QED BY <1>1, <1>2, <1>3, PTL DEF Spec

-----------------------------------------------------------------------------
(***************************************************************************)
(* Sounds: sequences written out.                                          *)
(***************************************************************************)
\* Joined to what is written out.
LEMMA SeqJoinedOne ==
    ASSUME NEW s, IsSeq(s), NEW a
    PROVE  s \o <<a>> = Append(s, a)
<1>1. PICK S : s \in Seq(S)
  BY DEF IsSeq
<1>2. s \in Seq(S \cup {a}) /\ a \in S \cup {a}
  BY <1>1, SeqMonotonic
<1> QED BY <1>2, AppendIsConcat

LEMMA SeqJoinedTwo ==
    ASSUME NEW s, IsSeq(s), NEW t, IsSeq(t), Len(t) = 2
    PROVE  s \o t = Append(Append(s, t[1]), t[2])
<1> DEFINE u == s \o t
           v == Append(s, t[1])
           w == Append(v, t[2])
<1>1. /\ IsSeq(u) /\ Len(u) = Len(s) + 2 /\ Len(s) \in Nat
      /\ \A i \in 1..(Len(s) + 2) : u[i] = IF i <= Len(s) THEN s[i] ELSE t[i - Len(s)]
  <2>1. /\ IsSeq(u) /\ Len(u) = Len(s) + Len(t)
        /\ \A i \in 1..(Len(s) + Len(t)) : u[i] = IF i <= Len(s) THEN s[i] ELSE t[i - Len(s)]
    BY SeqJoined, Zenon
  <2> HIDE DEF u
  <2>2. Len(s) \in Nat
    BY SeqIndices
  <2> QED BY <2>1, <2>2
<1>2. /\ IsSeq(v) /\ Len(v) = Len(s) + 1
      /\ \A i \in 1..Len(s) : v[i] = s[i]
      /\ v[Len(s) + 1] = t[1]
  BY SeqAppended
<1> HIDE DEF u, v
<1>3. /\ IsSeq(w) /\ Len(w) = Len(v) + 1
      /\ \A i \in 1..Len(v) : w[i] = v[i]
      /\ w[Len(v) + 1] = t[2]
  BY <1>2, SeqAppended
<1> HIDE DEF w
<1>4. ASSUME NEW i \in 1..Len(u) PROVE u[i] = w[i]
  <2>1. CASE i \in 1..Len(s)
    BY <2>1, <1>1, <1>2, <1>3
  <2>2. CASE i = Len(s) + 1
    BY <2>2, <1>1, <1>2, <1>3
  <2>3. CASE i = Len(s) + 2
    BY <2>3, <1>1, <1>2, <1>3
  <2> QED BY <2>1, <2>2, <2>3, <1>1
<1>5. PICK S, T : u \in Seq(S) /\ w \in Seq(T)
  BY <1>1, <1>3 DEF IsSeq
<1>6. u \in Seq(S \cup T) /\ w \in Seq(S \cup T)
  BY <1>5, SeqMonotonic
<1>7. u = w
  BY <1>1, <1>2, <1>3, <1>4, <1>6, SeqEqual
<1> QED BY <1>7 DEF u, v, w

-----------------------------------------------------------------------------
(***************************************************************************)
(* What numbers the page knows while it takes a message: K before, K2 after. *)
(***************************************************************************)
OpNames == {"forget", "define", "allOff", "stop", "start"}
WireOk(w) == IsSeq(w) /\ \A j \in 1..Len(w) : w[j].op \in OpNames

OpPasses(K, o, K2) ==
    /\ o.op = "forget" => K2 = {}
    /\ o.op = "define" => K2 \subseteq K \cup {o.id}
    /\ o.op # "define" => K2 \subseteq K
    /\ o.op = "start" => o.id \in K

WireBy(w, k, K, K2) ==
    /\ k[0] \subseteq K /\ K2 \subseteq k[Len(w)]
    /\ \A j \in 1..Len(w) : OpPasses(k[j - 1], w[j], k[j])
WirePasses(w, K, K2) == \E k : WireBy(w, k, K, K2)

\* What a wire names, and whether it is what the numbers stand for.
NamedBy(w) == {<<w[j].id, w[j].sound>> : j \in {i \in 1..Len(w) : w[i].op = "define"}}
Named(id, t, defs) == id \in 1..defs.last /\ \A s \in Sounds : defs.ids[s] = id => t = s
AllNamed(E, defs) == \A x \in E : Named(x[1], x[2], defs)

LEMMA WireNone == ASSUME NEW K PROVE WirePasses(<<>>, K, K) /\ WireOk(<<>>) /\ NamedBy(<<>>) = {}
<1> DEFINE k == [j \in {0} |-> K]
<1>1. WireBy(<<>>, k, K, K)
  BY EmptyIsSeq DEF WireBy
<1> HIDE DEF k
<1> QED BY <1>1, EmptyIsSeq DEF WirePasses, WireOk, NamedBy

\* One operation more.
Grown(w, o, K, K3) ==
    /\ WirePasses(Append(w, o), K, K3) /\ WireOk(Append(w, o))
    /\ NamedBy(Append(w, o)) = NamedBy(w) \cup (IF o.op = "define" THEN {<<o.id, o.sound>>} ELSE {})

LEMMA WireMore ==
    ASSUME NEW w, NEW K, NEW K2, NEW K3, NEW o, WireOk(w), WirePasses(w, K, K2), OpPasses(K2, o, K3),
           o.op \in OpNames
    PROVE  Grown(w, o, K, K3)
<1> DEFINE u == Append(w, o)
<1>1. /\ IsSeq(u) /\ Len(u) = Len(w) + 1 /\ Len(w) \in Nat
      /\ \A i \in 1..Len(w) : u[i] = w[i]
      /\ u[Len(w) + 1] = o
  BY SeqAppended, SeqIndices DEF WireOk
<1> HIDE DEF u
<1>2. PICK k : WireBy(w, k, K, K2)
  BY DEF WirePasses
<1> DEFINE g == [j \in 0..Len(u) |-> IF j = Len(u) THEN K3 ELSE k[j]]
<1>3. /\ \A j \in 0..Len(w) : g[j] = k[j]
      /\ g[Len(u)] = K3
  BY <1>1
<1> HIDE DEF g
<1>4. OpPasses(k[Len(w)], o, K3)
  BY <1>2 DEF WireBy, OpPasses
<1>5. ASSUME NEW j \in 1..Len(u) PROVE OpPasses(g[j - 1], u[j], g[j])
  <2>1. CASE j \in 1..Len(w)
    <3>1. g[j - 1] = k[j - 1] /\ g[j] = k[j] /\ u[j] = w[j]
      BY <1>1, <1>3, <2>1
    <3> QED BY <1>2, <2>1, <3>1 DEF WireBy
  <2>2. CASE j = Len(w) + 1
    <3>1. g[j - 1] = k[Len(w)] /\ g[j] = K3 /\ u[j] = o
      BY <1>1, <1>3, <2>2
    <3> QED BY <1>4, <3>1
  <2> QED BY <1>1, <2>1, <2>2
<1>6. WireBy(u, g, K, K3)
  BY <1>1, <1>2, <1>3, <1>5 DEF WireBy
<1>7. WireOk(u)
  BY <1>1 DEF WireOk
<1>8. NamedBy(u) = NamedBy(w) \cup (IF o.op = "define" THEN {<<o.id, o.sound>>} ELSE {})
  <2>1. ASSUME NEW x \in NamedBy(u) PROVE x \in NamedBy(w) \cup (IF o.op = "define" THEN {<<o.id, o.sound>>} ELSE {})
    BY <1>1 DEF NamedBy
  <2>2. ASSUME NEW x \in NamedBy(w) PROVE x \in NamedBy(u)
    BY <1>1 DEF NamedBy
  <2>3. o.op = "define" => <<o.id, o.sound>> \in NamedBy(u)
    <3>1. Len(w) + 1 \in 1..Len(u)
      BY <1>1
    <3> QED BY <1>1, <3>1 DEF NamedBy
  <2> QED BY <2>1, <2>2, <2>3
<1> QED BY <1>6, <1>7, <1>8 DEF WirePasses, Grown, u

LEMMA WireLess ==
    ASSUME NEW w, NEW K, NEW K2, NEW L, NEW L2, WirePasses(w, K, K2), K \subseteq L, L2 \subseteq K2
    PROVE  WirePasses(w, L, L2)
BY DEF WirePasses, WireBy
-----------------------------------------------------------------------------
(***************************************************************************)
(* The loop's end of the definitions.                                      *)
(***************************************************************************)
DefsShape(d) ==
    /\ d = [ids |-> d.ids, last |-> d.last, forget |-> d.forget]
    /\ d.ids \in [Sounds -> Nat] /\ d.last \in Nat /\ d.forget \in BOOLEAN
    /\ \A s \in Sounds : d.ids[s] <= d.last
    /\ d.forget => \A s \in Sounds : d.ids[s] = 0

\* The numbers in use are known, and a number is never used again.
Held(d, K) == \A s \in Sounds : d.ids[s] # 0 => d.ids[s] \in K
After(d, old) ==
    /\ old.last <= d.last
    /\ \A s \in Sounds : d.ids[s] # 0 /\ d.ids[s] <= old.last => d.ids[s] = old.ids[s]

EventOk(x) == x.op \in {"start", "stop", "allOff"} /\ (x.op = "start" => x.sound \in Sounds)
EventsOk(s) == IsSeq(s) /\ \A i \in 1..Len(s) : EventOk(s[i])

EncodedFrom(e, K, old) ==
    /\ e = [defs |-> e.defs, wire |-> e.wire]
    /\ DefsShape(e.defs) /\ e.defs.forget = FALSE /\ WireOk(e.wire)
    /\ \E K2 : WirePasses(e.wire, K, K2) /\ Held(e.defs, K2)
    /\ AllNamed(NamedBy(e.wire), e.defs)
    /\ After(e.defs, old)

\* What was named stays named.
LEMMA NamedStays ==
    ASSUME NEW d, NEW old, DefsShape(d), DefsShape(old), After(d, old), NEW E, AllNamed(E, old)
    PROVE  AllNamed(E, d)
<1> SUFFICES ASSUME NEW x \in E PROVE Named(x[1], x[2], d)
  BY DEF AllNamed
<1>1. x[1] \in 1..old.last /\ \A s \in Sounds : old.ids[s] = x[1] => x[2] = s
  BY DEF AllNamed, Named
<1>2. old.last \in Nat /\ d.last \in Nat /\ old.last <= d.last
  BY DEF DefsShape, After
<1>3. ASSUME NEW s \in Sounds, d.ids[s] = x[1] PROVE x[2] = s
  BY <1>1, <1>2, <1>3 DEF After
<1> QED BY <1>1, <1>2, <1>3 DEF Named

LEMMA NamedMore ==
    ASSUME NEW d, NEW E, NEW F, AllNamed(E, d), AllNamed(F, d)
    PROVE  AllNamed(E \cup F, d)
BY DEF AllNamed

\* A sound that has a number is started by it.
LEMMA KnownStart ==
    ASSUME NEW e, NEW K, NEW old, EncodedFrom(e, K, old), NEW o, o.op \in OpNames, o.op \notin {"define", "forget"},
           o.op = "start" => \E s \in Sounds : o.id = e.defs.ids[s] /\ o.id # 0
    PROVE  EncodedFrom(Encoded(e.defs, Append(e.wire, o)), K, old)
<1>1. PICK K2 : WirePasses(e.wire, K, K2) /\ Held(e.defs, K2)
  BY DEF EncodedFrom
<1>2. OpPasses(K2, o, K2)
  BY <1>1 DEF Held, OpPasses
<1>3. /\ WirePasses(Append(e.wire, o), K, K2) /\ WireOk(Append(e.wire, o))
      /\ NamedBy(Append(e.wire, o)) = NamedBy(e.wire)
  <2>1. Grown(e.wire, o, K, K2)
    <3>1. WireOk(e.wire)
      BY DEF EncodedFrom
    <3> QED BY <1>1, <1>2, <3>1, WireMore
  <2>2. o.op # "define"
    OBVIOUS
  <2> QED BY <2>1, <2>2 DEF Grown
<1> DEFINE u == Append(e.wire, o)
           r == Encoded(e.defs, u)
<1> HIDE DEF u
<1>4. r.defs = e.defs /\ r.wire = u /\ r = [defs |-> r.defs, wire |-> r.wire]
  BY DEF Encoded
<1> HIDE DEF r
<1>5. WirePasses(u, K, K2) /\ WireOk(u) /\ NamedBy(u) = NamedBy(e.wire)
  BY <1>3 DEF u
<1>6. DefsShape(e.defs) /\ AllNamed(NamedBy(e.wire), e.defs) /\ After(e.defs, old) /\ e.defs.forget = FALSE
  BY DEF EncodedFrom
<1>7. EncodedFrom(r, K, old)
  BY <1>1, <1>4, <1>5, <1>6, Zenon DEF EncodedFrom
<1> QED BY <1>7 DEF r, u

\* A sound that has none is given the next, after all are forgotten or not.
LEMMA NewStart ==
    ASSUME NEW e, NEW K, NEW old, DefsShape(old), EncodedFrom(e, K, old), NEW s \in Sounds, e.defs.ids[s] = 0
    PROVE  EncodedFrom(Reference(e, s), K, old)
<1> DEFINE full == Cardinality({x \in Sounds : e.defs.ids[x] # 0}) >= Budget
           kept == IF full THEN [x \in Sounds |-> 0] ELSE e.defs.ids
           id == e.defs.last + 1
           d == [e.defs EXCEPT !.ids = [kept EXCEPT ![s] = id], !.last = id]
           F == [op |-> "forget"]
           D == [op |-> "define", id |-> id, sound |-> s]
           S == [op |-> "start", id |-> id, sound |-> s]
           w == IF full THEN Append(e.wire, F) ELSE e.wire
           w2 == Append(w, D)
           w3 == Append(w2, S)
<1>1. /\ DefsShape(e.defs) /\ WireOk(e.wire) /\ IsSeq(e.wire)
      /\ AllNamed(NamedBy(e.wire), e.defs) /\ After(e.defs, old)
  BY DEF EncodedFrom, WireOk
<1>2. PICK K2 : WirePasses(e.wire, K, K2) /\ Held(e.defs, K2)
  BY DEF EncodedFrom
<1>3. Reference(e, s) = Encoded(d, w3)
  <2>1. Reference(e, s) = Encoded(d, e.wire \o (IF full THEN <<F>> ELSE <<>>) \o <<D, S>>)
    BY Zenon DEF Reference
  <2>2. e.wire \o (IF full THEN <<F>> ELSE <<>>) = w /\ IsSeq(w)
    <3>1. CASE full
      BY <1>1, <3>1, SeqJoinedOne, SeqAppended
    <3>2. CASE ~full
      BY <1>1, <3>2, SeqJoined, EmptyIsSeq
    <3> QED BY <3>1, <3>2
  <2> HIDE DEF w, full
  <2>3. w \o <<D, S>> = w3
    <3> DEFINE t == <<D, S>>
    <3>1. IsSeq(t) /\ Len(t) = 2 /\ t[1] = D /\ t[2] = S
      <4> HIDE DEF D, S
      <4>1. t \in Seq({D, S})
        OBVIOUS
      <4> QED BY <4>1 DEF IsSeq
    <3> HIDE DEF t
    <3>2. w \o t = Append(Append(w, t[1]), t[2])
      BY <2>2, <3>1, SeqJoinedTwo
    <3> QED BY <3>1, <3>2 DEF t
  <2> QED BY <2>1, <2>2, <2>3
<1> DEFINE K3 == IF full THEN {} ELSE K2
<1>4. WirePasses(w, K, K3) /\ WireOk(w) /\ NamedBy(w) = NamedBy(e.wire)
  <2>1. CASE full
    <3>1. OpPasses(K2, F, {}) /\ F.op \in OpNames /\ F.op # "define"
      BY DEF OpPasses, OpNames
    <3> HIDE DEF F
    <3>2. Grown(e.wire, F, K, {})
      BY <1>1, <1>2, <3>1, WireMore
    <3> QED BY <2>1, <3>1, <3>2 DEF Grown
  <2>2. CASE ~full
    BY <1>1, <1>2, <2>2
  <2> QED BY <2>1, <2>2
<1> HIDE DEF w
<1>5. /\ WirePasses(w2, K, K3 \cup {id}) /\ WireOk(w2)
      /\ NamedBy(w2) = NamedBy(w) \cup {<<id, s>>}
  <2>1. OpPasses(K3, D, K3 \cup {id}) /\ D.op \in OpNames /\ D.op = "define" /\ D.id = id /\ D.sound = s
    BY DEF OpPasses, OpNames
  <2> HIDE DEF D, K3, id
  <2>2. Grown(w, D, K, K3 \cup {id})
    BY <1>4, <2>1, WireMore
  <2> QED BY <2>1, <2>2 DEF Grown
<1> HIDE DEF w2
<1>6. /\ WirePasses(w3, K, K3 \cup {id}) /\ WireOk(w3)
      /\ NamedBy(w3) = NamedBy(w2)
  <2>1. OpPasses(K3 \cup {id}, S, K3 \cup {id}) /\ S.op \in OpNames /\ S.op # "define"
    BY DEF OpPasses, OpNames
  <2> HIDE DEF S, K3, id
  <2>2. Grown(w2, S, K, K3 \cup {id})
    BY <1>5, <2>1, WireMore
  <2> QED BY <2>1, <2>2 DEF Grown
<1> HIDE DEF w3
<1>7. /\ kept \in [Sounds -> Nat] /\ \A x \in Sounds : kept[x] \in {0, e.defs.ids[x]}
      /\ ~full => kept = e.defs.ids
      /\ full => \A x \in Sounds : kept[x] = 0
  BY <1>1 DEF DefsShape
<1>8. /\ e.defs.last \in Nat /\ e.defs.ids \in [Sounds -> Nat] /\ \A x \in Sounds : e.defs.ids[x] <= e.defs.last
      /\ e.defs.forget = FALSE /\ e.defs = [ids |-> e.defs.ids, last |-> e.defs.last, forget |-> e.defs.forget]
  BY <1>1 DEF DefsShape, EncodedFrom
<1> HIDE DEF full
<1>9. id \in Nat /\ id # 0 /\ id > e.defs.last
  BY <1>8
<1>10. /\ d.ids \in [Sounds -> Nat] /\ d.ids[s] = id /\ \A x \in Sounds \ {s} : d.ids[x] = kept[x]
       /\ d.last = id /\ d.forget = FALSE /\ d = [ids |-> d.ids, last |-> d.last, forget |-> d.forget]
  <2> HIDE DEF kept, id
  <2>1. kept \in [Sounds -> Nat] /\ id \in Nat
    BY <1>7, <1>9
  <2> DEFINE m == [kept EXCEPT ![s] = id]
  <2>2. m \in [Sounds -> Nat] /\ m[s] = id /\ \A x \in Sounds \ {s} : m[x] = kept[x]
    BY <2>1
  <2> HIDE DEF m
  <2>3. d.ids = m /\ d.last = id /\ d.forget = FALSE /\ d = [ids |-> d.ids, last |-> d.last, forget |-> d.forget]
    <3>1. d = [e.defs EXCEPT !.ids = m, !.last = id]
      BY DEF m
    <3> HIDE DEF d
    <3> QED BY <1>8, <3>1
  <2> QED BY <2>2, <2>3
<1> HIDE DEF d, kept
<1>11. \A x \in Sounds : \/ x = s /\ d.ids[x] = id
                         \/ x # s /\ d.ids[x] \in {0, e.defs.ids[x]}
  BY <1>7, <1>10
<1> HIDE DEF id
<1>12. DefsShape(d)
  <2>1. \A x \in Sounds : d.ids[x] <= d.last
    BY <1>8, <1>9, <1>10, <1>11
  <2>2. d.last \in Nat /\ d.forget \in BOOLEAN /\ ~d.forget
    BY <1>9, <1>10
  <2> QED BY <1>10, <2>1, <2>2 DEF DefsShape
<1>13. After(d, old)
  <2>1. old.last \in Nat /\ old.last <= e.defs.last
    BY <1>1 DEF DefsShape, After
  <2>2. old.last <= d.last
    BY <2>1, <1>8, <1>9, <1>10
  <2>3. ASSUME NEW x \in Sounds, d.ids[x] # 0, d.ids[x] <= old.last PROVE d.ids[x] = old.ids[x]
    <3>1. x # s
      BY <2>1, <2>3, <1>8, <1>9, <1>11
    <3>2. d.ids[x] = e.defs.ids[x]
      BY <2>3, <3>1, <1>11
    <3> QED BY <2>3, <3>2, <1>1 DEF After
  <2> QED BY <2>2, <2>3 DEF After
<1>14. AllNamed(NamedBy(w3), d)
  <2>1. After(d, e.defs)
    <3>1. ASSUME NEW x \in Sounds, d.ids[x] # 0, d.ids[x] <= e.defs.last PROVE d.ids[x] = e.defs.ids[x]
      BY <3>1, <1>8, <1>9, <1>11
    <3>2. e.defs.last <= d.last
      BY <1>8, <1>9, <1>10
    <3> QED BY <3>1, <3>2 DEF After
  <2>2. AllNamed(NamedBy(e.wire), d)
    BY <2>1, <1>1, <1>12, NamedStays
  <2>3. AllNamed({<<id, s>>}, d)
    <3>1. ASSUME NEW x \in Sounds, d.ids[x] = id PROVE s = x
      BY <3>1, <1>8, <1>9, <1>11
    <3>2. id \in 1..d.last
      BY <1>9, <1>10
    <3>3. Named(id, s, d)
      BY <3>1, <3>2 DEF Named
    <3> QED BY <3>3 DEF AllNamed
  <2> QED BY <1>4, <1>5, <1>6, <2>2, <2>3, NamedMore
<1>15. Held(d, K3 \cup {id})
  <2>1. ASSUME NEW x \in Sounds, d.ids[x] # 0 PROVE d.ids[x] \in K3 \cup {id}
    <3>1. CASE x = s
      BY <3>1, <1>11
    <3>2. CASE x # s
      <4>1. d.ids[x] = kept[x] /\ ~full
        BY <2>1, <3>2, <1>7, <1>10
      <4>2. d.ids[x] \in K2
        BY <2>1, <4>1, <1>2, <1>7 DEF Held
      <4> QED BY <4>1, <4>2
    <3> QED BY <3>1, <3>2
  <2> QED BY <2>1 DEF Held
<1> DEFINE r == Encoded(d, w3)
<1>16. r.defs = d /\ r.wire = w3 /\ r = [defs |-> r.defs, wire |-> r.wire]
  BY DEF Encoded
<1> HIDE DEF r, K3
<1>17. EncodedFrom(r, K, old)
  BY <1>6, <1>10, <1>12, <1>13, <1>14, <1>15, <1>16, Zenon DEF EncodedFrom
<1> QED BY <1>3, <1>17 DEF r

EncodeStart(defs) == Encoded([defs EXCEPT !.forget = FALSE],
                             IF defs.forget THEN <<[op |-> "forget"]>> ELSE <<>>)
DecodeStart(table, sounding) == [skipped |-> FALSE, reset |-> FALSE, table |-> table, sounding |-> sounding]

Encodes(f, defs, events) ==
    /\ Encode(defs, events) = f[Len(events)]
    /\ f[0] = EncodeStart(defs)
    /\ \A n \in 0..(Len(events) - 1) : f[n + 1] = EncodeEvent(f[n], events[n + 1])

\* The operations are encoded one after the other.
LEMMA EncodeSteps ==
    ASSUME NEW defs, NEW events, IsSeq(events)
    PROVE  \E f : Encodes(f, defs, events)
<1> DEFINE Step(f, n) == IF n = 0 THEN EncodeStart(defs)
                        ELSE EncodeEvent(f[n - 1], events[n])
           Built(f, n) == f = [k \in 0..n |-> Step(f, k)]
<1>1. Len(events) \in Nat
  BY SeqIndices
<1>2. \E f : Built(f, Len(events))
  <2> DEFINE P == {n \in Nat : \E f : Built(f, n)}
  <2>1. 0 \in P
    <3> DEFINE f == [k \in 0..0 |-> EncodeStart(defs)]
    <3>1. Built(f, 0)
      OBVIOUS
    <3> QED BY <3>1
  <2>2. ASSUME NEW n \in Nat, n \in P PROVE n + 1 \in P
    <3>1. PICK f : Built(f, n)
      BY <2>2
    <3> DEFINE g == [k \in 0..(n + 1) |-> Step(f, k)]
    <3>2. \A k \in 0..n : f[k] = Step(f, k)
      <4> HIDE DEF Step
      <4> QED BY <3>1
    <3>3. \A k \in 0..n : g[k] = Step(f, k)
      <4> HIDE DEF Step
      <4> QED OBVIOUS
    <3>4. \A k \in 0..(n + 1) : Step(g, k) = Step(f, k)
      <4> TAKE k \in 0..(n + 1)
      <4>1. CASE k = 0
        BY <4>1
      <4>2. CASE k - 1 \in 0..n
        <5>1. g[k - 1] = f[k - 1]
          BY <3>2, <3>3, <4>2
        <5> HIDE DEF g
        <5> QED BY <4>2, <5>1
      <4> QED BY <4>1, <4>2
    <3>5. Built(g, n + 1)
      <4> HIDE DEF Step
      <4> QED BY <3>4
    <3>6. n + 1 \in Nat /\ \E e : Built(e, n + 1)
      <4> HIDE DEF g, Built
      <4> QED BY <3>5
    <3> HIDE DEF Built
    <3> QED BY <3>6
  <2> HIDE DEF P
  <2>3. Nat \subseteq P
    BY <2>1, <2>2, SetInduction
  <2> QED BY <1>1, <2>3 DEF P
<1> DEFINE encoded == CHOOSE f : Built(f, Len(events))
<1>3. Encode(defs, events) = encoded[Len(events)]
  BY Zenon DEF Encode, EncodeStart
<1>4. Built(encoded, Len(events))
  BY <1>2, Zenon
<1> HIDE DEF encoded
<1>5. \A k \in 0..Len(events) : encoded[k] = Step(encoded, k)
  <2> HIDE DEF Step
  <2> QED BY <1>4
<1>6. encoded[0] = EncodeStart(defs)
  BY <1>1, <1>5
<1>7. ASSUME NEW n \in 0..(Len(events) - 1) PROVE encoded[n + 1] = EncodeEvent(encoded[n], events[n + 1])
  <2>1. n + 1 \in 0..Len(events) /\ n + 1 # 0 /\ (n + 1) - 1 = n
    BY <1>1
  <2> QED BY <1>5, <2>1
<1>8. Encodes(encoded, defs, events)
  BY <1>3, <1>6, <1>7 DEF Encodes
<1> QED BY <1>8

Decodes(f, table, sounding, wire) ==
    /\ Decode(table, sounding, wire) = f[Len(wire)]
    /\ f[0] = DecodeStart(table, sounding)
    /\ \A n \in 0..(Len(wire) - 1) : f[n + 1] = DecodeOp(f[n], wire[n + 1])

\* And decoded.
LEMMA DecodeSteps ==
    ASSUME NEW table, NEW sounding, NEW wire, IsSeq(wire)
    PROVE  \E f : Decodes(f, table, sounding, wire)
<1> DEFINE Step(f, n) == IF n = 0 THEN DecodeStart(table, sounding)
                        ELSE DecodeOp(f[n - 1], wire[n])
           Built(f, n) == f = [k \in 0..n |-> Step(f, k)]
<1>1. Len(wire) \in Nat
  BY SeqIndices
<1>2. \E f : Built(f, Len(wire))
  <2> DEFINE P == {n \in Nat : \E f : Built(f, n)}
  <2>1. 0 \in P
    <3> DEFINE f == [k \in 0..0 |-> DecodeStart(table, sounding)]
    <3>1. Built(f, 0)
      OBVIOUS
    <3> QED BY <3>1
  <2>2. ASSUME NEW n \in Nat, n \in P PROVE n + 1 \in P
    <3>1. PICK f : Built(f, n)
      BY <2>2
    <3> DEFINE g == [k \in 0..(n + 1) |-> Step(f, k)]
    <3>2. \A k \in 0..n : f[k] = Step(f, k)
      <4> HIDE DEF Step
      <4> QED BY <3>1
    <3>3. \A k \in 0..n : g[k] = Step(f, k)
      <4> HIDE DEF Step
      <4> QED OBVIOUS
    <3>4. \A k \in 0..(n + 1) : Step(g, k) = Step(f, k)
      <4> TAKE k \in 0..(n + 1)
      <4>1. CASE k = 0
        BY <4>1
      <4>2. CASE k - 1 \in 0..n
        <5>1. g[k - 1] = f[k - 1]
          BY <3>2, <3>3, <4>2
        <5> HIDE DEF g
        <5> QED BY <4>2, <5>1
      <4> QED BY <4>1, <4>2
    <3>5. Built(g, n + 1)
      <4> HIDE DEF Step
      <4> QED BY <3>4
    <3>6. n + 1 \in Nat /\ \E e : Built(e, n + 1)
      <4> HIDE DEF g, Built
      <4> QED BY <3>5
    <3> HIDE DEF Built
    <3> QED BY <3>6
  <2> HIDE DEF P
  <2>3. Nat \subseteq P
    BY <2>1, <2>2, SetInduction
  <2> QED BY <1>1, <2>3 DEF P
<1> DEFINE decoded == CHOOSE f : Built(f, Len(wire))
<1>3. Decode(table, sounding, wire) = decoded[Len(wire)]
  BY Zenon DEF Decode, DecodeStart
<1>4. Built(decoded, Len(wire))
  BY <1>2, Zenon
<1> HIDE DEF decoded
<1>5. \A k \in 0..Len(wire) : decoded[k] = Step(decoded, k)
  <2> HIDE DEF Step
  <2> QED BY <1>4
<1>6. decoded[0] = DecodeStart(table, sounding)
  BY <1>1, <1>5
<1>7. ASSUME NEW n \in 0..(Len(wire) - 1) PROVE decoded[n + 1] = DecodeOp(decoded[n], wire[n + 1])
  <2>1. n + 1 \in 0..Len(wire) /\ n + 1 # 0 /\ (n + 1) - 1 = n
    BY <1>1
  <2> QED BY <1>5, <2>1
<1>8. Decodes(decoded, table, sounding, wire)
  BY <1>3, <1>6, <1>7 DEF Decodes
<1> QED BY <1>8

LEMMA EncodeEventKeeps ==
    ASSUME NEW e, NEW K, NEW old, DefsShape(old), EncodedFrom(e, K, old), NEW x, EventOk(x)
    PROVE  EncodedFrom(EncodeEvent(e, x), K, old)
<1>1. CASE x.op = "start"
  <2>1. x.sound \in Sounds /\ EncodeEvent(e, x) = Reference(e, x.sound)
    BY <1>1 DEF EventOk, EncodeEvent
  <2>2. PICK s \in Sounds : s = x.sound
    BY <2>1
  <2>3. CASE e.defs.ids[s] = 0
    BY <2>1, <2>2, <2>3, NewStart
  <2>4. CASE e.defs.ids[s] # 0
    <3> DEFINE o == [op |-> "start", id |-> e.defs.ids[s], sound |-> s]
    <3>1. Reference(e, s) = Encoded(e.defs, Append(e.wire, o))
      BY <2>4 DEF Reference
    <3>2. /\ o.op = "start" /\ o.op \in OpNames /\ o.op \notin {"define", "forget"}
          /\ o.id = e.defs.ids[s] /\ o.id # 0
      BY <2>4 DEF OpNames
    <3> HIDE DEF o
    <3> QED BY <2>1, <2>2, <3>1, <3>2, KnownStart
  <2> QED BY <2>3, <2>4
<1>2. CASE x.op # "start"
  <2>1. EncodeEvent(e, x) = Encoded(e.defs, Append(e.wire, x))
    BY <1>2 DEF EncodeEvent
  <2>2. x.op \in OpNames /\ x.op \notin {"define", "forget"}
    BY <1>2 DEF EventOk, OpNames
  <2> QED BY <1>2, <2>1, <2>2, KnownStart
<1> QED BY <1>1, <1>2

LEMMA EncodeStartDoes ==
    ASSUME NEW defs, DefsShape(defs), NEW K, Held(defs, K)
    PROVE  EncodedFrom(EncodeStart(defs), K, defs)
<1> DEFINE F == [op |-> "forget"]
           w == IF defs.forget THEN <<F>> ELSE <<>>
           d == [defs EXCEPT !.forget = FALSE]
           e == Encoded(d, w)
<1>1. /\ d.ids = defs.ids /\ d.last = defs.last /\ d.forget = FALSE
      /\ d = [ids |-> d.ids, last |-> d.last, forget |-> d.forget]
  <2>1. PICK i, n, g : defs = [ids |-> i, last |-> n, forget |-> g]
    BY DEF DefsShape
  <2>2. \A x : [defs EXCEPT !.forget = x] = [ids |-> i, last |-> n, forget |-> x]
    BY <2>1
  <2>3. d = [ids |-> i, last |-> n, forget |-> FALSE]
    BY <2>2, Zenon
  <2> HIDE DEF d
  <2> QED BY <2>1, <2>3
<1>2. DefsShape(d) /\ After(d, defs)
  <2>1. d.ids \in [Sounds -> Nat] /\ d.last \in Nat /\ \A s \in Sounds : d.ids[s] <= d.last
    BY <1>1 DEF DefsShape
  <2>2. d.forget \in BOOLEAN /\ ~d.forget
    BY <1>1
  <2>3. d.last <= d.last
    BY <2>1
  <2> HIDE DEF d
  <2> QED BY <1>1, <2>1, <2>2, <2>3 DEF DefsShape, After
<1> HIDE DEF d
<1>3. WireOk(w) /\ NamedBy(w) = {} /\ \E K2 : WirePasses(w, K, K2) /\ Held(d, K2)
  <2>1. WirePasses(<<>>, K, K) /\ WireOk(<<>>) /\ NamedBy(<<>>) = {}
    BY WireNone
  <2>2. CASE ~defs.forget
    <3>1. w = <<>> /\ Held(d, K)
      BY <1>1, <2>2 DEF Held
    <3> QED BY <2>1, <3>1
  <2>3. CASE defs.forget
    <3>1. OpPasses(K, F, {}) /\ F.op \in OpNames /\ F.op # "define"
      BY DEF OpPasses, OpNames
    <3>2. Held(d, {})
      BY <1>1, <2>3 DEF Held, DefsShape
    <3> HIDE DEF F
    <3>3. Grown(<<>>, F, K, {})
      BY <2>1, <3>1, WireMore
    <3>4. w = Append(<<>>, F)
      BY <2>3
    <3>5. WirePasses(w, K, {}) /\ WireOk(w) /\ NamedBy(w) = {}
      BY <2>1, <3>1, <3>3, <3>4 DEF Grown
    <3> QED BY <3>2, <3>5
  <2> QED BY <2>2, <2>3
<1>4. EncodeStart(defs) = e
  BY DEF EncodeStart, d
<1> HIDE DEF w
<1>5. e.defs = d /\ e.wire = w /\ e = [defs |-> e.defs, wire |-> e.wire]
  BY DEF Encoded
<1> HIDE DEF e
<1>6. AllNamed(NamedBy(w), d)
  BY <1>3 DEF AllNamed
<1> QED BY <1>1, <1>2, <1>3, <1>4, <1>5, <1>6, Zenon DEF EncodedFrom

\* What a message is encoded to.
LEMMA EncodeDoes ==
    ASSUME NEW defs, DefsShape(defs), NEW events, EventsOk(events), NEW K, Held(defs, K)
    PROVE  EncodedFrom(Encode(defs, events), K, defs)
<1>1. IsSeq(events) /\ Len(events) \in Nat /\ \A i \in 1..Len(events) : EventOk(events[i])
  BY SeqIndices DEF EventsOk
<1>0. PICK f : Encodes(f, defs, events)
  BY <1>1, EncodeSteps
<1>2. /\ Encode(defs, events) = f[Len(events)]
      /\ f[0] = EncodeStart(defs)
      /\ \A n \in 0..(Len(events) - 1) : f[n + 1] = EncodeEvent(f[n], events[n + 1])
  BY <1>0 DEF Encodes
<1> DEFINE Q == {n \in Nat : n <= Len(events) => EncodedFrom(f[n], K, defs)}
<1>3. 0 \in Q
  BY <1>2, EncodeStartDoes
<1>4. ASSUME NEW n \in Nat, n \in Q PROVE n + 1 \in Q
  <2>1. SUFFICES ASSUME n + 1 <= Len(events) PROVE EncodedFrom(f[n + 1], K, defs)
    OBVIOUS
  <2>2. EncodedFrom(f[n], K, defs) /\ n \in 0..(Len(events) - 1) /\ n + 1 \in 1..Len(events)
    BY <1>1, <1>4, <2>1
  <2>3. EventOk(events[n + 1]) /\ f[n + 1] = EncodeEvent(f[n], events[n + 1])
    BY <1>1, <1>2, <2>2
  <2> QED BY <2>2, <2>3, EncodeEventKeeps
<1> HIDE DEF Q
<1>5. Nat \subseteq Q
  BY <1>3, <1>4, SetInduction
<1> QED BY <1>1, <1>2, <1>5 DEF Q

-----------------------------------------------------------------------------
(***************************************************************************)
(* The page's end of them.                                                 *)
(***************************************************************************)
Known(table) == {x[1] : x \in table}

DecodedTo(d, K, E) ==
    /\ d = [skipped |-> d.skipped, reset |-> d.reset, table |-> d.table, sounding |-> d.sounding]
    /\ d.skipped = FALSE /\ K \subseteq Known(d.table) /\ d.table \subseteq E

LEMMA DecodeOpKeeps ==
    ASSUME NEW d, NEW K, NEW E, DecodedTo(d, K, E), NEW o, o.op \in OpNames, NEW K2, OpPasses(K, o, K2),
           o.op = "define" => <<o.id, o.sound>> \in E
    PROVE  DecodedTo(DecodeOp(d, o), K2, E)
<1>0. /\ d = [skipped |-> d.skipped, reset |-> d.reset, table |-> d.table, sounding |-> d.sounding]
      /\ d.skipped = FALSE /\ K \subseteq Known(d.table) /\ d.table \subseteq E
  BY DEF DecodedTo
<1>1. CASE o.op = "forget"
  <2>1. DecodeOp(d, o) = [d EXCEPT !.table = {}]
    BY <1>1 DEF DecodeOp
  <2>2. K2 = {}
    BY <1>1 DEF OpPasses
  <2> QED BY <1>0, <2>1, <2>2 DEF DecodedTo
<1>2. CASE o.op = "define"
  <2> DEFINE T == {x \in d.table : x[1] # o.id} \cup {<<o.id, o.sound>>}
  <2>1. DecodeOp(d, o) = [d EXCEPT !.table = T]
    BY <1>2 DEF DecodeOp
  <2>2. K2 \subseteq Known(T) /\ T \subseteq E
    <3>1. K2 \subseteq K \cup {o.id}
      BY <1>2 DEF OpPasses
    <3>2. o.id \in Known(T)
      BY DEF Known
    <3>3. ASSUME NEW n \in K2, n # o.id PROVE n \in Known(T)
      <4>1. PICK x \in d.table : n = x[1]
        BY <1>0, <3>1, <3>3 DEF Known
      <4>2. x \in T
        BY <3>3, <4>1
      <4> QED BY <4>1, <4>2 DEF Known
    <3>4. T \subseteq E
      BY <1>0, <1>2
    <3> QED BY <3>2, <3>3, <3>4
  <2> HIDE DEF T
  <2> QED BY <1>0, <2>1, <2>2 DEF DecodedTo
<1>3. CASE o.op = "allOff"
  <2>1. DecodeOp(d, o) = [d EXCEPT !.reset = TRUE, !.sounding = {}]
    BY <1>3 DEF DecodeOp
  <2>2. K2 \subseteq K
    BY <1>3 DEF OpPasses
  <2> QED BY <1>0, <2>1, <2>2 DEF DecodedTo
<1>4. CASE o.op = "stop"
  <2> DEFINE S == d.sounding \ {o.sound}
  <2>1. DecodeOp(d, o) = [d EXCEPT !.sounding = S]
    BY <1>4 DEF DecodeOp
  <2>2. K2 \subseteq K
    BY <1>4 DEF OpPasses
  <2> HIDE DEF S
  <2> QED BY <1>0, <2>1, <2>2 DEF DecodedTo
<1>5. CASE o.op = "start"
  <2> DEFINE known == {x \in d.table : x[1] = o.id}
             B == d.skipped \/ known = {}
             S == d.sounding \cup {x[2] : x \in known}
  <2>1. DecodeOp(d, o) = [d EXCEPT !.skipped = B, !.sounding = S]
    BY <1>5 DEF DecodeOp
  <2>2. K2 \subseteq K /\ o.id \in K
    BY <1>5 DEF OpPasses
  <2>3. known # {}
    BY <1>0, <2>2 DEF Known
  <2>4. B = FALSE
    BY <1>0, <2>3
  <2> HIDE DEF B, S
  <2> QED BY <1>0, <2>1, <2>2, <2>4 DEF DecodedTo
<1> QED BY <1>1, <1>2, <1>3, <1>4, <1>5 DEF OpNames

LEMMA DecodeDoes ==
    ASSUME NEW table, NEW sounding, NEW wire, WireOk(wire), NEW K, NEW K2, WirePasses(wire, K, K2),
           K \subseteq Known(table)
    PROVE  DecodedTo(Decode(table, sounding, wire), K2, table \cup NamedBy(wire))
<1>1. IsSeq(wire) /\ Len(wire) \in Nat /\ \A j \in 1..Len(wire) : wire[j].op \in OpNames
  BY SeqIndices DEF WireOk
<1>0. PICK f : Decodes(f, table, sounding, wire)
  BY <1>1, DecodeSteps
<1>2. /\ Decode(table, sounding, wire) = f[Len(wire)]
      /\ f[0] = DecodeStart(table, sounding)
      /\ \A n \in 0..(Len(wire) - 1) : f[n + 1] = DecodeOp(f[n], wire[n + 1])
  BY <1>0 DEF Decodes
<1>3. PICK k : WireBy(wire, k, K, K2)
  BY DEF WirePasses
<1> DEFINE E == table \cup NamedBy(wire)
           Q == {n \in Nat : n <= Len(wire) => DecodedTo(f[n], k[n], E)}
<1>4. 0 \in Q
  <2>1. k[0] \subseteq Known(table) /\ table \subseteq E
    BY <1>3 DEF WireBy
  <2> HIDE DEF E
  <2> QED BY <1>2, <2>1 DEF DecodedTo, DecodeStart
<1>5. ASSUME NEW n \in Nat, n \in Q PROVE n + 1 \in Q
  <2>1. SUFFICES ASSUME n + 1 <= Len(wire) PROVE DecodedTo(f[n + 1], k[n + 1], E)
    OBVIOUS
  <2>2. DecodedTo(f[n], k[n], E) /\ n \in 0..(Len(wire) - 1) /\ n + 1 \in 1..Len(wire) /\ (n + 1) - 1 = n
    BY <1>1, <1>5, <2>1
  <2>3. wire[n + 1].op \in OpNames /\ f[n + 1] = DecodeOp(f[n], wire[n + 1]) /\ OpPasses(k[n], wire[n + 1], k[n + 1])
    BY <1>1, <1>2, <1>3, <2>2 DEF WireBy
  <2>4. wire[n + 1].op = "define" => <<wire[n + 1].id, wire[n + 1].sound>> \in E
    BY <2>2 DEF NamedBy
  <2> HIDE DEF E
  <2> QED BY <2>2, <2>3, <2>4, DecodeOpKeeps
<1> HIDE DEF Q, E
<1>6. Nat \subseteq Q
  BY <1>4, <1>5, SetInduction
<1>7. DecodedTo(f[Len(wire)], k[Len(wire)], E)
  BY <1>1, <1>6 DEF Q
<1> QED BY <1>2, <1>3, <1>7 DEF DecodedTo, WireBy, E

-----------------------------------------------------------------------------
(***************************************************************************)
(* What numbers the page knows while it takes texts: those the writer has   *)
(* decided to send, all of them, and of others those of the timeline e.     *)
(***************************************************************************)
Heard(m, pc, e) == m.kind = "audio" /\ (pc = "sending" \/ m.epoch = e)

Takes(K, m, K2, pc, e) ==
    /\ m.kind = "restored" => K2 = {}
    /\ Heard(m, pc, e) => WirePasses(m.wire, K, K2)
    /\ ~Heard(m, pc, e) => K2 \subseteq K

TextsBy(s, st, pc, e, K, K2) ==
    /\ st[0] \subseteq K /\ K2 \subseteq st[Len(s)]
    /\ \A i \in 1..Len(s) : Takes(st[i - 1], s[i], st[i], pc, e)
TextsPass(s, pc, e, K, K2) == \E st : TextsBy(s, st, pc, e, K, K2)

LEMMA TakesMore ==
    ASSUME NEW K, NEW m, NEW K2, NEW pc, NEW e, NEW L, Takes(K, m, K2, pc, e), K \subseteq L
    PROVE  Takes(L, m, K2, pc, e)
<1>1. Heard(m, pc, e) => WirePasses(m.wire, L, K2)
  <2>1. SUFFICES ASSUME Heard(m, pc, e) PROVE WirePasses(m.wire, L, K2)
    OBVIOUS
  <2>2. WirePasses(m.wire, K, K2) /\ K2 \subseteq K2
    BY <2>1 DEF Takes
  <2> QED BY <2>2, WireLess
<1>2. ~Heard(m, pc, e) => K2 \subseteq L
  BY DEF Takes
<1> QED BY <1>1, <1>2 DEF Takes

LEMMA TextsNone == ASSUME NEW pc, NEW e, NEW K PROVE TextsPass(<<>>, pc, e, K, K)
<1> DEFINE st == [i \in {0} |-> K]
<1>1. TextsBy(<<>>, st, pc, e, K, K)
  BY EmptyIsSeq DEF TextsBy
<1> HIDE DEF st
<1> QED BY <1>1 DEF TextsPass

LEMMA TextsLess ==
    ASSUME NEW s, NEW pc, NEW e, NEW K, NEW K2, NEW L, NEW L2, TextsPass(s, pc, e, K, K2),
           K \subseteq L, L2 \subseteq K2
    PROVE  TextsPass(s, pc, e, L, L2)
BY DEF TextsPass, TextsBy

LEMMA TextsMore ==
    ASSUME NEW s, NEW pc, NEW e, NEW K, NEW K2, NEW K3, NEW m, IsSeq(s), TextsPass(s, pc, e, K, K2),
           Takes(K2, m, K3, pc, e)
    PROVE  TextsPass(Append(s, m), pc, e, K, K3)
<1> DEFINE u == Append(s, m)
<1>1. /\ IsSeq(u) /\ Len(u) = Len(s) + 1 /\ Len(s) \in Nat
      /\ \A i \in 1..Len(s) : u[i] = s[i]
      /\ u[Len(s) + 1] = m
  BY SeqAppended, SeqIndices
<1> HIDE DEF u
<1>2. PICK st : TextsBy(s, st, pc, e, K, K2)
  BY DEF TextsPass
<1> DEFINE g == [i \in 0..Len(u) |-> IF i = Len(u) THEN K3 ELSE st[i]]
<1>3. /\ \A i \in 0..Len(s) : g[i] = st[i]
      /\ g[Len(u)] = K3
  BY <1>1
<1> HIDE DEF g
<1>4. Takes(st[Len(s)], m, K3, pc, e)
  <2>1. K2 \subseteq st[Len(s)]
    BY <1>2 DEF TextsBy
  <2> QED BY <2>1, TakesMore
<1>5. ASSUME NEW i \in 1..Len(u) PROVE Takes(g[i - 1], u[i], g[i], pc, e)
  <2>1. CASE i \in 1..Len(s)
    <3>1. g[i - 1] = st[i - 1] /\ g[i] = st[i] /\ u[i] = s[i]
      BY <1>1, <1>3, <2>1
    <3> QED BY <1>2, <2>1, <3>1 DEF TextsBy
  <2>2. CASE i = Len(s) + 1
    <3>1. g[i - 1] = st[Len(s)] /\ g[i] = K3 /\ u[i] = m
      BY <1>1, <1>3, <2>2
    <3> QED BY <1>4, <3>1
  <2> QED BY <1>1, <2>1, <2>2
<1>6. TextsBy(u, g, pc, e, K, K3)
  BY <1>1, <1>2, <1>3, <1>5 DEF TextsBy
<1> QED BY <1>6 DEF TextsPass, u

LEMMA TextsJoin ==
    ASSUME NEW s, NEW t, NEW pc, NEW e, NEW K, NEW K2, NEW K3, IsSeq(s), IsSeq(t),
           TextsPass(s, pc, e, K, K2), TextsPass(t, pc, e, K2, K3)
    PROVE  TextsPass(s \o t, pc, e, K, K3)
<1> DEFINE u == s \o t
<1>1. Len(s) \in Nat /\ Len(t) \in Nat
  BY SeqIndices
<1>2. /\ IsSeq(u) /\ Len(u) = Len(s) + Len(t)
      /\ \A i \in 1..(Len(s) + Len(t)) : u[i] = IF i <= Len(s) THEN s[i] ELSE t[i - Len(s)]
  BY SeqJoined, Zenon
<1> HIDE DEF u
<1>3. PICK st, tt : TextsBy(s, st, pc, e, K, K2) /\ TextsBy(t, tt, pc, e, K2, K3)
  BY DEF TextsPass
<1> DEFINE g == [i \in 0..Len(u) |-> IF i <= Len(s) THEN st[i] ELSE tt[i - Len(s)]]
<1>4. \A i \in 0..Len(u) : g[i] = IF i <= Len(s) THEN st[i] ELSE tt[i - Len(s)]
  OBVIOUS
<1> HIDE DEF g
<1>5. K2 \subseteq st[Len(s)] /\ tt[0] \subseteq K2
  BY <1>3 DEF TextsBy
<1>6. ASSUME NEW i \in 1..Len(u) PROVE Takes(g[i - 1], u[i], g[i], pc, e)
  <2>1. CASE i \in 1..Len(s)
    <3>1. g[i - 1] = st[i - 1] /\ g[i] = st[i] /\ u[i] = s[i]
      BY <1>1, <1>2, <1>4, <2>1
    <3> QED BY <1>3, <2>1, <3>1 DEF TextsBy
  <2>2. CASE i = Len(s) + 1
    <3>1. 1 \in 1..Len(t) /\ g[i - 1] = st[Len(s)] /\ g[i] = tt[1] /\ u[i] = t[1]
      <4>1. /\ Len(t) > 0 /\ i - 1 = Len(s) /\ i - 1 \in 0..Len(u) /\ i \in 0..Len(u) /\ i - Len(s) = 1
            /\ ~(i <= Len(s)) /\ i - 1 <= Len(s) /\ i \in 1..(Len(s) + Len(t))
        BY <1>1, <1>2, <2>2
      <4>2. g[i - 1] = st[i - 1] /\ g[i] = tt[i - Len(s)] /\ u[i] = t[i - Len(s)]
        BY <4>1, <1>2, <1>4
      <4> QED BY <1>1, <4>1, <4>2
    <3>2. Takes(tt[0], t[1], tt[1], pc, e)
      <4>1. Takes(tt[1 - 1], t[1], tt[1], pc, e)
        BY <1>3, <3>1 DEF TextsBy
      <4> QED BY <4>1
    <3>3. tt[0] \subseteq st[Len(s)]
      BY <1>5
    <3> QED BY <3>1, <3>2, <3>3, TakesMore
  <2>3. CASE i > Len(s) + 1
    <3> DEFINE j == i - Len(s)
    <3>1. /\ j \in 1..Len(t) /\ ~(i <= Len(s)) /\ ~(i - 1 <= Len(s)) /\ i \in 0..Len(u) /\ i - 1 \in 0..Len(u)
          /\ (i - 1) - Len(s) = j - 1 /\ i \in 1..(Len(s) + Len(t))
      BY <1>1, <1>2, <2>3
    <3>2. g[i - 1] = tt[j - 1] /\ g[i] = tt[j] /\ u[i] = t[j]
      BY <1>2, <1>4, <3>1
    <3> HIDE DEF j
    <3> QED BY <1>3, <3>1, <3>2 DEF TextsBy
  <2> QED BY <1>1, <1>2, <2>1, <2>2, <2>3
<1>7. K3 \subseteq g[Len(u)] /\ g[0] \subseteq K
  <2>1. g[0] = st[0]
    BY <1>1, <1>2, <1>4
  <2>2. CASE Len(t) = 0
    <3>1. g[Len(u)] = st[Len(s)]
      BY <1>1, <1>2, <1>4, <2>2
    <3> QED BY <1>3, <1>5, <2>1, <2>2, <3>1 DEF TextsBy
  <2>3. CASE Len(t) # 0
    <3>1. g[Len(u)] = tt[Len(t)]
      BY <1>1, <1>2, <1>4, <2>3
    <3> QED BY <1>3, <2>1, <3>1 DEF TextsBy
  <2> QED BY <2>2, <2>3
<1>8. TextsBy(u, g, pc, e, K, K3)
  BY <1>6, <1>7 DEF TextsBy
<1> QED BY <1>8 DEF TextsPass, u

\* The first is taken.
LEMMA TextsTail ==
    ASSUME NEW s, NEW pc, NEW e, NEW K, NEW K2, IsSeq(s), s # <<>>, TextsPass(s, pc, e, K, K2)
    PROVE  \E K1 : Takes(K, s[1], K1, pc, e) /\ TextsPass(Tail(s), pc, e, K1, K2)
<1> DEFINE t == Tail(s)
<1>1. /\ IsSeq(t) /\ Len(t) = Len(s) - 1 /\ Len(s) \in Nat \ {0}
      /\ \A i \in 1..(Len(s) - 1) : t[i] = s[i + 1]
  BY SeqTail, SeqIndices
<1> HIDE DEF t
<1>2. PICK st : TextsBy(s, st, pc, e, K, K2)
  BY DEF TextsPass
<1> DEFINE g == [i \in 0..Len(t) |-> st[i + 1]]
<1>3. \A i \in 0..Len(t) : g[i] = st[i + 1]
  OBVIOUS
<1> HIDE DEF g
<1>4. Takes(K, s[1], st[1], pc, e)
  <2>1. 1 \in 1..Len(s)
    BY <1>1
  <2>2. Takes(st[1 - 1], s[1], st[1], pc, e) /\ st[0] \subseteq K
    BY <1>2, <2>1 DEF TextsBy
  <2>3. Takes(st[0], s[1], st[1], pc, e)
    BY <2>2
  <2> QED BY <2>2, <2>3, TakesMore
<1>5. ASSUME NEW i \in 1..Len(t) PROVE Takes(g[i - 1], t[i], g[i], pc, e)
  <2>1. i + 1 \in 1..Len(s) /\ g[i - 1] = st[i] /\ g[i] = st[i + 1] /\ t[i] = s[i + 1] /\ (i + 1) - 1 = i
    <3>1. i + 1 \in 1..Len(s) /\ i - 1 \in 0..Len(t) /\ i \in 0..Len(t) /\ (i + 1) - 1 = i /\ (i - 1) + 1 = i
          /\ i \in 1..(Len(s) - 1)
      BY <1>1
    <3> QED BY <3>1, <1>1, <1>3
  <2> QED BY <1>2, <2>1 DEF TextsBy
<1>6. g[0] = st[1] /\ K2 \subseteq g[Len(t)]
  <2>1. g[0] = st[1] /\ g[Len(t)] = st[Len(s)]
    BY <1>1, <1>3
  <2> QED BY <1>2, <2>1 DEF TextsBy
<1>7. TextsBy(t, g, pc, e, st[1], K2)
  BY <1>5, <1>6 DEF TextsBy
<1> QED BY <1>4, <1>7 DEF TextsPass, t

\* Nothing is heard of texts of other timelines.
LEMMA TextsSilent ==
    ASSUME NEW s, NEW pc, NEW e, NEW K, IsSeq(s), \A i \in 1..Len(s) : ~Heard(s[i], pc, e)
    PROVE  TextsPass(s, pc, e, K, {})
<1>1. Len(s) \in Nat
  BY SeqIndices
<1> DEFINE st == [i \in 0..Len(s) |-> {}]
<1>2. \A i \in 0..Len(s) : st[i] = {}
  OBVIOUS
<1> HIDE DEF st
<1>3. TextsBy(s, st, pc, e, K, {})
  <2>1. st[0] = {} /\ st[Len(s)] = {}
    BY <1>1, <1>2
  <2>2. ASSUME NEW i \in 1..Len(s) PROVE Takes(st[i - 1], s[i], st[i], pc, e)
    <3>1. st[i] = {} /\ ~Heard(s[i], pc, e)
      BY <1>1, <1>2
    <3> QED BY <3>1 DEF Takes
  <2> QED BY <2>1, <2>2 DEF TextsBy
<1> QED BY <1>3 DEF TextsPass

\* What is written of a batch is heard whatever timeline begins meanwhile.
LEMMA TextsWritten ==
    ASSUME NEW b, NEW K, NEW K2, IsSeq(b), TextsPass(b, "write", epoch, K, K2)
    PROVE  TextsPass(WrittenOf(b), "sending", epoch, K, K2)
<1>0. Len(b) \in Nat
  BY SeqIndices
<1>1. PICK f : Writing(f, b)
  BY WrittenSteps
<1>2. /\ WrittenOf(b) = f[Len(b)] /\ f[0] = <<>>
      /\ \A n \in 0..(Len(b) - 1) : f[n + 1] = IF Current(b[n + 1]) THEN Append(f[n], b[n + 1]) ELSE f[n]
  BY <1>1 DEF Writing
<1>3. PICK st : TextsBy(b, st, "write", epoch, K, K2)
  BY DEF TextsPass
<1> DEFINE Q == {n \in Nat : n <= Len(b) => IsSeq(f[n]) /\ TextsPass(f[n], "sending", epoch, K, st[n])}
<1>4. 0 \in Q
  <2>1. st[0] \subseteq K /\ IsSeq(<<>>) /\ TextsPass(<<>>, "sending", epoch, K, K)
    BY <1>3, EmptyIsSeq, TextsNone DEF TextsBy
  <2>2. TextsPass(<<>>, "sending", epoch, K, st[0])
    BY <2>1, TextsLess
  <2> QED BY <1>2, <2>1, <2>2
<1>5. ASSUME NEW n \in Nat, n \in Q PROVE n + 1 \in Q
  <2>1. SUFFICES ASSUME n + 1 <= Len(b) PROVE IsSeq(f[n + 1]) /\ TextsPass(f[n + 1], "sending", epoch, K, st[n + 1])
    OBVIOUS
  <2>2. /\ IsSeq(f[n]) /\ TextsPass(f[n], "sending", epoch, K, st[n])
        /\ n \in 0..(Len(b) - 1) /\ n + 1 \in 1..Len(b) /\ (n + 1) - 1 = n
    BY <1>0, <1>5, <2>1
  <2> DEFINE m == b[n + 1]
  <2>3. Takes(st[n], m, st[n + 1], "write", epoch)
    BY <1>3, <2>2 DEF TextsBy
  <2> HIDE DEF m
  <2>4. CASE Current(m)
    <3>1. Takes(st[n], m, st[n + 1], "sending", epoch)
      <4>1. Heard(m, "sending", epoch) <=> Heard(m, "write", epoch)
        BY <2>4 DEF Heard, Current, OfTheTimeline
      <4> QED BY <2>3, <4>1 DEF Takes
    <3>2. f[n + 1] = Append(f[n], m)
      BY <1>2, <2>2, <2>4 DEF m
    <3>3. TextsPass(Append(f[n], m), "sending", epoch, K, st[n + 1])
      BY <2>2, <3>1, TextsMore
    <3>4. IsSeq(Append(f[n], m))
      BY <2>2, SeqAppended
    <3> QED BY <3>2, <3>3, <3>4
  <2>5. CASE ~Current(m)
    <3>1. f[n + 1] = f[n]
      BY <1>2, <2>2, <2>5 DEF m
    <3>2. st[n + 1] \subseteq st[n]
      BY <2>3, <2>5 DEF Takes, Heard, Current, OfTheTimeline
    <3>3. TextsPass(f[n], "sending", epoch, K, st[n + 1])
      BY <2>2, <3>2, TextsLess
    <3> QED BY <2>2, <3>1, <3>3
  <2> QED BY <2>4, <2>5
<1> HIDE DEF Q
<1>6. Nat \subseteq Q
  BY <1>4, <1>5, SetInduction
<1>7. TextsPass(f[Len(b)], "sending", epoch, K, st[Len(b)]) /\ K2 \subseteq st[Len(b)]
  BY <1>0, <1>3, <1>6 DEF Q, TextsBy
<1>8. TextsPass(f[Len(b)], "sending", epoch, K, K2)
  BY <1>7, TextsLess
<1> QED BY <1>2, <1>8

LEMMA TextsSame ==
    ASSUME NEW s, NEW pc, NEW pd, NEW e, NEW K, NEW K2, TextsPass(s, pc, e, K, K2),
           pc = "sending" <=> pd = "sending"
    PROVE  TextsPass(s, pd, e, K, K2)
BY DEF TextsPass, TextsBy, Takes, Heard

-----------------------------------------------------------------------------
(***************************************************************************)
(* The invariant of the sounds.                                            *)
(***************************************************************************)
CollectorShape ==
    /\ collector = [events |-> collector.events, overflowed |-> collector.overflowed]
    /\ EventsOk(collector.events)
    /\ game.sounding \subseteq Sounds /\ IsFiniteSet(game.sounding)
DefsKept ==
    /\ DefsShape(loop.defs)
    /\ loop.pc = "restored" => \A s \in Sounds : loop.defs.ids[s] = 0

\* What the texts of this timeline, and the page once it knows of it, call by a
\* number.
TextNamed(s) ==
    \A i \in 1..Len(s) : s[i].kind = "audio" =>
        /\ WireOk(s[i].wire)
        /\ s[i].epoch = epoch => AllNamed(NamedBy(s[i].wire), loop.defs)
Named2 ==
    /\ TextNamed(writer.batch) /\ TextNamed(outText)
    /\ page.epoch = epoch => AllNamed(page.table, loop.defs)

\* What the writer sends is of one timeline, or the page is not told of the last.
Unmixed ==
    writer.pc = "sending" =>
        \/ \A i \in 1..Len(writer.batch) : writer.batch[i].kind = "audio" => writer.batch[i].epoch = epoch
        \/ page.epoch # epoch /\ UnsaidIn(writer.batch, epoch)

\* When the page has taken all that is on its way it knows the numbers in use,
\* and it knows each that it is told to start.
AllKnown ==
    \E K, K2 :
        /\ TextsPass(writer.batch, writer.pc, epoch, Known(page.table), K)
        /\ TextsPass(outText, "queued", epoch, K, K2)
        /\ Held(loop.defs, K2)

SoundsInv ==
    CollectorShape /\ DefsKept /\ Named2 /\ Unmixed /\ AllKnown /\ page.skipped = FALSE

-----------------------------------------------------------------------------
(***************************************************************************)
(* The loop: what it sends.                                                *)
(***************************************************************************)
Delivers(m) ==
    /\ m.kind = "audio" => /\ m.epoch = epoch /\ WireOk(m.wire)
                           /\ AllNamed(NamedBy(m.wire), loop'.defs)
    /\ \A K : Held(loop.defs, K) => \E K2 : Takes(K, m, K2, "queued", epoch) /\ Held(loop'.defs, K2)
SoundSent == \E m : outText' = Append(outText, m) /\ Delivers(m)
SoundKept == outText' = outText /\ \A K : Held(loop.defs, K) => Held(loop'.defs, K)

soundAlone == <<epoch, writer, page>>

LEMMA SoundKeeps ==
    ASSUME PicturesInv, SoundsInv, UNCHANGED soundAlone, CollectorShape', DefsKept',
           After(loop'.defs, loop.defs), SoundKept \/ SoundSent
    PROVE  SoundsInv'
<1>1. epoch' = epoch /\ writer' = writer /\ page' = page /\ DefsShape(loop.defs) /\ DefsShape(loop'.defs)
  BY DEF soundAlone, SoundsInv, DefsKept
<1>2. Unmixed' /\ page'.skipped = FALSE
  BY <1>1 DEF SoundsInv, Unmixed
<1>3. \A E : AllNamed(E, loop.defs) => AllNamed(E, loop'.defs)
  BY <1>1, NamedStays
<1>4. TextNamed(writer.batch)' /\ (page.epoch = epoch => AllNamed(page.table, loop.defs))'
  BY <1>1, <1>3 DEF SoundsInv, Named2, TextNamed
<1>5. PICK K, K2 :
        /\ TextsPass(writer.batch, writer.pc, epoch, Known(page.table), K)
        /\ TextsPass(outText, "queued", epoch, K, K2)
        /\ Held(loop.defs, K2)
  BY DEF SoundsInv, AllKnown
<1>6. CASE SoundKept
  <2>1. TextNamed(outText)'
    BY <1>1, <1>3, <1>6 DEF SoundsInv, Named2, TextNamed, SoundKept
  <2>2. Held(loop'.defs, K2) /\ outText' = outText
    BY <1>5, <1>6 DEF SoundKept
  <2>3. AllKnown'
    BY <1>1, <1>5, <2>2 DEF AllKnown
  <2> QED BY <1>2, <1>4, <2>1, <2>3 DEF SoundsInv, Named2
<1>7. CASE SoundSent
  <2>1. PICK m : outText' = Append(outText, m) /\ Delivers(m)
    BY <1>7 DEF SoundSent
  <2>2. /\ m.kind = "audio" => m.epoch = epoch /\ WireOk(m.wire) /\ AllNamed(NamedBy(m.wire), loop'.defs)
        /\ \E K3 : Takes(K2, m, K3, "queued", epoch) /\ Held(loop'.defs, K3)
    BY <1>5, <2>1 DEF Delivers
  <2>3. IsSeq(outText)
    BY DEF PicturesInv, Shape, Texts
  <2>4. /\ Len(outText') = Len(outText) + 1 /\ Len(outText) \in Nat
        /\ \A i \in 1..Len(outText) : outText'[i] = outText[i]
        /\ outText'[Len(outText) + 1] = m
    BY <2>1, <2>3, SeqAppended, SeqIndices
  <2>5. TextNamed(outText)'
    <3>1. ASSUME NEW i \in 1..Len(outText'), outText'[i].kind = "audio"
          PROVE  /\ WireOk(outText'[i].wire)
                 /\ outText'[i].epoch = epoch => AllNamed(NamedBy(outText'[i].wire), loop'.defs)
      <4>1. CASE i \in 1..Len(outText)
        BY <1>3, <2>4, <3>1, <4>1 DEF SoundsInv, Named2, TextNamed
      <4>2. CASE i = Len(outText) + 1
        BY <2>2, <2>4, <3>1, <4>2
      <4> QED BY <2>4, <4>1, <4>2
    <3> QED BY <1>1, <3>1 DEF TextNamed
  <2>6. PICK K3 : Takes(K2, m, K3, "queued", epoch) /\ Held(loop'.defs, K3)
    BY <2>2
  <2>7. TextsPass(outText', "queued", epoch, K, K3)
    BY <1>5, <2>1, <2>3, <2>6, TextsMore
  <2>8. AllKnown'
    BY <1>1, <1>5, <2>6, <2>7 DEF AllKnown
  <2> QED BY <1>2, <1>4, <2>5, <2>8 DEF SoundsInv, Named2
<1> QED BY <1>6, <1>7

LEMMA AfterSame == ASSUME NEW d, DefsShape(d) PROVE After(d, d)
BY DEF DefsShape, After

\* A text that says nothing of sounds.
LEMMA WordsDeliver ==
    ASSUME NEW m, m.kind \notin {"audio", "restored"}, loop'.defs = loop.defs
    PROVE  Delivers(m)
<1>1. ASSUME NEW K, Held(loop.defs, K) PROVE Takes(K, m, K, "queued", epoch) /\ Held(loop'.defs, K)
  BY <1>1 DEF Takes, Heard
<1> QED BY <1>1 DEF Delivers

\* The definitions are dropped.
LEMMA DroppedDoes ==
    ASSUME NEW d, DefsShape(d)
    PROVE  /\ DefsShape(Dropped(d)) /\ Dropped(d).last = d.last
           /\ \A s \in Sounds : Dropped(d).ids[s] = 0
<1> DEFINE r == Dropped(d)
           z == [s \in Sounds |-> 0]
<1>1. PICK i, n, f : d = [ids |-> i, last |-> n, forget |-> f] /\ n \in Nat
  BY DEF DefsShape
<1>2. z \in [Sounds -> Nat] /\ \A s \in Sounds : z[s] = 0
  OBVIOUS
<1> HIDE DEF z
<1>3. PICK x : x = TRUE
  OBVIOUS
<1>4. r = [d EXCEPT !.ids = z, !.forget = x]
  BY <1>3, Zenon DEF Dropped, z
<1> HIDE DEF r
<1>5. r.ids = z /\ r.last = n /\ r.forget = x /\ d.last = n /\ r = [ids |-> r.ids, last |-> r.last, forget |-> r.forget]
  BY <1>1, <1>4
<1>6. r.forget \in BOOLEAN
  BY <1>3, <1>5
<1>7. DefsShape(r)
  BY <1>1, <1>2, <1>5, <1>6 DEF DefsShape
<1> QED BY <1>2, <1>5, <1>7 DEF r

LEMMA NoneHeld ==
    ASSUME NEW d, \A s \in Sounds : d.ids[s] = 0, NEW K
    PROVE  Held(d, K)
BY DEF Held

\* A message of sounds, sent or dropped.
LEMMA SoundIsSent ==
    ASSUME NEW l, LoopRecord(l), l.defs = loop.defs, DefsShape(loop.defs), NEW events, EventsOk(events),
           SendSound(l, events)
    PROVE  DefsShape(loop'.defs) /\ After(loop'.defs, loop.defs) /\ (SoundKept \/ SoundSent)
<1> DEFINE e == Encode(loop.defs, events)
<1>0. l = [pc |-> l.pc, then |-> l.then, force |-> l.force, needsReset |-> l.needsReset,
           audio |-> l.audio, defs |-> l.defs]
  BY DEF LoopRecord
<1>1. \/ outText' = Append(outText, SoundOf(e.wire)) /\ loop' = [l EXCEPT !.defs = e.defs]
      \/ outText' = outText /\ loop' = [l EXCEPT !.defs = Dropped(e.defs), !.needsReset = TRUE]
  BY Zenon DEF SendSound
<1>2. ASSUME NEW K, Held(loop.defs, K) PROVE EncodedFrom(e, K, loop.defs)
  BY <1>2, EncodeDoes
<1> HIDE DEF e
<1>3. DefsShape(e.defs) /\ WireOk(e.wire) /\ AllNamed(NamedBy(e.wire), e.defs) /\ After(e.defs, loop.defs)
  <2>1. Held(loop.defs, Nat)
    BY DEF Held, DefsShape
  <2>2. EncodedFrom(e, Nat, loop.defs)
    BY <1>2, <2>1
  <2> QED BY <2>2 DEF EncodedFrom
<1>4. CASE outText' = Append(outText, SoundOf(e.wire)) /\ loop' = [l EXCEPT !.defs = e.defs]
  <2> DEFINE m == SoundOf(e.wire)
  <2>1. m.kind = "audio" /\ m.epoch = epoch /\ m.wire = e.wire
    BY DEF SoundOf
  <2> HIDE DEF m
  <2>2. loop'.defs = e.defs
    BY <1>0, <1>4
  <2>3. ASSUME NEW K, Held(loop.defs, K) PROVE \E K2 : Takes(K, m, K2, "queued", epoch) /\ Held(loop'.defs, K2)
    <3>1. EncodedFrom(e, K, loop.defs)
      BY <1>2, <2>3
    <3>2. PICK K2 : WirePasses(e.wire, K, K2) /\ Held(e.defs, K2)
      BY <3>1 DEF EncodedFrom
    <3>3. Takes(K, m, K2, "queued", epoch)
      BY <2>1, <3>2 DEF Takes, Heard
    <3> QED BY <2>2, <3>2, <3>3
  <2>4. Delivers(m)
    BY <1>3, <2>1, <2>2, <2>3 DEF Delivers
  <2>5. SoundSent
    BY <1>4, <2>4 DEF SoundSent, m
  <2> QED BY <1>3, <2>2, <2>5
<1>5. CASE outText' = outText /\ loop' = [l EXCEPT !.defs = Dropped(e.defs), !.needsReset = TRUE]
  <2> DEFINE d == Dropped(e.defs)
  <2>1. loop'.defs = d
    <3>1. \A x, y : [l EXCEPT !.defs = x, !.needsReset = y].defs = x
      BY <1>0
    <3> QED BY <1>5, <3>1, Zenon
  <2>2. DefsShape(d) /\ d.last = e.defs.last /\ \A s \in Sounds : d.ids[s] = 0
    BY <1>3, DroppedDoes
  <2> HIDE DEF d
  <2>3. After(d, loop.defs)
    BY <1>3, <2>2 DEF After
  <2>4. SoundKept
    BY <1>5, <2>1, <2>2, NoneHeld DEF SoundKept
  <2> QED BY <2>1, <2>2, <2>3, <2>4
<1> QED BY <1>1, <1>4, <1>5

\* What a game that is sounding is replayed by.
LEMMA ReplayOk ==
    ASSUME NEW S, S \subseteq Sounds, IsFiniteSet(S)
    PROVE  EventsOk(Replay(S)) /\ EventsOk(<<AllOff>> \o Replay(S)) /\ EventsOk(<<AllOff>>)
<1> DEFINE q == SetToSeq(S)
           n == Cardinality(S)
           t == Replay(S)
<1>1. n \in Nat
  BY FS_CardinalityType
<1>2. q \in [1..n -> S]
  <2>1. \E f \in [1..n -> S] : IsInjective(f)
    <3>1. PICK f : f \in Bijection(1..n, S)
      BY FS_CardinalityType DEF ExistsBijection
    <3> QED BY <3>1, Zenon DEF Bijection, Injection
  <2> QED BY <2>1 DEF SetToSeq
<1>3. \A i \in 1..n : q[i] \in Sounds
  BY <1>2
<1> HIDE DEF q
<1>4. t = [i \in 1..n |-> Start(q[i])]
  BY DEF Replay, q
<1> HIDE DEF n, t
<1>5. IsSeq(t) /\ Len(t) = n /\ \A i \in 1..n : EventOk(t[i])
  <2>1. \A i \in 1..n : EventOk(Start(q[i]))
    BY <1>3 DEF EventOk, Start
  <2> DEFINE T == {Start(q[i]) : i \in 1..n}
  <2>2. t \in Seq(T)
    BY <1>1, <1>4
  <2>3. Len(t) = n
    BY <1>1, <1>4
  <2> QED BY <1>4, <2>1, <2>2, <2>3 DEF IsSeq
<1>6. IsSeq(<<AllOff>>) /\ Len(<<AllOff>>) = 1 /\ EventOk(<<AllOff>>[1])
  <2>1. EventOk(AllOff)
    BY DEF EventOk, AllOff
  <2> HIDE DEF AllOff
  <2> QED BY <2>1, OneIsSeq
<1>7. EventsOk(t) /\ EventsOk(<<AllOff>>)
  BY <1>5, <1>6 DEF EventsOk
<1>8. EventsOk(<<AllOff>> \o t)
  <2> DEFINE a == <<AllOff>>
             u == a \o t
  <2>1. IsSeq(a) /\ Len(a) = 1 /\ EventOk(a[1])
    BY <1>6
  <2> HIDE DEF a
  <2>2. /\ IsSeq(u) /\ Len(u) = Len(a) + Len(t)
        /\ \A i \in 1..(Len(a) + Len(t)) : u[i] = IF i <= Len(a) THEN a[i] ELSE t[i - Len(a)]
    BY <1>5, <2>1, SeqJoined, Zenon
  <2> HIDE DEF u
  <2>3. \A i \in 1..Len(u) : EventOk(u[i])
    <3> TAKE i \in 1..Len(u)
    <3>1. CASE i = 1
      BY <3>1, <1>1, <1>5, <2>1, <2>2
    <3>2. CASE i # 1
      <4>1. i - 1 \in 1..n /\ u[i] = t[i - 1]
        BY <3>2, <1>1, <1>5, <2>1, <2>2
      <4> QED BY <1>5, <4>1
    <3> QED BY <3>1, <3>2
  <2> QED BY <2>2, <2>3 DEF EventsOk, u, a
<1> QED BY <1>7, <1>8 DEF t

\* A step that leaves the definitions alone and says nothing of sounds.
LEMMA QuietKeeps ==
    ASSUME PicturesInv, SoundsInv, UNCHANGED soundAlone, CollectorShape', loop'.defs = loop.defs,
           loop'.pc = "restored" => loop.pc = "restored",
           \/ outText' = outText
           \/ \E m : outText' = Append(outText, m) /\ m.kind \in {"result", "error", "started"}
    PROVE  SoundsInv'
<1>1. DefsShape(loop.defs) /\ DefsKept'
  BY DEF SoundsInv, DefsKept
<1>2. After(loop'.defs, loop.defs)
  BY <1>1, AfterSame
<1>3. CASE outText' = outText
  <2>1. SoundKept
    BY <1>3 DEF SoundKept
  <2> QED BY <1>1, <1>2, <2>1, SoundKeeps
<1>4. ASSUME NEW m, outText' = Append(outText, m), m.kind \in {"result", "error", "started"} PROVE SoundsInv'
  <2>1. Delivers(m)
    BY <1>4, WordsDeliver
  <2>2. SoundSent
    BY <1>4, <2>1 DEF SoundSent
  <2> QED BY <1>1, <1>2, <2>2, SoundKeeps
<1> QED BY <1>3, <1>4

LEMMA CollectorStays ==
    ASSUME CollectorShape, collector' \in {collector, Quiet}, game'.sounding \in {game.sounding, {}}
    PROVE  CollectorShape'
<1>1. /\ Quiet = [events |-> Quiet.events, overflowed |-> Quiet.overflowed]
      /\ EventsOk(Quiet.events)
  BY EmptyIsSeq DEF Quiet, EventsOk
<1>2. IsFiniteSet({})
  BY FS_EmptySet
<1>3. /\ game'.sounding \subseteq Sounds /\ IsFiniteSet(game'.sounding)
  BY <1>2 DEF CollectorShape
<1>4. /\ collector' = [events |-> collector'.events, overflowed |-> collector'.overflowed]
      /\ EventsOk(collector'.events)
  <2>1. CASE collector' = collector
    BY <2>1 DEF CollectorShape
  <2>2. CASE collector' = Quiet
    BY <1>1, <2>2
  <2> QED BY <2>1, <2>2
<1> QED BY <1>3, <1>4 DEF CollectorShape

\* What a step of the loop that only moves it leaves as it was.
LEMMA FieldsStay ==
    ASSUME NEW r, LoopRecord(r), NEW x
    PROVE  /\ [r EXCEPT !.pc = x].defs = r.defs /\ [r EXCEPT !.pc = x].pc = x
           /\ [r EXCEPT !.force = x].defs = r.defs /\ [r EXCEPT !.force = x].pc = r.pc
           /\ [r EXCEPT !.needsReset = x].defs = r.defs /\ [r EXCEPT !.needsReset = x].pc = r.pc
           /\ [r EXCEPT !.defs = x].defs = x /\ [r EXCEPT !.defs = x].pc = r.pc
BY DEF LoopRecord

LEMMA PushSilent ==
    ASSUME NEW l, LoopRecord(l), Push(l)
    PROVE  loop'.defs = l.defs
<1>1. loop' = l \/ loop' = [l EXCEPT !.force = FALSE]
  BY Zenon DEF Push
<1>2. [l EXCEPT !.force = FALSE].defs = l.defs
  BY FieldsStay, Zenon
<1> QED BY <1>1, <1>2

LEMMA AtSilent ==
    ASSUME LoopShape, NEW pc
    PROVE  LoopRecord(At(pc)) /\ At(pc).pc = pc /\ At(pc).defs = loop.defs
BY DEF LoopShape, LoopRecord, At

-----------------------------------------------------------------------------
(***************************************************************************)
(* The loop, a step at a time.                                             *)
(***************************************************************************)
LEMMA TickEndsSounds == PicturesInv /\ SoundsInv /\ TickEnds => SoundsInv'
<1> SUFFICES ASSUME PicturesInv, SoundsInv, TickEnds PROVE SoundsInv'
  OBVIOUS
<1> DEFINE l == At(IF SoundWaits THEN "sound" ELSE "run")
<1>1. /\ UNCHANGED soundAlone /\ outText' = outText /\ collector' = collector
      /\ game' = [game EXCEPT !.flushed = FALSE] /\ GameShape /\ LoopShape /\ CollectorShape
  BY DEF TickEnds, soundAlone, PicturesInv, Shape, SoundsInv
<1>2. Push(l) \/ loop' = l
  BY DEF TickEnds
<1>3. LoopRecord(l) /\ l.pc # "restored" /\ l.defs = loop.defs
  BY <1>1, AtSilent
<1> HIDE DEF l
<1>4. loop'.defs = loop.defs /\ loop'.pc # "restored"
  BY <1>1, <1>2, <1>3, PushSilent, PushDoes DEF PicturesInv
<1>5. game'.sounding = game.sounding
  BY <1>1 DEF GameShape
<1>6. CollectorShape'
  BY <1>1, <1>5, CollectorStays
<1> QED BY <1>1, <1>4, <1>6, QuietKeeps

LEMMA WaitsToRebuildSounds == PicturesInv /\ SoundsInv /\ WaitsToRebuild => SoundsInv'
<1> SUFFICES ASSUME PicturesInv, SoundsInv, WaitsToRebuild PROVE SoundsInv'
  OBVIOUS
<1>1. /\ UNCHANGED soundAlone /\ outText' = outText /\ collector' = Quiet /\ game' = game
      /\ LoopShape /\ CollectorShape
  BY DEF WaitsToRebuild, soundUnchanged, soundAlone, PicturesInv, Shape, SoundsInv
<1>2. loop'.defs = loop.defs /\ loop'.pc # "restored"
  <2>1. PICK x, y : loop' = [loop EXCEPT !.needsReset = x, !.pc = y] /\ y \in {"rebuild", "run"}
    <3>1. loop' = [loop EXCEPT !.needsReset = TRUE, !.pc = IF RoomForText THEN "rebuild" ELSE "run"]
      BY Zenon DEF WaitsToRebuild
    <3>2. (IF RoomForText THEN "rebuild" ELSE "run") \in {"rebuild", "run"}
      OBVIOUS
    <3> QED BY <3>1, <3>2, Zenon
  <2> QED BY <1>1, <2>1 DEF LoopShape, LoopRecord
<1>3. CollectorShape'
  BY <1>1, CollectorStays
<1> QED BY <1>1, <1>2, <1>3, QuietKeeps

LEMMA RefusesSounds == PicturesInv /\ SoundsInv /\ (RefusesStale \/ RefusesQuickLoad) => SoundsInv'
<1> SUFFICES ASSUME PicturesInv, SoundsInv, RefusesStale \/ RefusesQuickLoad PROVE SoundsInv'
  OBVIOUS
<1>1. /\ UNCHANGED soundAlone /\ collector' = collector /\ game' = game /\ loop' = loop
      /\ CollectorShape
      /\ outText' = outText \/ SendText(Said("error"))
  BY DEF RefusesStale, RefusesQuickLoad, queuesUnchanged, soundAlone, SoundsInv
<1>2. outText' = outText \/ \E m : outText' = Append(outText, m) /\ m.kind \in {"result", "error", "started"}
  BY <1>1, SendTextDoes
<1>3. CollectorShape'
  BY <1>1, CollectorStays
<1> QED BY <1>1, <1>2, <1>3, QuietKeeps

LEMMA HandlesScaleSounds == PicturesInv /\ SoundsInv /\ HandlesScale => SoundsInv'
<1> SUFFICES ASSUME PicturesInv, SoundsInv, HandlesScale PROVE SoundsInv'
  OBVIOUS
<1> DEFINE l == [loop EXCEPT !.force = TRUE]
<1>1. /\ UNCHANGED soundAlone /\ outText' = outText /\ collector' = collector /\ game' = game
      /\ LoopShape /\ CollectorShape /\ (Push(l) \/ loop' = loop)
  BY DEF HandlesScale, soundAlone, PicturesInv, Shape, SoundsInv
<1>2. LoopRecord(l) /\ l.defs = loop.defs /\ l.pc = loop.pc
  <2>1. TRUE \in BOOLEAN
    OBVIOUS
  <2>2. LoopRecord(l)
    BY <1>1, <2>1, ForceDoes, Zenon DEF LoopShape
  <2>3. PICK f : l = [loop EXCEPT !.force = f]
    BY Zenon
  <2> HIDE DEF l
  <2>4. l.defs = loop.defs /\ l.pc = loop.pc
    BY <1>1, <2>3 DEF LoopShape, LoopRecord
  <2> QED BY <2>2, <2>4
<1> HIDE DEF l
<1>3. loop'.defs = loop.defs /\ loop'.pc = loop.pc
  BY <1>1, <1>2, PushSilent, PushDoes DEF PicturesInv
<1>4. CollectorShape'
  BY <1>1, CollectorStays
<1> QED BY <1>1, <1>3, <1>4, QuietKeeps

\* A game is closed.
LEMMA ClosesSounds == PicturesInv /\ SoundsInv /\ (HandlesStart \/ HandlesStop \/ GameExits) => SoundsInv'
<1> SUFFICES ASSUME PicturesInv, SoundsInv, HandlesStart \/ HandlesStop \/ GameExits PROVE SoundsInv'
  OBVIOUS
<1>1. /\ UNCHANGED soundAlone /\ outText' = outText /\ collector' \in {collector, Quiet}
      /\ LoopShape /\ CollectorShape /\ GameShape
      /\ game' = NoGame \/ game' = [NoGame EXCEPT !.epoch = epoch, !.line = epoch]
  BY DEF HandlesStart, HandlesStop, GameExits, queuesUnchanged, soundAlone, PicturesInv, Shape, SoundsInv
<1>2. game'.sounding = {}
  BY <1>1 DEF GameShape, NoGame
<1>3. loop'.defs = loop.defs /\ loop'.pc # "restored"
  <2>1. \/ \E x, y, f : /\ loop' = [[loop EXCEPT !.force = f] EXCEPT !.pc = x, !.then = y]
                        /\ x \in {"allOff", "starting"}
        \/ loop' = At("result")
    <3>1. CASE HandlesStart
      <4>1. loop' = [Closed(loop) EXCEPT !.pc = IF loop.audio THEN "allOff" ELSE "starting", !.then = "starting"]
        BY <3>1, Zenon DEF HandlesStart
      <4>2. (IF loop.audio THEN "allOff" ELSE "starting") \in {"allOff", "starting"}
        OBVIOUS
      <4> QED BY <4>1, <4>2, Zenon DEF Closed
    <3>2. CASE HandlesStop
      <4>1. loop' = [Closed(loop) EXCEPT !.pc = "allOff", !.then = "result"] \/ loop' = At("result")
        BY <3>2, Zenon DEF HandlesStop
      <4>2. "allOff" \in {"allOff", "starting"}
        OBVIOUS
      <4> QED BY <4>1, <4>2, Zenon DEF Closed
    <3>3. CASE GameExits
      <4>1. loop' = [Closed(loop) EXCEPT !.pc = "allOff", !.then = "result"]
        BY <3>3, Zenon DEF GameExits
      <4>2. "allOff" \in {"allOff", "starting"}
        OBVIOUS
      <4> QED BY <4>1, <4>2, Zenon DEF Closed
    <3> QED BY <3>1, <3>2, <3>3
  <2>2. ASSUME NEW x, NEW y, NEW f, loop' = [[loop EXCEPT !.force = f] EXCEPT !.pc = x, !.then = y],
               x \in {"allOff", "starting"}
        PROVE  loop'.defs = loop.defs /\ loop'.pc # "restored"
    BY <1>1, <2>2 DEF LoopShape, LoopRecord
  <2>3. CASE loop' = At("result")
    BY <1>1, <2>3, AtSilent
  <2> QED BY <2>1, <2>2, <2>3
<1>4. CollectorShape'
  BY <1>1, <1>2, CollectorStays
<1> QED BY <1>1, <1>3, <1>4, QuietKeeps

LEMMA AnswersSounds == PicturesInv /\ SoundsInv /\ Answers => SoundsInv'
<1> SUFFICES ASSUME PicturesInv, SoundsInv, Answers PROVE SoundsInv'
  OBVIOUS
<1>1. /\ UNCHANGED soundAlone /\ collector' = collector /\ game' = game /\ loop' = At("run")
      /\ LoopShape /\ CollectorShape /\ SendText(Said("result"))
  BY DEF Answers, queuesUnchanged, soundAlone, PicturesInv, Shape, SoundsInv
<1>2. loop'.defs = loop.defs /\ loop'.pc # "restored"
  BY <1>1, AtSilent
<1>3. \E m : outText' = Append(outText, m) /\ m.kind \in {"result", "error", "started"}
  BY <1>1, SendTextDoes
<1>4. CollectorShape'
  BY <1>1, CollectorStays
<1> QED BY <1>1, <1>2, <1>3, <1>4, QuietKeeps

LEMMA StartedSounds == PicturesInv /\ SoundsInv /\ Started => SoundsInv'
<1> SUFFICES ASSUME PicturesInv, SoundsInv, Started PROVE SoundsInv'
  OBVIOUS
<1>1. /\ UNCHANGED soundAlone /\ collector' = collector /\ game' = [game EXCEPT !.on = TRUE, !.flushed = FALSE]
      /\ loop' = [At("pushing") EXCEPT !.then = "sound", !.force = TRUE, !.audio = TRUE]
      /\ LoopShape /\ GameShape /\ CollectorShape /\ SendText(Said("started"))
  BY DEF Started, queuesUnchanged, soundAlone, PicturesInv, Shape, SoundsInv
<1>2. loop'.defs = loop.defs /\ loop'.pc # "restored"
  <2>1. PICK x : loop' = [At("pushing") EXCEPT !.then = "sound", !.force = x, !.audio = x]
    BY <1>1, Zenon
  <2>2. LoopRecord(At("pushing")) /\ At("pushing").pc = "pushing" /\ At("pushing").defs = loop.defs
    BY <1>1, AtSilent
  <2> QED BY <2>1, <2>2 DEF LoopRecord
<1>3. \E m : outText' = Append(outText, m) /\ m.kind \in {"result", "error", "started"}
  BY <1>1, SendTextDoes
<1>4. CollectorShape'
  <2>1. game'.sounding = game.sounding
    BY <1>1 DEF GameShape
  <2> QED BY <1>1, <2>1, CollectorStays
<1> QED BY <1>1, <1>2, <1>3, <1>4, QuietKeeps

LEMMA PushesFirstSounds == PicturesInv /\ SoundsInv /\ PushesFirst => SoundsInv'
<1> SUFFICES ASSUME PicturesInv, SoundsInv, PushesFirst PROVE SoundsInv'
  OBVIOUS
<1>1. /\ UNCHANGED soundAlone /\ outText' = outText /\ collector' = collector /\ game' = game
      /\ LoopShape /\ CollectorShape /\ Push(At(loop.then)) /\ loop.then \in {"run", "sound"}
  BY DEF PushesFirst, soundAlone, PicturesInv, Shape, SoundsInv, LoopShape
<1> DEFINE l == At(loop.then)
<1>2. LoopRecord(l) /\ l.defs = loop.defs /\ l.pc # "restored"
  BY <1>1, AtSilent
<1> HIDE DEF l
<1>3. loop'.defs = loop.defs /\ loop'.pc # "restored"
  BY <1>1, <1>2, PushSilent, PushDoes DEF PicturesInv, l
<1>4. CollectorShape'
  BY <1>1, CollectorStays
<1> QED BY <1>1, <1>3, <1>4, QuietKeeps

LEMMA PushesLoadedSounds == PicturesInv /\ SoundsInv /\ PushesLoaded => SoundsInv'
<1> SUFFICES ASSUME PicturesInv, SoundsInv, PushesLoaded PROVE SoundsInv'
  OBVIOUS
<1> DEFINE l == [At("run") EXCEPT !.force = TRUE]
<1>1. /\ UNCHANGED soundAlone /\ outText' = outText /\ collector' = collector
      /\ game' = [game EXCEPT !.flushed = FALSE] /\ GameShape
      /\ LoopShape /\ CollectorShape /\ Push(l)
  BY DEF PushesLoaded, soundAlone, PicturesInv, Shape, SoundsInv
<1>2. LoopRecord(l) /\ l.defs = loop.defs /\ l.pc # "restored"
  <2>1. TRUE \in BOOLEAN
    OBVIOUS
  <2>2. LoopRecord(At("run")) /\ At("run").pc = "run" /\ At("run").defs = loop.defs
    BY <1>1, AtSilent
  <2>3. LoopRecord(l)
    BY <2>1, <2>2, ForceDoes, Zenon
  <2>4. PICK f : l = [At("run") EXCEPT !.force = f]
    BY Zenon
  <2> HIDE DEF l
  <2>5. l.defs = loop.defs /\ l.pc # "restored"
    BY <2>2, <2>4 DEF LoopRecord
  <2> QED BY <2>3, <2>5
<1> HIDE DEF l
<1>3. loop'.defs = loop.defs /\ loop'.pc # "restored"
  BY <1>1, <1>2, PushSilent, PushDoes DEF PicturesInv
<1>4. CollectorShape'
  <2>1. game'.sounding = game.sounding
    BY <1>1 DEF GameShape
  <2> QED BY <1>1, <2>1, CollectorStays
<1> QED BY <1>1, <1>3, <1>4, QuietKeeps

CollectorOk(c) == c = [events |-> c.events, overflowed |-> c.overflowed] /\ EventsOk(c.events)

\* A parked game comes back with what it sounds.
LEMMA HandlesResumeSounds ==
    ASSUME ContentAssumption, NEW slot \in Slots, PicturesInv, SoundsInv, HandlesResume(slot)
    PROVE  SoundsInv'
<1>1. /\ UNCHANGED soundAlone /\ collector' \in {collector, Quiet}
      /\ game' = IF game.on THEN game
                 ELSE [game EXCEPT !.on = TRUE, !.shows = slot.shows, !.sounding = slot.sounding,
                                   !.epoch = epoch, !.line = epoch]
      /\ LoopShape /\ GameShape /\ CollectorShape /\ SendText(Said("started"))
  BY DEF HandlesResume, queuesUnchanged, soundAlone, PicturesInv, Shape, SoundsInv
<1>2. loop'.defs = loop.defs /\ loop'.pc # "restored"
  <2>1. PICK x, y : loop' = [At("pushing") EXCEPT !.then = "run", !.force = x, !.audio = x, !.needsReset = y]
    <3>1. loop' = [At("pushing") EXCEPT !.then = "run", !.force = TRUE, !.audio = TRUE,
                                        !.needsReset = @ \/ ~game.on]
      BY Zenon DEF HandlesResume
    <3> QED BY <3>1, Zenon
  <2>2. LoopRecord(At("pushing")) /\ At("pushing").pc = "pushing" /\ At("pushing").defs = loop.defs
    BY <1>1, AtSilent
  <2> QED BY <2>1, <2>2 DEF LoopRecord
<1>3. \E m : outText' = Append(outText, m) /\ m.kind \in {"result", "error", "started"}
  BY <1>1, SendTextDoes
<1>4. CollectorShape'
  <2>1. game'.sounding = game.sounding \/ game'.sounding = slot.sounding
    BY <1>1 DEF GameShape
  <2>2. slot.sounding \subseteq Sounds /\ IsFiniteSet(slot.sounding)
    BY DEF ContentAssumption
  <2>3. CollectorOk(collector')
    BY <1>1, EmptyIsSeq DEF CollectorShape, CollectorOk, Quiet, EventsOk
  <2> QED BY <1>1, <2>1, <2>2, <2>3 DEF CollectorShape, CollectorOk
<1> QED BY <1>1, <1>2, <1>3, <1>4, QuietKeeps

LEMMA HandlesAudioResumeSounds == PicturesInv /\ SoundsInv /\ HandlesAudioResume => SoundsInv'
<1> SUFFICES ASSUME PicturesInv, SoundsInv, HandlesAudioResume PROVE SoundsInv'
  OBVIOUS
<1>1. /\ UNCHANGED soundAlone /\ outText' = outText /\ collector' = collector /\ game' = game
      /\ LoopShape /\ CollectorShape /\ DefsShape(loop.defs) /\ loop.pc = "run"
  BY DEF HandlesAudioResume, TakesCommand, queuesUnchanged, soundAlone, PicturesInv, Shape, SoundsInv, DefsKept
<1>2. CollectorShape'
  BY <1>1, CollectorStays
<1>3. CASE loop' = loop
  BY <1>1, <1>2, <1>3, QuietKeeps
<1>4. CASE loop' # loop
  <2> DEFINE d == Dropped(loop.defs)
  <2>1. PICK x : loop' = [loop EXCEPT !.needsReset = x, !.defs = d]
    <3>1. loop' = [loop EXCEPT !.needsReset = TRUE, !.defs = Dropped(@)]
      BY <1>4, Zenon DEF HandlesAudioResume
    <3> QED BY <3>1, Zenon
  <2>2. DefsShape(d) /\ d.last = loop.defs.last /\ \A s \in Sounds : d.ids[s] = 0
    BY <1>1, DroppedDoes
  <2> HIDE DEF d
  <2>3. loop'.defs = d /\ loop'.pc = "run"
    BY <1>1, <2>1 DEF LoopShape, LoopRecord
  <2>4. After(loop'.defs, loop.defs)
    BY <1>1, <2>2, <2>3 DEF After, DefsShape
  <2>5. SoundKept
    BY <1>1, <2>2, <2>3, NoneHeld DEF SoundKept
  <2>6. DefsKept'
    BY <2>2, <2>3 DEF DefsKept
  <2> QED BY <1>1, <1>2, <2>4, <2>5, <2>6, SoundKeeps
<1> QED BY <1>3, <1>4

\* No number is in use when the page is told of a load, and it forgets them.
LEMMA TellsRestoredSounds == PicturesInv /\ SoundsInv /\ TellsRestored => SoundsInv'
<1> SUFFICES ASSUME PicturesInv, SoundsInv, TellsRestored PROVE SoundsInv'
  OBVIOUS
<1> DEFINE m == Said("restored")
<1>1. /\ UNCHANGED soundAlone /\ collector' = collector /\ game' = game /\ loop' = At("resuming")
      /\ LoopShape /\ CollectorShape /\ DefsShape(loop.defs) /\ \A s \in Sounds : loop.defs.ids[s] = 0
  BY DEF TellsRestored, queuesUnchanged, soundAlone, PicturesInv, Shape, SoundsInv, DefsKept
<1>2. m.kind = "restored" /\ outText' = Append(outText, m)
  BY SendTextDoes DEF TellsRestored
<1> HIDE DEF m
<1>3. loop'.defs = loop.defs /\ loop'.pc = "resuming"
  BY <1>1, AtSilent
<1>4. CollectorShape'
  BY <1>1, CollectorStays
<1>5. DefsKept'
  BY <1>1, <1>3 DEF DefsKept
<1>6. Delivers(m)
  <2>1. ASSUME NEW K PROVE \E K2 : Takes(K, m, K2, "queued", epoch) /\ Held(loop'.defs, K2)
    <3>1. Takes(K, m, {}, "queued", epoch)
      BY <1>2 DEF Takes, Heard
    <3>2. Held(loop'.defs, {})
      BY <1>1, <1>3, NoneHeld
    <3> QED BY <3>1, <3>2
  <2> QED BY <1>2, <2>1 DEF Delivers
<1>7. SoundSent
  BY <1>2, <1>6 DEF SoundSent
<1>8. After(loop'.defs, loop.defs)
  BY <1>1, <1>3, AfterSame
<1> QED BY <1>1, <1>4, <1>5, <1>7, <1>8, SoundKeeps

\* The four messages of sounds.
LEMMA SendsKeep ==
    ASSUME PicturesInv, SoundsInv, UNCHANGED soundAlone, CollectorShape', NEW l, LoopRecord(l),
           l.defs = loop.defs, l.pc # "restored", NEW events, EventsOk(events), SendSound(l, events)
    PROVE  SoundsInv'
<1>1. DefsShape(loop.defs)
  BY DEF SoundsInv, DefsKept
<1>2. DefsShape(loop'.defs) /\ After(loop'.defs, loop.defs) /\ (SoundKept \/ SoundSent)
  BY <1>1, SoundIsSent
<1>3. loop'.pc = l.pc
  BY SendSoundDoes
<1>4. DefsKept'
  BY <1>2, <1>3 DEF DefsKept
<1> QED BY <1>2, <1>4, SoundKeeps

LEMMA FlushesSoundSounds == PicturesInv /\ SoundsInv /\ FlushesSound => SoundsInv'
<1> SUFFICES ASSUME PicturesInv, SoundsInv, FlushesSound PROVE SoundsInv'
  OBVIOUS
<1> DEFINE l == At("run")
<1>1. /\ UNCHANGED soundAlone /\ collector' = Quiet /\ game' = game
      /\ LoopShape /\ CollectorShape
      /\ (outText' = outText /\ loop' = l) \/ SendSound(l, collector.events)
  BY DEF FlushesSound, soundUnchanged, soundAlone, PicturesInv, Shape, SoundsInv
<1>2. LoopRecord(l) /\ l.defs = loop.defs /\ l.pc # "restored"
  BY <1>1, AtSilent
<1> HIDE DEF l
<1>3. CollectorShape'
  BY <1>1, CollectorStays
<1>4. CASE outText' = outText /\ loop' = l
  BY <1>1, <1>2, <1>3, <1>4, QuietKeeps
<1>5. CASE SendSound(l, collector.events)
  <2>1. EventsOk(collector.events)
    BY <1>1 DEF CollectorShape
  <2> QED BY <1>1, <1>2, <1>3, <1>5, <2>1, SendsKeep
<1> QED BY <1>1, <1>4, <1>5

LEMMA RebuildsSoundSounds == PicturesInv /\ SoundsInv /\ RebuildsSound => SoundsInv'
<1> SUFFICES ASSUME PicturesInv, SoundsInv, RebuildsSound PROVE SoundsInv'
  OBVIOUS
<1> DEFINE l == [At("run") EXCEPT !.needsReset = FALSE]
<1>1. /\ UNCHANGED soundAlone /\ collector' = collector /\ game' = game
      /\ LoopShape /\ CollectorShape /\ SendSound(l, <<AllOff>> \o Replay(game.sounding))
  BY DEF RebuildsSound, soundUnchanged, soundAlone, PicturesInv, Shape, SoundsInv
<1>2. LoopRecord(l) /\ l.defs = loop.defs /\ l.pc # "restored"
  <2>1. PICK x : l = [At("run") EXCEPT !.needsReset = x]
    BY Zenon
  <2>2. LoopRecord(At("run")) /\ At("run").pc = "run" /\ At("run").defs = loop.defs
    BY <1>1, AtSilent
  <2> HIDE DEF l
  <2> QED BY <2>1, <2>2 DEF LoopRecord
<1> HIDE DEF l
<1>3. CollectorShape'
  BY <1>1, CollectorStays
<1>4. EventsOk(<<AllOff>> \o Replay(game.sounding))
  BY <1>1, ReplayOk DEF CollectorShape
<1> QED BY <1>1, <1>2, <1>3, <1>4, SendsKeep

LEMMA SilencesPageSounds == PicturesInv /\ SoundsInv /\ SilencesPage => SoundsInv'
<1> SUFFICES ASSUME PicturesInv, SoundsInv, SilencesPage PROVE SoundsInv'
  OBVIOUS
<1> DEFINE l == At(loop.then)
<1>1. /\ UNCHANGED soundAlone /\ collector' \in {collector, Quiet} /\ game' = game /\ loop.pc = "allOff"
      /\ LoopShape /\ CollectorShape /\ SendSound(l, <<AllOff>>)
  BY DEF SilencesPage, queuesUnchanged, soundAlone, PicturesInv, Shape, SoundsInv
<1>2. LoopRecord(l) /\ l.defs = loop.defs /\ l.pc # "restored"
  <2>1. loop.then # "restored"
    BY <1>1 DEF LoopShape
  <2> QED BY <1>1, <2>1, AtSilent
<1> HIDE DEF l
<1>3. CollectorShape'
  BY <1>1, CollectorStays
<1>4. EventsOk(<<AllOff>>)
  BY <1>1, ReplayOk DEF CollectorShape
<1> QED BY <1>1, <1>2, <1>3, <1>4, SendsKeep

LEMMA RebuildsLoadedSounds == PicturesInv /\ SoundsInv /\ RebuildsLoaded => SoundsInv'
<1> SUFFICES ASSUME PicturesInv, SoundsInv, RebuildsLoaded PROVE SoundsInv'
  OBVIOUS
<1> DEFINE l == [At("pushLoaded") EXCEPT !.needsReset = FALSE]
<1>1. /\ UNCHANGED soundAlone /\ collector' = Quiet /\ game' = game
      /\ LoopShape /\ CollectorShape
      /\ (outText' = outText /\ loop' = l) \/ SendSound(l, Replay(game.sounding))
  BY DEF RebuildsLoaded, queuesUnchanged, soundAlone, PicturesInv, Shape, SoundsInv
<1>2. LoopRecord(l) /\ l.defs = loop.defs /\ l.pc # "restored"
  <2>1. PICK x : l = [At("pushLoaded") EXCEPT !.needsReset = x]
    BY Zenon
  <2>2. LoopRecord(At("pushLoaded")) /\ At("pushLoaded").pc = "pushLoaded" /\ At("pushLoaded").defs = loop.defs
    BY <1>1, AtSilent
  <2> HIDE DEF l
  <2> QED BY <2>1, <2>2 DEF LoopRecord
<1> HIDE DEF l
<1>3. CollectorShape'
  BY <1>1, CollectorStays
<1>4. CASE outText' = outText /\ loop' = l
  BY <1>1, <1>2, <1>3, <1>4, QuietKeeps
<1>5. CASE SendSound(l, Replay(game.sounding))
  <2>1. EventsOk(Replay(game.sounding))
    BY <1>1, ReplayOk DEF CollectorShape
  <2> QED BY <1>1, <1>2, <1>3, <1>5, <2>1, SendsKeep
<1> QED BY <1>1, <1>4, <1>5

-----------------------------------------------------------------------------
(***************************************************************************)
(* The guest and the people.                                               *)
(***************************************************************************)
LEMMA CollectOk ==
    ASSUME NEW c, CollectorOk(c), NEW x, EventOk(x)
    PROVE  CollectorOk(Collect(c, x))
<1> DEFINE a == <<AllOff, x>>
           b == Append(c.events, x)
<1>1. EventsOk(a)
  <2>1. a = Append(<<AllOff>>, x) /\ EventsOk(<<AllOff>>)
    BY ReplayOk, FS_EmptySet
  <2> HIDE DEF a
  <2>2. IsSeq(<<AllOff>>) /\ Len(<<AllOff>>) = 1 /\ EventOk(<<AllOff>>[1])
    BY <2>1, OneIsSeq DEF EventsOk
  <2> DEFINE o == <<AllOff>>
  <2> HIDE DEF o
  <2>3. /\ IsSeq(a) /\ Len(a) = Len(o) + 1 /\ a[Len(o) + 1] = x
        /\ \A i \in 1..Len(o) : a[i] = o[i]
    BY <2>1, <2>2, SeqAppended DEF o
  <2>4. Len(o) = 1 /\ EventOk(o[1])
    BY <2>2 DEF o
  <2>5. \A i \in 1..2 : EventOk(a[i])
    BY <2>3, <2>4
  <2> QED BY <2>3, <2>4, <2>5 DEF EventsOk
<1>2. EventsOk(b)
  <2>1. IsSeq(c.events) /\ \A i \in 1..Len(c.events) : EventOk(c.events[i])
    BY DEF CollectorOk, EventsOk
  <2>2. /\ IsSeq(b) /\ Len(b) = Len(c.events) + 1 /\ b[Len(c.events) + 1] = x /\ Len(c.events) \in Nat
        /\ \A i \in 1..Len(c.events) : b[i] = c.events[i]
    BY <2>1, SeqAppended, SeqIndices
  <2> HIDE DEF b
  <2>3. \A i \in 1..Len(b) : EventOk(b[i])
    BY <2>1, <2>2
  <2> QED BY <2>2, <2>3 DEF EventsOk
<1> HIDE DEF a, b
<1>3. Collect(c, x) = [events |-> a, overflowed |-> TRUE] \/ Collect(c, x) = [c EXCEPT !.events = b]
  BY Zenon DEF Collect, a, b
<1>4. CASE Collect(c, x) = [events |-> a, overflowed |-> TRUE]
  <2>1. PICK y : Collect(c, x) = [events |-> a, overflowed |-> y]
    BY <1>4
  <2> QED BY <1>1, <2>1 DEF CollectorOk
<1>5. CASE Collect(c, x) = [c EXCEPT !.events = b]
  BY <1>2, <1>5 DEF CollectorOk
<1> QED BY <1>3, <1>4, <1>5

LEMMA PlaysSounds ==
    ASSUME PicturesInv, SoundsInv, NEW x, EventOk(x), NEW S, S \subseteq Sounds, IsFiniteSet(S), Plays(x, S)
    PROVE  SoundsInv'
<1>1. /\ UNCHANGED soundAlone /\ outText' = outText /\ loop' = loop /\ collector' = Collect(collector, x)
      /\ game' = [game EXCEPT !.sounding = S] /\ GameShape /\ CollectorShape
  BY DEF Plays, hostVars, soundAlone, PicturesInv, Shape, SoundsInv
<1>2. CollectorOk(collector')
  BY <1>1, CollectOk DEF CollectorShape, CollectorOk
<1>3. game'.sounding = S
  BY <1>1 DEF GameShape
<1>4. CollectorShape'
  BY <1>2, <1>3 DEF CollectorShape, CollectorOk
<1> QED BY <1>1, <1>4, QuietKeeps

LEMMA GuestSounds ==
    ASSUME PicturesInv, SoundsInv,
           (\E s \in Screens : Draws(s)) \/ Offers \/ StartsSound \/ StopsSound \/ Asks \/ AnswersPing
    PROVE  SoundsInv'
<1>0. GameShape /\ CollectorShape
  BY DEF PicturesInv, Shape, SoundsInv
<1>1. CASE StartsSound
  <2>1. PICK s \in Sounds \ game.sounding : Plays(Start(s), game.sounding \cup {s})
    BY <1>1 DEF StartsSound
  <2>2. EventOk(Start(s))
    BY DEF EventOk, Start
  <2>3. IsFiniteSet(game.sounding \cup {s}) /\ game.sounding \cup {s} \subseteq Sounds
    BY <1>0, FS_AddElement DEF CollectorShape
  <2> QED BY <2>1, <2>2, <2>3, PlaysSounds
<1>2. CASE StopsSound
  <2>1. PICK s \in game.sounding : Plays(Stop(s), game.sounding \ {s})
    BY <1>2 DEF StopsSound
  <2>2. EventOk(Stop(s))
    BY DEF EventOk, Stop
  <2>3. IsFiniteSet(game.sounding \ {s}) /\ game.sounding \ {s} \subseteq Sounds
    BY <1>0, FS_RemoveElement DEF CollectorShape
  <2> QED BY <2>1, <2>2, <2>3, PlaysSounds
<1>3. CASE (\E s \in Screens : Draws(s)) \/ Offers \/ Asks \/ AnswersPing
  <2>1. /\ UNCHANGED soundAlone /\ collector' = collector /\ loop' = loop
        /\ game' = game \/ (\E s \in Screens : game' = [game EXCEPT !.shows = s, !.flushed = TRUE])
        /\ outText' = outText \/ SendText(Said("result"))
    BY <1>3 DEF Draws, Offers, Asks, AnswersPing, hostVars, soundAlone
  <2>2. game'.sounding = game.sounding
    BY <1>0, <2>1 DEF GameShape
  <2>3. CollectorShape'
    BY <1>0, <2>1, <2>2, CollectorStays
  <2>4. outText' = outText \/ \E m : outText' = Append(outText, m) /\ m.kind \in {"result", "error", "started"}
    BY <2>1, SendTextDoes
  <2> QED BY <2>1, <2>3, <2>4, QuietKeeps
<1> QED BY <1>1, <1>2, <1>3

LEMMA NoDefinitionsOk == DefsShape(NoDefinitions) /\ \A s \in Sounds : NoDefinitions.ids[s] = 0
<1>1. PICK x : NoDefinitions = [ids |-> [s \in Sounds |-> 0], last |-> 0, forget |-> x] /\ x = FALSE
  BY DEF NoDefinitions
<1>2. NoDefinitions.forget \in BOOLEAN
  BY <1>1
<1>3. NoDefinitions.ids = [s \in Sounds |-> 0] /\ NoDefinitions.last = 0
      /\ NoDefinitions = [ids |-> NoDefinitions.ids, last |-> NoDefinitions.last, forget |-> NoDefinitions.forget]
  BY <1>1
<1> QED BY <1>2, <1>3 DEF DefsShape

\* A load begins a timeline without numbers, of which nothing is said yet.
LEMMA QuickLoadsSounds ==
    ASSUME ContentAssumption, NEW slot \in Slots, PicturesInv, SoundsInv, QuickLoads(slot)
    PROVE  SoundsInv'
<1>1. /\ epoch' = epoch + 1 /\ outText' = outText /\ writer' = writer /\ page' = page
      /\ collector' = Quiet /\ loop' = [At("restored") EXCEPT !.defs = NoDefinitions]
      /\ game' = [game EXCEPT !.shows = slot.shows, !.sounding = slot.sounding, !.flushed = FALSE,
                              !.epoch = epoch + 1, !.line = @ + 1]
      /\ GameShape /\ LoopShape /\ epoch \in Nat
  BY DEF QuickLoads, queuesUnchanged, PicturesInv, Shape, GameShape
<1>2. /\ IsSeq(outText) /\ IsSeq(writer.batch) /\ page.epoch \in 0..epoch
      /\ \A i \in 1..Len(outText) : outText[i].epoch \in 0..epoch
      /\ \A i \in 1..Len(writer.batch) : writer.batch[i].epoch \in 0..epoch
  BY DEF PicturesInv, Shape, Texts, WriterShape, PageShape
<1>3. CollectorShape'
  <2>1. game'.sounding = slot.sounding
    BY <1>1 DEF GameShape
  <2>2. slot.sounding \subseteq Sounds /\ IsFiniteSet(slot.sounding)
    BY DEF ContentAssumption
  <2>3. CollectorOk(collector')
    BY <1>1, EmptyIsSeq DEF CollectorOk, Quiet, EventsOk
  <2> QED BY <2>1, <2>2, <2>3 DEF CollectorShape, CollectorOk
<1>4. DefsShape(NoDefinitions) /\ \A s \in Sounds : NoDefinitions.ids[s] = 0
  BY NoDefinitionsOk
<1>5. loop'.defs = NoDefinitions
  <2>1. LoopRecord(At("restored"))
    BY <1>1, AtSilent
  <2> HIDE DEF NoDefinitions
  <2> QED BY <1>1, <2>1 DEF LoopRecord
<1>6. DefsKept'
  BY <1>4, <1>5 DEF DefsKept
<1>7. Named2'
  BY <1>1, <1>2 DEF SoundsInv, Named2, TextNamed
<1>8. Unmixed'
  <2>1. page'.epoch # epoch'
    BY <1>1, <1>2
  <2>2. UnsaidIn(writer.batch, epoch)'
    BY <1>1, <1>2 DEF UnsaidIn, Restores
  <2> QED BY <2>1, <2>2 DEF Unmixed
<1>9. AllKnown'
  <2>1. PICK K : TextsPass(writer.batch, writer.pc, epoch + 1, Known(page.table), K)
    <3>1. CASE writer.pc = "sending"
      <4>1. PICK K : TextsPass(writer.batch, writer.pc, epoch, Known(page.table), K)
        BY DEF SoundsInv, AllKnown
      <4>2. TextsPass(writer.batch, writer.pc, epoch + 1, Known(page.table), K)
        BY <3>1, <4>1 DEF TextsPass, TextsBy, Takes, Heard
      <4> QED BY <4>2
    <3>2. CASE writer.pc # "sending"
      <4>1. \A i \in 1..Len(writer.batch) : ~Heard(writer.batch[i], writer.pc, epoch + 1)
        BY <1>1, <1>2, <3>2 DEF Heard
      <4> QED BY <1>2, <4>1, TextsSilent
    <3> QED BY <3>1, <3>2
  <2>2. \A i \in 1..Len(outText) : ~Heard(outText[i], "queued", epoch + 1)
    BY <1>1, <1>2 DEF Heard
  <2>3. TextsPass(outText, "queued", epoch + 1, K, {})
    BY <1>2, <2>2, TextsSilent
  <2>4. Held(loop'.defs, {})
    BY <1>4, <1>5, NoneHeld
  <2> QED BY <1>1, <2>1, <2>3, <2>4 DEF AllKnown
<1>10. page'.skipped = FALSE
  BY <1>1 DEF SoundsInv
<1> QED BY <1>3, <1>6, <1>7, <1>8, <1>9, <1>10 DEF SoundsInv

-----------------------------------------------------------------------------
(***************************************************************************)
(* The writer.                                                             *)
(***************************************************************************)
afarFromWriter == <<epoch, game, loop, collector, page>>

LEMMA WriterSounds ==
    ASSUME SoundsInv, UNCHANGED afarFromWriter, Unmixed', AllKnown', TextNamed(writer.batch)', TextNamed(outText)'
    PROVE  SoundsInv'
<1>1. epoch' = epoch /\ game' = game /\ loop' = loop /\ collector' = collector /\ page' = page
  BY DEF afarFromWriter
<1>2. CollectorShape' /\ DefsKept' /\ page'.skipped = FALSE
  BY <1>1 DEF SoundsInv, CollectorShape, DefsKept
<1>3. Named2'
  BY <1>1 DEF SoundsInv, Named2
<1> QED BY <1>2, <1>3 DEF SoundsInv

LEMMA TextNamedJoin ==
    ASSUME NEW s, NEW t, IsSeq(s), IsSeq(t), TextNamed(s), TextNamed(t)
    PROVE  TextNamed(s \o t) /\ IsSeq(s \o t)
<1> DEFINE u == s \o t
<1>1. /\ IsSeq(u) /\ Len(u) = Len(s) + Len(t)
      /\ \A i \in 1..(Len(s) + Len(t)) : u[i] = IF i <= Len(s) THEN s[i] ELSE t[i - Len(s)]
  BY SeqJoined, Zenon
<1>2. Len(s) \in Nat /\ Len(t) \in Nat
  BY SeqIndices
<1> HIDE DEF u
<1>3. \A i \in 1..Len(u) : (\E j \in 1..Len(s) : u[i] = s[j]) \/ (\E j \in 1..Len(t) : u[i] = t[j])
  <2> TAKE i \in 1..Len(u)
  <2>1. CASE i <= Len(s)
    <3>1. i \in 1..Len(s) /\ u[i] = s[i]
      BY <1>1, <1>2, <2>1
    <3> QED BY <3>1
  <2>2. CASE ~(i <= Len(s))
    <3>1. i - Len(s) \in 1..Len(t) /\ u[i] = t[i - Len(s)]
      BY <1>1, <1>2, <2>2
    <3> QED BY <3>1
  <2> QED BY <2>1, <2>2
<1>4. TextNamed(u)
  BY <1>3 DEF TextNamed
<1> QED BY <1>1, <1>4 DEF u

\* A text that says nothing of sounds goes last.
LEMMA PictureLast ==
    ASSUME NEW s, NEW p, NEW e, NEW K, NEW K2, IsSeq(s), TextNamed(s), TextsPass(s, "write", e, K, K2),
           p \in OneOf(Picture)
    PROVE  TextNamed(s \o p) /\ TextsPass(s \o p, "write", e, K, K2)
<1>1. PICK m \in Picture : p = <<m>>
  BY DEF OneOf
<1>2. m.kind = "picture"
  BY DEF Picture
<1>3. s \o p = Append(s, m)
  BY <1>1, SeqJoinedOne
<1>4. Takes(K2, m, K2, "write", e)
  BY <1>2 DEF Takes, Heard
<1>5. TextsPass(s \o p, "write", e, K, K2)
  BY <1>3, <1>4, TextsMore
<1>6. TextNamed(s \o p)
  <2>1. IsSeq(p) /\ Len(p) = 1 /\ p[1] = m
    BY <1>1, OneIsSeq
  <2>2. TextNamed(p)
    BY <1>2, <2>1 DEF TextNamed
  <2> QED BY <2>1, <2>2, TextNamedJoin
<1> QED BY <1>5, <1>6

LEMMA TextNamedNone == TextNamed(<<>>)
BY EmptyIsSeq DEF TextNamed

\* What the two queues do to what the page knows.
LEMMA TextsKnown ==
    ASSUME SoundsInv, IsSeq(writer.batch), IsSeq(outText), writer.pc # "sending", NEW pc, pc # "sending"
    PROVE  \E K, K2 : /\ TextsPass(writer.batch, pc, epoch, Known(page.table), K)
                      /\ TextsPass(outText, pc, epoch, K, K2)
                      /\ TextsPass(outText, "queued", epoch, K, K2)
                      /\ TextsPass(writer.batch \o outText, pc, epoch, Known(page.table), K2)
                      /\ Held(loop.defs, K2)
<1>1. PICK K, K2 :
        /\ TextsPass(writer.batch, writer.pc, epoch, Known(page.table), K)
        /\ TextsPass(outText, "queued", epoch, K, K2)
        /\ Held(loop.defs, K2)
  BY DEF SoundsInv, AllKnown
<1>2. TextsPass(writer.batch, pc, epoch, Known(page.table), K)
  BY <1>1, TextsSame
<1>3. TextsPass(outText, pc, epoch, K, K2)
  BY <1>1, TextsSame
<1>4. TextsPass(writer.batch \o outText, pc, epoch, Known(page.table), K2)
  BY <1>2, <1>3, TextsJoin
<1> QED BY <1>1, <1>2, <1>3, <1>4

LEMMA TakesTextSounds == PicturesInv /\ SoundsInv /\ TakesText => SoundsInv'
<1> SUFFICES ASSUME PicturesInv, SoundsInv, TakesText PROVE SoundsInv'
  OBVIOUS
<1>1. /\ UNCHANGED afarFromWriter /\ epoch' = epoch /\ loop' = loop /\ page' = page
      /\ writer.pc = "select" /\ outText' = <<>>
      /\ writer' = [writer EXCEPT !.pc = "look", !.batch = outText]
  BY DEF TakesText, writerUnchanged, afarFromWriter
<1>2. WriterShape /\ IsSeq(outText) /\ IsSeq(writer.batch)
  BY DEF PicturesInv, Shape, Texts, WriterShape
<1>3. writer'.pc = "look" /\ writer'.batch = outText /\ writer.batch = <<>>
  BY <1>1, <1>2 DEF WriterShape
<1>4. TextNamed(outText)
  BY DEF SoundsInv, Named2
<1>5. TextNamed(writer.batch)' /\ TextNamed(outText)'
  <2>1. \A s : TextNamed(s) => \A i \in 1..Len(s) : s[i].kind = "audio" =>
              /\ WireOk(s[i].wire)
              /\ s[i].epoch = epoch' => AllNamed(NamedBy(s[i].wire), loop'.defs)
    BY <1>1 DEF TextNamed
  <2>2. TextNamed(<<>>)
    BY TextNamedNone
  <2> QED BY <1>1, <1>3, <1>4, <2>1, <2>2 DEF TextNamed
<1>6. PICK K2 : TextsPass(writer.batch \o outText, "look", epoch, Known(page.table), K2) /\ Held(loop.defs, K2)
  BY <1>1, <1>2, TextsKnown
<1>7. writer.batch \o outText = outText
  BY <1>2, <1>3, SeqJoined
<1>8. TextsPass(<<>>, "queued", epoch, K2, K2)
  BY TextsNone
<1>9. AllKnown'
  BY <1>1, <1>3, <1>6, <1>7, <1>8 DEF AllKnown
<1>10. Unmixed'
  BY <1>3 DEF Unmixed
<1> QED BY <1>1, <1>5, <1>9, <1>10, WriterSounds

LEMMA TakesPictureSounds == PicturesInv /\ SoundsInv /\ TakesPicture => SoundsInv'
<1> SUFFICES ASSUME PicturesInv, SoundsInv, TakesPicture PROVE SoundsInv'
  OBVIOUS
<1>1. /\ UNCHANGED afarFromWriter /\ epoch' = epoch /\ loop' = loop /\ page' = page
      /\ writer.pc # "sending" /\ outText' = outText
      /\ writer' = [writer EXCEPT !.pc = "append", !.picture = outFrames]
  BY DEF TakesPicture, writerUnchanged, afarFromWriter
<1>2. WriterShape /\ IsSeq(outText) /\ IsSeq(writer.batch)
  BY DEF PicturesInv, Shape, Texts, WriterShape
<1>3. writer'.pc = "append" /\ writer'.batch = writer.batch
  BY <1>1, <1>2 DEF WriterShape
<1>4. TextNamed(writer.batch)' /\ TextNamed(outText)'
  BY <1>1, <1>3 DEF SoundsInv, Named2, TextNamed
<1>5. PICK K, K2 : /\ TextsPass(writer.batch, "append", epoch, Known(page.table), K)
                   /\ TextsPass(outText, "queued", epoch, K, K2) /\ Held(loop.defs, K2)
  BY <1>1, <1>2, TextsKnown
<1>6. AllKnown'
  BY <1>1, <1>3, <1>5 DEF AllKnown
<1>7. Unmixed'
  BY <1>3 DEF Unmixed
<1> QED BY <1>1, <1>4, <1>6, <1>7, WriterSounds

LEMMA GoesWithoutPictureSounds == PicturesInv /\ SoundsInv /\ GoesWithoutPicture => SoundsInv'
<1> SUFFICES ASSUME PicturesInv, SoundsInv, GoesWithoutPicture PROVE SoundsInv'
  OBVIOUS
<1>1. /\ UNCHANGED afarFromWriter /\ epoch' = epoch /\ loop' = loop /\ page' = page
      /\ writer.pc # "sending"
      /\ \/ writer' = [writer EXCEPT !.pc = "write", !.batch = @ \o outText] /\ outText' = <<>>
         \/ writer' = [writer EXCEPT !.pc = "write"] /\ outText' = outText
  BY DEF GoesWithoutPicture, writerUnchanged, afarFromWriter
<1>2. WriterShape /\ IsSeq(outText) /\ IsSeq(writer.batch)
  BY DEF PicturesInv, Shape, Texts, WriterShape
<1> DEFINE b == writer.batch
           j == b \o outText
<1>3. /\ writer'.pc = "write"
      /\ \/ writer'.batch = j /\ outText' = <<>>
         \/ writer'.batch = b /\ outText' = outText
  BY <1>1, <1>2 DEF WriterShape
<1>4. TextNamed(b) /\ TextNamed(outText) /\ TextNamed(j) /\ TextNamed(<<>>)
  BY <1>2, TextNamedJoin, TextNamedNone DEF SoundsInv, Named2
<1>5. PICK K, K2 : /\ TextsPass(b, "write", epoch, Known(page.table), K)
                   /\ TextsPass(outText, "queued", epoch, K, K2)
                   /\ TextsPass(j, "write", epoch, Known(page.table), K2)
                   /\ Held(loop.defs, K2)
  BY <1>1, <1>2, TextsKnown
<1>6. TextsPass(<<>>, "queued", epoch, K2, K2)
  BY TextsNone
<1> HIDE DEF j, b
<1>7. AllKnown'
  BY <1>1, <1>3, <1>5, <1>6 DEF AllKnown
<1>8. TextNamed(writer.batch)' /\ TextNamed(outText)'
  BY <1>1, <1>3, <1>4 DEF TextNamed
<1>9. Unmixed'
  BY <1>3 DEF Unmixed
<1> QED BY <1>1, <1>7, <1>8, <1>9, WriterSounds

LEMMA AppendsPictureSounds == PicturesInv /\ SoundsInv /\ AppendsPicture => SoundsInv'
<1> SUFFICES ASSUME PicturesInv, SoundsInv, AppendsPicture PROVE SoundsInv'
  OBVIOUS
<1>1. /\ UNCHANGED afarFromWriter /\ epoch' = epoch /\ loop' = loop /\ page' = page
      /\ writer.pc = "append" /\ outText' = <<>>
      /\ writer' = [writer EXCEPT !.pc = "write", !.batch = @ \o outText \o writer.picture, !.picture = <<>>]
  BY DEF AppendsPicture, writerUnchanged, afarFromWriter
<1>2. WriterShape /\ IsSeq(outText) /\ IsSeq(writer.batch) /\ writer.picture \in OneOf(Picture)
  BY <1>1 DEF PicturesInv, Shape, Texts, WriterShape
<1> DEFINE j == writer.batch \o outText
           b == j \o writer.picture
<1>3. writer'.pc = "write" /\ writer'.batch = b
  BY <1>1, <1>2 DEF WriterShape
<1>4. TextNamed(j) /\ IsSeq(j)
  BY <1>2, TextNamedJoin DEF SoundsInv, Named2
<1>5. PICK K2 : TextsPass(j, "write", epoch, Known(page.table), K2) /\ Held(loop.defs, K2)
  BY <1>1, <1>2, TextsKnown
<1> HIDE DEF j
<1>6. TextNamed(b) /\ TextsPass(b, "write", epoch, Known(page.table), K2)
  BY <1>2, <1>4, <1>5, PictureLast
<1>7. TextsPass(<<>>, "queued", epoch, K2, K2) /\ TextNamed(<<>>)
  BY TextsNone, TextNamedNone
<1> HIDE DEF b
<1>8. AllKnown'
  BY <1>1, <1>3, <1>5, <1>6, <1>7 DEF AllKnown
<1>9. TextNamed(writer.batch)' /\ TextNamed(outText)'
  BY <1>1, <1>3, <1>6, <1>7 DEF TextNamed
<1>10. Unmixed'
  BY <1>3 DEF Unmixed
<1> QED BY <1>1, <1>8, <1>9, <1>10, WriterSounds

LEMMA WritesSounds == PicturesInv /\ SoundsInv /\ Writes => SoundsInv'
<1> SUFFICES ASSUME PicturesInv, SoundsInv, Writes PROVE SoundsInv'
  OBVIOUS
<1> DEFINE b == writer.batch
           w == WrittenOf(b)
<1>1. /\ UNCHANGED afarFromWriter /\ epoch' = epoch /\ loop' = loop /\ page' = page
      /\ writer.pc = "write" /\ outText' = outText /\ writer' = Sending(w)
  BY DEF Writes, writerUnchanged, afarFromWriter
<1>2. IsSeq(b) /\ IsSeq(outText)
  BY DEF PicturesInv, Shape, Texts, WriterShape
<1>3. PICK h : Leaves(w, b, Len(b), h)
  BY <1>2, WrittenLeaves
<1>4. PICK K, K2 : /\ TextsPass(b, "write", epoch, Known(page.table), K)
                   /\ TextsPass(outText, "queued", epoch, K, K2)
                   /\ Held(loop.defs, K2)
  BY <1>1, <1>2, TextsKnown
<1>5. TextsPass(w, "sending", epoch, Known(page.table), K)
  BY <1>2, <1>4, TextsWritten
<1> HIDE DEF w
<1>6. writer'.batch = w /\ writer'.pc = IF w = <<>> THEN "select" ELSE "sending"
  BY <1>1 DEF Sending
<1>7. \A i \in 1..Len(w) : h[i] \in 1..Len(b) /\ w[i] = b[h[i]] /\ Current(w[i])
  BY <1>3 DEF Leaves
<1>8. TextNamed(b) /\ TextNamed(outText)
  BY DEF SoundsInv, Named2
<1>9. TextNamed(w)
  BY <1>7, <1>8 DEF TextNamed
<1>10. TextNamed(writer.batch)' /\ TextNamed(outText)'
  BY <1>1, <1>6, <1>8, <1>9 DEF TextNamed
<1>11. AllKnown'
  <2>1. CASE w = <<>>
    <3>1. TextsPass(w, "select", epoch, Known(page.table), K)
      BY <1>5, <2>1, EmptyIsSeq DEF TextsPass, TextsBy
    <3> QED BY <1>1, <1>4, <1>6, <2>1, <3>1 DEF AllKnown
  <2>2. CASE w # <<>>
    BY <1>1, <1>4, <1>5, <1>6, <2>2 DEF AllKnown
  <2> QED BY <2>1, <2>2
<1>12. Unmixed'
  <2>1. \A i \in 1..Len(w) : w[i].kind = "audio" => w[i].epoch = epoch
    BY <1>7 DEF Current, OfTheTimeline
  <2> QED BY <1>1, <1>6, <2>1 DEF Unmixed
<1> QED BY <1>1, <1>10, <1>11, <1>12, WriterSounds

-----------------------------------------------------------------------------
(***************************************************************************)
(* The page takes a message.                                               *)
(***************************************************************************)
afarFromPage == <<epoch, game, loop, collector, outText>>

Learns(m) == \A K : Takes(Known(page.table), m, K, "sending", epoch) => K \subseteq Known(page'.table)

LEMMA PageSounds ==
    ASSUME PicturesInv, SoundsInv, NEW m, Receives(m), UNCHANGED afarFromPage, Learns(m),
           page'.epoch = epoch => AllNamed(page'.table, loop.defs),
           page'.epoch = epoch => page.epoch = epoch \/ Restores(m, epoch),
           page'.skipped = FALSE
    PROVE  SoundsInv'
<1> DEFINE b == writer.batch
           t == Tail(b)
<1>1. epoch' = epoch /\ game' = game /\ loop' = loop /\ collector' = collector /\ outText' = outText
  BY DEF afarFromPage
<1>2. /\ writer.pc = "sending" /\ IsSeq(b) /\ Len(b) \in Nat \ {0} /\ b # <<>>
      /\ m = b[1] /\ writer' = Sending(t)
  BY HeadFacts, SeqIndices
<1>3. IsSeq(t) /\ Len(t) = Len(b) - 1 /\ \A i \in 1..(Len(b) - 1) : t[i] = b[i + 1]
  BY <1>2, SeqTail
<1>4. TextNamed(b) /\ TextNamed(outText) /\ Unmixed
  BY DEF SoundsInv, Named2
<1>5. PICK K, K2 : /\ TextsPass(b, "sending", epoch, Known(page.table), K)
                   /\ TextsPass(outText, "queued", epoch, K, K2)
                   /\ Held(loop.defs, K2)
  BY <1>2 DEF SoundsInv, AllKnown
<1>6. PICK K1 : Takes(Known(page.table), m, K1, "sending", epoch) /\ TextsPass(t, "sending", epoch, K1, K)
  BY <1>2, <1>5, TextsTail
<1>7. TextsPass(t, "sending", epoch, Known(page'.table), K)
  <2>1. K1 \subseteq Known(page'.table)
    BY <1>6 DEF Learns
  <2> QED BY <1>6, <2>1, TextsLess
<1> HIDE DEF t
<1>8. writer'.batch = t /\ writer'.pc = IF t = <<>> THEN "select" ELSE "sending"
  BY <1>2 DEF Sending
<1>9. \A i \in 1..Len(t) : i + 1 \in 1..Len(b) /\ t[i] = b[i + 1]
  BY <1>2, <1>3
<1> HIDE DEF b
<1>10. TextNamed(t)
  BY <1>4, <1>9 DEF TextNamed
<1>11. TextNamed(writer.batch)' /\ TextNamed(outText)'
  BY <1>1, <1>4, <1>8, <1>10 DEF TextNamed
<1>12. Named2'
  BY <1>1, <1>11 DEF Named2
<1>13. AllKnown'
  <2>1. CASE t = <<>>
    <3>1. TextsPass(t, "select", epoch, Known(page'.table), K)
      BY <1>7, <2>1, EmptyIsSeq DEF TextsPass, TextsBy
    <3> QED BY <1>1, <1>5, <1>8, <2>1, <3>1 DEF AllKnown
  <2>2. CASE t # <<>>
    BY <1>1, <1>5, <1>7, <1>8, <2>2 DEF AllKnown
  <2> QED BY <2>1, <2>2
<1>14. Unmixed'
  <2>1. CASE \A i \in 1..Len(b) : b[i].kind = "audio" => b[i].epoch = epoch
    BY <1>1, <1>8, <1>9, <2>1 DEF Unmixed
  <2>2. CASE page.epoch # epoch /\ UnsaidIn(b, epoch)
    <3>1. ~Restores(m, epoch)
      BY <1>2, <2>2 DEF UnsaidIn
    <3>2. page'.epoch # epoch
      BY <2>2, <3>1
    <3>3. UnsaidIn(t, epoch)
      BY <1>9, <2>2 DEF UnsaidIn
    <3> QED BY <1>1, <1>8, <3>2, <3>3 DEF Unmixed
  <2> QED BY <1>2, <1>4, <2>1, <2>2 DEF Unmixed, b
<1>15. CollectorShape' /\ DefsKept'
  BY <1>1 DEF SoundsInv, CollectorShape, DefsKept
<1> QED BY <1>12, <1>13, <1>14, <1>15 DEF SoundsInv

\* The texts that hold no sound.
LEMMA PageLeavesSounds ==
    ASSUME PicturesInv, SoundsInv, NEW m, Receives(m), UNCHANGED afarFromPage,
           m.kind \notin {"audio", "restored"}, page'.table = page.table, page'.epoch = page.epoch,
           page'.skipped = FALSE
    PROVE  SoundsInv'
<1>1. Learns(m)
  BY DEF Learns, Takes, Heard
<1>2. page'.epoch = epoch => AllNamed(page'.table, loop.defs)
  BY DEF SoundsInv, Named2
<1> QED BY <1>1, <1>2, PageSounds

LEMMA ReceivesRestoredSounds ==
    ASSUME PicturesInv, SoundsInv, NEW m, ReceivesRestored(m)
    PROVE  SoundsInv'
<1>1. /\ Receives(m) /\ UNCHANGED afarFromPage /\ m.kind = "restored"
      /\ page' = IF m.epoch <= page.epoch THEN page
                 ELSE [epoch |-> m.epoch, canvas |-> NoPicture, table |-> {}, sounding |-> {},
                       pending |-> FALSE, skipped |-> page.skipped]
  BY DEF ReceivesRestored, pageUnchanged, afarFromPage
<1>2. page.skipped = FALSE /\ (page.epoch = epoch => AllNamed(page.table, loop.defs))
  BY DEF SoundsInv, Named2
<1>3. Learns(m)
  BY <1>1 DEF Learns, Takes
<1>4. CASE m.epoch <= page.epoch
  <2>1. page' = page
    BY <1>1, <1>4
  <2>2. page'.epoch = epoch => page.epoch = epoch \/ Restores(m, epoch)
    BY <2>1
  <2> QED BY <1>1, <1>2, <1>3, <2>1, <2>2, PageSounds
<1>5. CASE ~(m.epoch <= page.epoch)
  <2>1. page' = [epoch |-> m.epoch, canvas |-> NoPicture, table |-> {}, sounding |-> {},
                 pending |-> FALSE, skipped |-> page.skipped]
    BY <1>1, <1>5
  <2>2. page'.epoch = m.epoch /\ page'.table = {} /\ page'.skipped = page.skipped
    BY <2>1
  <2>3. page'.epoch = epoch => page.epoch = epoch \/ Restores(m, epoch)
    BY <1>1, <2>2 DEF Restores
  <2>4. AllNamed(page'.table, loop.defs)
    BY <2>2 DEF AllNamed
  <2> QED BY <1>1, <1>2, <1>3, <2>2, <2>3, <2>4, PageSounds
<1> QED BY <1>4, <1>5

LEMMA ReceivesSoundSounds ==
    ASSUME PicturesInv, SoundsInv, NEW m, NEW refused \in BOOLEAN, ReceivesSound(m, refused)
    PROVE  SoundsInv'
<1> DEFINE d == Decode(page.table, page.sounding, m.wire)
           p == [page EXCEPT !.table = d.table, !.skipped = @ \/ d.skipped]
           E == page.table \cup NamedBy(m.wire)
<1>1. Receives(m) /\ UNCHANGED afarFromPage /\ m.kind = "audio"
  BY DEF ReceivesSound, pageUnchanged, afarFromPage
<1>2. \/ page' = p
      \/ page' = [p EXCEPT !.pending = FALSE, !.sounding = d.sounding]
      \/ Recovers([p EXCEPT !.pending = FALSE])
  BY DEF ReceivesSound
<1>3. \/ page' = p
      \/ page' = [p EXCEPT !.pending = FALSE, !.sounding = d.sounding]
      \/ page' = [[p EXCEPT !.pending = FALSE] EXCEPT !.pending = TRUE, !.sounding = {}]
      \/ page' = [p EXCEPT !.pending = FALSE]
  BY <1>2, Zenon DEF Recovers
<1>4. page.skipped = FALSE /\ (page.epoch = epoch => AllNamed(page.table, loop.defs)) /\ TextNamed(writer.batch) /\ Unmixed
  BY DEF SoundsInv, Named2
<1>5. /\ writer.pc = "sending" /\ 1 \in 1..Len(writer.batch) /\ m = writer.batch[1]
  BY <1>1, HeadFacts
<1>6. WireOk(m.wire) /\ (m.epoch = epoch => AllNamed(NamedBy(m.wire), loop.defs))
  BY <1>1, <1>4, <1>5 DEF TextNamed
<1>7. ASSUME NEW K, WirePasses(m.wire, Known(page.table), K) PROVE DecodedTo(d, K, E)
  BY <1>6, <1>7, DecodeDoes
<1>8. PICK K1 : WirePasses(m.wire, Known(page.table), K1)
  <2>1. PICK K : TextsPass(writer.batch, "sending", epoch, Known(page.table), K)
    BY <1>5 DEF SoundsInv, AllKnown
  <2>2. IsSeq(writer.batch) /\ writer.batch # <<>>
    BY <1>1, HeadFacts, SeqIndices
  <2>3. \E K1 : Takes(Known(page.table), m, K1, "sending", epoch)
    BY <1>5, <2>1, <2>2, TextsTail
  <2> QED BY <1>1, <2>3 DEF Takes, Heard
<1>9. DecodedTo(d, K1, E)
  BY <1>7, <1>8
<1> HIDE DEF d
<1>10. d.skipped = FALSE /\ d.table \subseteq E
  BY <1>9 DEF DecodedTo
<1>11. /\ page = [epoch |-> page.epoch, canvas |-> page.canvas, table |-> page.table,
                  sounding |-> page.sounding, pending |-> page.pending, skipped |-> page.skipped]
  BY DEF PicturesInv, Shape, PageShape
<1>12. /\ p = [epoch |-> p.epoch, canvas |-> p.canvas, table |-> p.table,
               sounding |-> p.sounding, pending |-> p.pending, skipped |-> p.skipped]
       /\ p.epoch = page.epoch /\ p.table = d.table /\ p.skipped = FALSE
  <2> DEFINE y == page.skipped \/ d.skipped
  <2>1. y = FALSE
    BY <1>4, <1>10, Zenon
  <2>2. p = [page EXCEPT !.table = d.table, !.skipped = y]
    OBVIOUS
  <2> HIDE DEF y, p
  <2> QED BY <1>11, <2>1, <2>2
<1> HIDE DEF p
<1>13. page'.epoch = page.epoch /\ page'.table = d.table /\ page'.skipped = FALSE
  BY <1>3, <1>12
<1>14. Learns(m)
  <2>1. ASSUME NEW K, Takes(Known(page.table), m, K, "sending", epoch) PROVE K \subseteq Known(page'.table)
    <3>1. WirePasses(m.wire, Known(page.table), K)
      BY <1>1, <2>1 DEF Takes, Heard
    <3>2. DecodedTo(d, K, E)
      BY <1>7, <3>1
    <3> QED BY <1>13, <3>2 DEF DecodedTo
  <2> QED BY <2>1 DEF Learns
<1>15. page'.epoch = epoch => AllNamed(page'.table, loop.defs)
  <2>1. SUFFICES ASSUME page.epoch = epoch PROVE AllNamed(d.table, loop.defs)
    BY <1>13
  <2>2. m.epoch = epoch
    BY <1>1, <1>4, <1>5, <2>1 DEF Unmixed
  <2>3. AllNamed(E, loop.defs)
    BY <1>4, <1>6, <2>1, <2>2, NamedMore
  <2> QED BY <1>10, <2>3 DEF AllNamed
<1> QED BY <1>1, <1>13, <1>14, <1>15, PageSounds

LEMMA PageStepSounds ==
    ASSUME PicturesInv, SoundsInv, PageStep
    PROVE  SoundsInv'
<1>1. PICK m : \/ ReceivesPicture(m)
               \/ \E refused \in BOOLEAN : ReceivesSound(m, refused)
               \/ ReceivesRestored(m) \/ ReceivesStarted(m) \/ ReceivesAnswer(m)
  BY DEF PageStep
<1>2. page = [epoch |-> page.epoch, canvas |-> page.canvas, table |-> page.table,
              sounding |-> page.sounding, pending |-> page.pending, skipped |-> page.skipped]
  BY DEF PicturesInv, Shape, PageShape
<1>3. page.skipped = FALSE
  BY DEF SoundsInv
<1>4. CASE ReceivesPicture(m)
  <2>1. /\ Receives(m) /\ UNCHANGED afarFromPage /\ m.kind = "picture"
        /\ \E x : page' = [page EXCEPT !.canvas = x]
    BY <1>4, Zenon DEF ReceivesPicture, pageUnchanged, afarFromPage
  <2>2. page'.epoch = page.epoch /\ page'.table = page.table /\ page'.skipped = page.skipped
    BY <1>2, <2>1
  <2> QED BY <1>3, <2>1, <2>2, PageLeavesSounds
<1>5. CASE ReceivesStarted(m)
  <2>1. /\ Receives(m) /\ UNCHANGED afarFromPage /\ m.kind = "started"
        /\ \E x : page' = [page EXCEPT !.epoch = m.epoch, !.pending = x]
    BY <1>5, Zenon DEF ReceivesStarted, pageUnchanged, afarFromPage
  <2>2. m.epoch = page.epoch
    BY <2>1, HeadFacts
  <2>3. page'.epoch = page.epoch /\ page'.table = page.table /\ page'.skipped = page.skipped
    BY <1>2, <2>1, <2>2
  <2> QED BY <1>3, <2>1, <2>3, PageLeavesSounds
<1>6. CASE ReceivesAnswer(m)
  <2>1. Receives(m) /\ UNCHANGED afarFromPage /\ m.kind \in {"result", "error"} /\ page' = page
    BY <1>6 DEF ReceivesAnswer, pageUnchanged, afarFromPage
  <2> QED BY <1>3, <2>1, PageLeavesSounds
<1> QED BY <1>1, <1>4, <1>5, <1>6, ReceivesSoundSounds, ReceivesRestoredSounds

-----------------------------------------------------------------------------
(***************************************************************************)
(* Every step of every part.                                               *)
(***************************************************************************)
LEMMA SoundsInit == Init => SoundsInv
<1> SUFFICES ASSUME Init PROVE SoundsInv
  OBVIOUS
<1>1. /\ epoch = 0 /\ outText = <<>> /\ collector = Quiet
      /\ game = [on |-> FALSE, shows |-> None, flushed |-> FALSE, sounding |-> {}, epoch |-> 0, line |-> 0]
      /\ loop = [pc |-> "run", then |-> "run", force |-> FALSE, needsReset |-> FALSE,
                 audio |-> FALSE, defs |-> NoDefinitions]
      /\ writer = [pc |-> "select", batch |-> <<>>, picture |-> <<>>]
      /\ page = [epoch |-> 0, canvas |-> NoPicture, table |-> {}, sounding |-> {},
                 pending |-> FALSE, skipped |-> FALSE]
  BY DEF Init
<1> HIDE DEF NoDefinitions
<1>2. /\ game.sounding = {} /\ loop.pc = "run" /\ loop.defs = NoDefinitions
      /\ writer.pc = "select" /\ writer.batch = <<>> /\ page.epoch = 0 /\ page.table = {}
      /\ page.skipped = FALSE
  BY <1>1
<1>3. CollectorShape
  <2>1. CollectorOk(Quiet)
    BY EmptyIsSeq DEF CollectorOk, Quiet, EventsOk
  <2> QED BY <1>1, <1>2, <2>1, FS_EmptySet DEF CollectorShape, CollectorOk
<1>4. DefsKept
  BY <1>2, NoDefinitionsOk DEF DefsKept
<1>5. Named2
  BY <1>1, <1>2, EmptyIsSeq DEF Named2, TextNamed, AllNamed
<1>6. AllKnown
  <2>1. TextsPass(<<>>, "select", epoch, Known({}), Known({})) /\ TextsPass(<<>>, "queued", epoch, Known({}), Known({}))
    BY TextsNone
  <2>2. Held(loop.defs, Known({}))
    BY <1>2, NoDefinitionsOk, NoneHeld
  <2> QED BY <1>1, <1>2, <2>1, <2>2 DEF AllKnown
<1>7. Unmixed
  BY <1>2 DEF Unmixed
<1> QED BY <1>2, <1>3, <1>4, <1>5, <1>6, <1>7 DEF SoundsInv

LEMMA SoundsStep ==
    ASSUME ContentAssumption, PicturesInv, SoundsInv, [Next]_vars
    PROVE  SoundsInv'
<1>1. CASE LoopStep
  <2>1. CASE HandlesCommand
    BY <2>1, RefusesSounds, HandlesScaleSounds, HandlesAudioResumeSounds, ClosesSounds, QuickLoadsSounds,
       HandlesResumeSounds DEF HandlesCommand
  <2> QED BY <1>1, <2>1, TickEndsSounds, FlushesSoundSounds, WaitsToRebuildSounds, RebuildsSoundSounds,
          SilencesPageSounds, AnswersSounds, StartedSounds, PushesFirstSounds, TellsRestoredSounds,
          RebuildsLoadedSounds, PushesLoadedSounds DEF LoopStep
<1>2. ASSUME EncoderStep \/ UNCHANGED vars PROVE SoundsInv'
  <2>1. /\ UNCHANGED soundAlone /\ game' = game /\ loop' = loop /\ collector' = collector /\ outText' = outText
        /\ CollectorShape
    BY <1>2 DEF EncoderStep, TakesFrame, EncodesFrame, HandsPicture, encoderUnchanged, vars, soundAlone, SoundsInv
  <2>2. CollectorShape'
    BY <2>1, CollectorStays
  <2> QED BY <2>1, <2>2, QuietKeeps
<1>3. CASE WriterStep
  BY <1>3, TakesTextSounds, TakesPictureSounds, GoesWithoutPictureSounds, AppendsPictureSounds, WritesSounds
     DEF WriterStep
<1>4. CASE PageStep
  BY <1>4, PageStepSounds
<1>5. CASE Environment
  BY <1>5, GuestSounds, ClosesSounds DEF Environment
<1> QED BY <1>1, <1>2, <1>3, <1>4, <1>5 DEF Next

\* A number in use that the page has a definition for means the same to both.
LEMMA DefinedFollows == SoundsInv => SoundsAreDefined
<1> SUFFICES ASSUME SoundsInv PROVE SoundsAreDefined
  OBVIOUS
<1>1. ~page.skipped
  <2>1. page.skipped = FALSE
    BY DEF SoundsInv
  <2> QED BY <2>1, Zenon
<1>2. ASSUME NEW x \in page.table, NEW s \in Sounds, x[1] = loop.defs.ids[s], page.epoch = epoch
      PROVE  x[2] = s
  BY <1>2 DEF SoundsInv, Named2, AllNamed, Named
<1> QED BY <1>1, <1>2 DEF SoundsAreDefined

\* SoundsAreDefined, for any sounds, queues, budgets and people: the page never
\* skips a sound for want of its definition, and a number means to it what it
\* means to the loop.
THEOREM SoundsStayDefined ==
    ASSUME ContentAssumption
    PROVE  Spec => []SoundsAreDefined
<1>1. Init => PicturesInv /\ SoundsInv
  BY PicturesInit, SoundsInit
<1>2. PicturesInv /\ SoundsInv /\ [Next]_vars => (PicturesInv /\ SoundsInv)'
  BY PicturesStep, SoundsStep
<1>3. PicturesInv /\ SoundsInv => SoundsAreDefined
  BY DefinedFollows
<1> QED BY <1>1, <1>2, <1>3, PTL DEF Spec

-----------------------------------------------------------------------------
(***************************************************************************)
(* What is heard of a message: of those sounding before it in S, of the      *)
(* first n operations in w.                                                *)
(***************************************************************************)
Starts(o, t) == o.op = "start" /\ o.sound = t
Silences(o, t) == o.op = "allOff" \/ (o.op = "stop" /\ o.sound = t)
PlayedTo(S, w, n) ==
    {t \in Sounds : \/ t \in S /\ \A j \in 1..n : ~Silences(w[j], t)
                    \/ \E j \in 1..n : Starts(w[j], t) /\ \A i \in (j + 1)..n : ~Silences(w[i], t)}
Played(S, w) == PlayedTo(S, w, Len(w))
ResetsTo(w, n) == \E j \in 1..n : w[j].op = "allOff"
Resets(w) == ResetsTo(w, Len(w))

Heeds(P, o) == {t \in Sounds : Starts(o, t) \/ (t \in P /\ ~Silences(o, t))}

LEMMA PlayedNothing ==
    ASSUME NEW S, NEW w
    PROVE  PlayedTo(S, w, 0) = S \cap Sounds /\ ~ResetsTo(w, 0)
BY DEF PlayedTo, ResetsTo

\* An operation more.
LEMMA PlayedMore ==
    ASSUME NEW S, NEW w, NEW n \in Nat
    PROVE  /\ PlayedTo(S, w, n + 1) = Heeds(PlayedTo(S, w, n), w[n + 1])
           /\ ResetsTo(w, n + 1) <=> (ResetsTo(w, n) \/ w[n + 1].op = "allOff")
<1> DEFINE o == w[n + 1]
           P == PlayedTo(S, w, n)
           Q == PlayedTo(S, w, n + 1)
<1>1. \A j : j \in 1..(n + 1) <=> j \in 1..n \/ j = n + 1
  OBVIOUS
<1>2. \A j \in 1..n : \A i : i \in (j + 1)..(n + 1) <=> i \in (j + 1)..n \/ i = n + 1
  OBVIOUS
<1>3. \A i : ~(i \in ((n + 1) + 1)..(n + 1))
  OBVIOUS
<1>4. ASSUME NEW t \in Sounds PROVE t \in Q <=> (Starts(o, t) \/ (t \in P /\ ~Silences(o, t)))
  <2>1. (t \in S /\ \A j \in 1..(n + 1) : ~Silences(w[j], t))
        <=> ((t \in S /\ \A j \in 1..n : ~Silences(w[j], t)) /\ ~Silences(o, t))
    BY <1>1, Zenon
  <2>2. (\E j \in 1..(n + 1) : Starts(w[j], t) /\ \A i \in (j + 1)..(n + 1) : ~Silences(w[i], t))
        <=> \/ Starts(o, t)
            \/ /\ \E j \in 1..n : Starts(w[j], t) /\ \A i \in (j + 1)..n : ~Silences(w[i], t)
               /\ ~Silences(o, t)
    <3>1. ASSUME NEW j \in 1..n
          PROVE  (\A i \in (j + 1)..(n + 1) : ~Silences(w[i], t))
                 <=> ((\A i \in (j + 1)..n : ~Silences(w[i], t)) /\ ~Silences(o, t))
      BY <1>2, Zenon
    <3>2. \A i \in ((n + 1) + 1)..(n + 1) : ~Silences(w[i], t)
      BY <1>3
    <3> QED BY <1>1, <3>1, <3>2, Zenon
  <2> QED BY <2>1, <2>2, Zenon DEF PlayedTo
<1>5. Q = Heeds(P, o)
  <2>1. Q \subseteq Sounds /\ Heeds(P, o) \subseteq Sounds
    BY DEF PlayedTo, Heeds
  <2>2. \A t \in Sounds : t \in Heeds(P, o) <=> (Starts(o, t) \/ (t \in P /\ ~Silences(o, t)))
    BY DEF Heeds
  <2> HIDE DEF P, Q, o
  <2> QED BY <1>4, <2>1, <2>2
<1> QED BY <1>1, <1>5 DEF ResetsTo

\* What comes after is not heard yet.
LEMMA PlayedSame ==
    ASSUME NEW S, NEW w, NEW u, NEW n \in Nat, \A i \in 1..n : u[i] = w[i]
    PROVE  PlayedTo(S, u, n) = PlayedTo(S, w, n) /\ (ResetsTo(u, n) <=> ResetsTo(w, n))
<1>1. \A j \in 1..n : \A i \in (j + 1)..n : i \in 1..n
  OBVIOUS
<1> QED BY <1>1 DEF PlayedTo, ResetsTo

LEMMA PlayedAppended ==
    ASSUME NEW S, NEW w, IsSeq(w), NEW o
    PROVE  /\ Played(S, Append(w, o)) = Heeds(Played(S, w), o)
           /\ Resets(Append(w, o)) <=> (Resets(w) \/ o.op = "allOff")
<1> DEFINE u == Append(w, o)
<1>1. /\ Len(u) = Len(w) + 1 /\ Len(w) \in Nat /\ u[Len(w) + 1] = o
      /\ \A i \in 1..Len(w) : u[i] = w[i]
  BY SeqAppended, SeqIndices
<1> HIDE DEF u
<1>2. /\ PlayedTo(S, u, Len(w) + 1) = Heeds(PlayedTo(S, u, Len(w)), o)
      /\ ResetsTo(u, Len(w) + 1) <=> (ResetsTo(u, Len(w)) \/ o.op = "allOff")
  BY <1>1, PlayedMore
<1>3. PlayedTo(S, u, Len(w)) = PlayedTo(S, w, Len(w)) /\ (ResetsTo(u, Len(w)) <=> ResetsTo(w, Len(w)))
  BY <1>1, PlayedSame
<1> QED BY <1>1, <1>2, <1>3 DEF Played, Resets, u

LEMMA PlayedSounds == ASSUME NEW S, NEW w PROVE Played(S, w) \subseteq Sounds
BY DEF Played, PlayedTo

\* The three kinds of messages that set what sounds.
LEMMA PlayedAllOff ==
    ASSUME NEW S
    PROVE  Played(S, <<AllOff>>) = {} /\ Resets(<<AllOff>>)
<1>1. Played(S, Append(<<>>, AllOff)) = Heeds(Played(S, <<>>), AllOff) /\ Resets(Append(<<>>, AllOff))
  BY EmptyIsSeq, PlayedAppended DEF AllOff
<1>2. Heeds(Played(S, <<>>), AllOff) = {}
  BY DEF Heeds, Starts, Silences, AllOff
<1>3. Append(<<>>, AllOff) = <<AllOff>>
  OBVIOUS
<1> QED BY <1>1, <1>2, <1>3

-----------------------------------------------------------------------------
(***************************************************************************)
(* What the loop means by a message is what is heard of it.                *)
(***************************************************************************)
\* Every number ever given in a timeline, and the sound it was given to.
Numbering(N, d) ==
    /\ \A x \in N : x = <<x[1], x[2]>> /\ x[1] \in 1..d.last /\ x[2] \in Sounds
    /\ \A x, y \in N : x[1] = y[1] => x = y
    /\ \A s \in Sounds : d.ids[s] # 0 => <<d.ids[s], s>> \in N
Uses(w, N) == \A j \in 1..Len(w) : w[j].op \in {"define", "start"} => <<w[j].id, w[j].sound>> \in N

MeansTo(w, events, n) ==
    /\ \A S : Played(S, w) = PlayedTo(S, events, n)
    /\ Resets(w) <=> ResetsTo(events, n)
EncodedTo(e, N, events, n) == Numbering(N, e.defs) /\ Uses(e.wire, N) /\ MeansTo(e.wire, events, n)

\* An operation that is heard as the next one of events.
LEMMA MeansMore ==
    ASSUME NEW w, IsSeq(w), NEW events, NEW n \in Nat, MeansTo(w, events, n), NEW o,
           \A t \in Sounds : Starts(o, t) <=> Starts(events[n + 1], t),
           \A t \in Sounds : Silences(o, t) <=> Silences(events[n + 1], t),
           o.op = "allOff" <=> events[n + 1].op = "allOff"
    PROVE  MeansTo(Append(w, o), events, n + 1)
<1> DEFINE x == events[n + 1]
           u == Append(w, o)
<1>1. ASSUME NEW S PROVE Played(S, u) = PlayedTo(S, events, n + 1)
  <2>1. Played(S, u) = Heeds(Played(S, w), o)
    BY PlayedAppended
  <2>2. Heeds(Played(S, w), o) = Heeds(Played(S, w), x)
    BY DEF Heeds
  <2>3. Played(S, w) = PlayedTo(S, events, n)
    BY DEF MeansTo
  <2>4. PlayedTo(S, events, n + 1) = Heeds(PlayedTo(S, events, n), x)
    BY PlayedMore
  <2> QED BY <2>1, <2>2, <2>3, <2>4
<1>2. Resets(u) <=> ResetsTo(events, n + 1)
  <2>1. Resets(u) <=> (Resets(w) \/ o.op = "allOff")
    BY PlayedAppended
  <2>2. ResetsTo(events, n + 1) <=> (ResetsTo(events, n) \/ x.op = "allOff")
    BY PlayedMore
  <2> QED BY <2>1, <2>2 DEF MeansTo
<1> QED BY <1>1, <1>2 DEF MeansTo

\* One that is not heard.
LEMMA MeansSame ==
    ASSUME NEW w, IsSeq(w), NEW events, NEW n, MeansTo(w, events, n), NEW o, o.op \in {"define", "forget"}
    PROVE  MeansTo(Append(w, o), events, n)
<1> DEFINE u == Append(w, o)
<1>1. ASSUME NEW S PROVE Played(S, u) = PlayedTo(S, events, n)
  <2>1. Played(S, u) = Heeds(Played(S, w), o)
    BY PlayedAppended
  <2>2. Heeds(Played(S, w), o) = Played(S, w)
    <3>1. Played(S, w) \subseteq Sounds
      BY PlayedSounds
    <3>2. \A t : ~Starts(o, t) /\ ~Silences(o, t)
      BY DEF Starts, Silences
    <3> QED BY <3>1, <3>2 DEF Heeds
  <2> QED BY <2>1, <2>2 DEF MeansTo
<1>2. Resets(u) <=> Resets(w)
  BY PlayedAppended
<1> QED BY <1>1, <1>2 DEF MeansTo

LEMMA UsesMore ==
    ASSUME NEW w, IsSeq(w), NEW N, NEW N2, Uses(w, N), N \subseteq N2, NEW o,
           o.op \in {"define", "start"} => <<o.id, o.sound>> \in N2
    PROVE  Uses(Append(w, o), N2)
<1> DEFINE u == Append(w, o)
<1>1. /\ Len(u) = Len(w) + 1 /\ Len(w) \in Nat
      /\ \A i \in 1..Len(w) : u[i] = w[i]
      /\ u[Len(w) + 1] = o
  BY SeqAppended, SeqIndices
<1> HIDE DEF u
<1> SUFFICES ASSUME NEW j \in 1..Len(u), u[j].op \in {"define", "start"}
             PROVE  <<u[j].id, u[j].sound>> \in N2
  BY DEF Uses, u
<1>2. CASE j \in 1..Len(w)
  BY <1>1, <1>2 DEF Uses
<1>3. CASE j = Len(w) + 1
  BY <1>1, <1>3
<1> QED BY <1>1, <1>2, <1>3

\* A sound that has none is given the next number, after all are forgotten or
\* not.
NoRoom(e) == Cardinality({x \in Sounds : e.defs.ids[x] # 0}) >= Budget
NewDefs(e, s) ==
    LET kept == IF NoRoom(e) THEN [x \in Sounds |-> 0] ELSE e.defs.ids
        id   == e.defs.last + 1
    IN  [e.defs EXCEPT !.ids = [kept EXCEPT ![s] = id], !.last = id]
Forget        == [op |-> "forget"]
Define(id, s) == [op |-> "define", id |-> id, sound |-> s]
StartOf(id, s) == [op |-> "start", id |-> id, sound |-> s]
Cleared(e) == IF NoRoom(e) THEN Append(e.wire, Forget) ELSE e.wire
NewWire(e, s) ==
    LET id == e.defs.last + 1
    IN  Append(Append(Cleared(e), Define(id, s)), StartOf(id, s))

LEMMA NewReference ==
    ASSUME NEW e, IsSeq(e.wire), NEW s, e.defs.ids[s] = 0
    PROVE  Reference(e, s) = Encoded(NewDefs(e, s), NewWire(e, s)) /\ IsSeq(Cleared(e))
<1> DEFINE id == e.defs.last + 1
           D == Define(id, s)
           S == StartOf(id, s)
           w == Cleared(e)
<1>1. Reference(e, s) = Encoded(NewDefs(e, s), e.wire \o (IF NoRoom(e) THEN <<Forget>> ELSE <<>>) \o <<D, S>>)
  BY Zenon DEF Reference, NewDefs, NoRoom, Forget, Define, StartOf
<1>2. e.wire \o (IF NoRoom(e) THEN <<Forget>> ELSE <<>>) = w /\ IsSeq(w)
  <2>1. CASE NoRoom(e)
    BY <2>1, SeqJoinedOne, SeqAppended DEF Cleared
  <2>2. CASE ~NoRoom(e)
    BY <2>2, SeqJoined, EmptyIsSeq DEF Cleared
  <2> QED BY <2>1, <2>2
<1> HIDE DEF w, D, S
<1>3. w \o <<D, S>> = Append(Append(w, D), S)
  <2> DEFINE t == <<D, S>>
  <2>1. IsSeq(t) /\ Len(t) = 2 /\ t[1] = D /\ t[2] = S
    <3>1. t \in Seq({D, S})
      OBVIOUS
    <3> QED BY <3>1 DEF IsSeq
  <2> HIDE DEF t
  <2>2. w \o t = Append(Append(w, t[1]), t[2])
    BY <1>2, <2>1, SeqJoinedTwo
  <2> QED BY <2>1, <2>2 DEF t
<1>4. NewWire(e, s) = Append(Append(w, D), S)
  BY Zenon DEF NewWire, w, D, S
<1> QED BY <1>1, <1>2, <1>3, <1>4 DEF w

\* The definitions after it.
LEMMA NewDefsDo ==
    ASSUME NEW e, DefsShape(e.defs), NEW s \in Sounds
    PROVE  /\ NewDefs(e, s).last = e.defs.last + 1 /\ NewDefs(e, s).ids[s] = e.defs.last + 1
           /\ \A x \in Sounds \ {s} : NewDefs(e, s).ids[x] \in {0, e.defs.ids[x]}
<1> DEFINE kept == IF NoRoom(e) THEN [x \in Sounds |-> 0] ELSE e.defs.ids
           id == e.defs.last + 1
           m == [kept EXCEPT ![s] = id]
           d == NewDefs(e, s)
<1>1. kept \in [Sounds -> Nat] /\ \A x \in Sounds : kept[x] \in {0, e.defs.ids[x]}
  BY DEF DefsShape
<1>2. d = [e.defs EXCEPT !.ids = m, !.last = id]
  BY Zenon DEF NewDefs
<1> HIDE DEF kept, d
<1>3. m \in [Sounds -> Nat \cup {id}] /\ m[s] = id /\ \A x \in Sounds \ {s} : m[x] = kept[x]
  BY <1>1
<1> HIDE DEF m, id
<1>4. d.ids = m /\ d.last = id
  BY <1>2 DEF DefsShape
<1> QED BY <1>1, <1>3, <1>4 DEF d, id

LEMMA NewStartMeans ==
    ASSUME NEW e, DefsShape(e.defs), IsSeq(e.wire), NEW N, NEW events, NEW n \in Nat,
           EncodedTo(e, N, events, n), NEW s \in Sounds, e.defs.ids[s] = 0, events[n + 1].op = "start",
           events[n + 1].sound = s
    PROVE  \E N2 : N \subseteq N2 /\ EncodedTo(Reference(e, s), N2, events, n + 1)
<1> DEFINE id == e.defs.last + 1
           d == NewDefs(e, s)
           D == Define(id, s)
           S == StartOf(id, s)
           w == Cleared(e)
           w2 == Append(w, D)
           w3 == Append(w2, S)
           N2 == N \cup {<<id, s>>}
<1>1. Reference(e, s) = Encoded(d, w3) /\ IsSeq(w) /\ IsSeq(w2)
  BY NewReference, SeqAppended DEF NewWire
<1>2. Numbering(N, e.defs) /\ Uses(e.wire, N) /\ MeansTo(e.wire, events, n)
  BY DEF EncodedTo
<1>3. D.op = "define" /\ D.id = id /\ D.sound = s /\ S.op = "start" /\ S.id = id /\ S.sound = s
  BY DEF Define, StartOf
<1> HIDE DEF D, S
<1>4. Uses(w, N) /\ MeansTo(w, events, n)
  <2>1. CASE NoRoom(e)
    <3>1. Forget.op = "forget" /\ Forget.op \notin {"define", "start"} /\ N \subseteq N
      BY DEF Forget
    <3>2. Uses(Append(e.wire, Forget), N)
      BY <1>2, <3>1, UsesMore
    <3>3. MeansTo(Append(e.wire, Forget), events, n)
      BY <1>2, <3>1, MeansSame
    <3> QED BY <2>1, <3>2, <3>3 DEF Cleared
  <2>2. CASE ~NoRoom(e)
    BY <1>2, <2>2 DEF Cleared
  <2> QED BY <2>1, <2>2
<1> HIDE DEF w
<1>5. Uses(w2, N2) /\ MeansTo(w2, events, n)
  <2>1. <<D.id, D.sound>> \in N2 /\ N \subseteq N2
    BY <1>3
  <2> HIDE DEF N2
  <2> QED BY <1>1, <1>3, <1>4, <2>1, UsesMore, MeansSame
<1> HIDE DEF w2
<1>6. Uses(w3, N2) /\ MeansTo(w3, events, n + 1)
  <2>1. <<S.id, S.sound>> \in N2
    BY <1>3
  <2> HIDE DEF N2
  <2>2. /\ \A t \in Sounds : Starts(S, t) <=> Starts(events[n + 1], t)
        /\ \A t \in Sounds : Silences(S, t) <=> Silences(events[n + 1], t)
        /\ S.op = "allOff" <=> events[n + 1].op = "allOff"
    BY <1>3 DEF Starts, Silences
  <2>3. MeansTo(w3, events, n + 1)
    BY <1>1, <1>5, <2>2, MeansMore
  <2> QED BY <1>1, <1>5, <2>1, <2>3, UsesMore
<1> HIDE DEF w3
<1>7. Numbering(N2, d)
  <2>1. /\ d.last = id /\ d.ids[s] = id
        /\ \A x \in Sounds \ {s} : d.ids[x] \in {0, e.defs.ids[x]}
    BY NewDefsDo
  <2>2. e.defs.last \in Nat /\ e.defs.ids \in [Sounds -> Nat] /\ id \in Nat /\ id = e.defs.last + 1
    BY DEF DefsShape
  <2> HIDE DEF d, id
  <2>3. \A x \in N : x = <<x[1], x[2]>> /\ x[1] \in 1..e.defs.last /\ x[2] \in Sounds
    BY <1>2 DEF Numbering
  <2>4. \A x \in N2 : x = <<x[1], x[2]>> /\ x[1] \in 1..d.last /\ x[2] \in Sounds
    BY <2>1, <2>2, <2>3
  <2>5. \A x, y \in N2 : x[1] = y[1] => x = y
    <3> TAKE x, y \in N2
    <3>1. x \in N => x[1] # id
      BY <2>2, <2>3
    <3>2. y \in N => y[1] # id
      BY <2>2, <2>3
    <3>3. x \in N /\ y \in N /\ x[1] = y[1] => x = y
      BY <1>2 DEF Numbering
    <3> QED BY <3>1, <3>2, <3>3
  <2>6. \A x \in Sounds : d.ids[x] # 0 => <<d.ids[x], x>> \in N2
    <3> TAKE x \in Sounds
    <3>1. e.defs.ids[x] # 0 => <<e.defs.ids[x], x>> \in N
      BY <1>2 DEF Numbering
    <3> QED BY <2>1, <3>1
  <2> HIDE DEF N2
  <2> QED BY <2>4, <2>5, <2>6 DEF Numbering
<1>8. N \subseteq N2
  OBVIOUS
<1> HIDE DEF N2, d
<1> DEFINE r == Encoded(d, w3)
<1>9. r.defs = d /\ r.wire = w3
  BY DEF Encoded
<1> HIDE DEF r
<1>10. EncodedTo(r, N2, events, n + 1)
  BY <1>6, <1>7, <1>9 DEF EncodedTo
<1> QED BY <1>1, <1>8, <1>10 DEF r

LEMMA EncodeEventMeans ==
    ASSUME NEW e, DefsShape(e.defs), IsSeq(e.wire), NEW N, NEW events, NEW n \in Nat,
           EncodedTo(e, N, events, n), EventOk(events[n + 1])
    PROVE  \E N2 : N \subseteq N2 /\ EncodedTo(EncodeEvent(e, events[n + 1]), N2, events, n + 1)
<1> DEFINE x == events[n + 1]
<1>1. Numbering(N, e.defs) /\ Uses(e.wire, N) /\ MeansTo(e.wire, events, n) /\ N \subseteq N
  BY DEF EncodedTo
<1>2. ASSUME NEW o, EncodeEvent(e, x) = Encoded(e.defs, Append(e.wire, o)), o.op = x.op, o.sound = x.sound,
             o.op = "start" => <<o.id, o.sound>> \in N
      PROVE  EncodedTo(EncodeEvent(e, x), N, events, n + 1)
  <2>1. o.op \in {"define", "start"} => <<o.id, o.sound>> \in N
    BY <1>2 DEF EventOk
  <2>2. Uses(Append(e.wire, o), N)
    BY <1>1, <2>1, UsesMore
  <2>3. MeansTo(Append(e.wire, o), events, n + 1)
    <3>1. /\ \A t \in Sounds : Starts(o, t) <=> Starts(x, t)
          /\ \A t \in Sounds : Silences(o, t) <=> Silences(x, t)
          /\ o.op = "allOff" <=> x.op = "allOff"
      BY <1>2 DEF Starts, Silences
    <3> QED BY <1>1, <3>1, MeansMore
  <2> DEFINE u == Append(e.wire, o)
             r == Encoded(e.defs, u)
  <2>4. r.defs = e.defs /\ r.wire = u
    BY DEF Encoded
  <2> HIDE DEF u, r
  <2>5. Uses(u, N) /\ MeansTo(u, events, n + 1)
    BY <2>2, <2>3 DEF u
  <2>6. EncodedTo(r, N, events, n + 1)
    BY <1>1, <2>4, <2>5 DEF EncodedTo
  <2> QED BY <1>2, <2>6 DEF r, u
<1>3. CASE x.op = "start"
  <2>1. x.sound \in Sounds /\ EncodeEvent(e, x) = Reference(e, x.sound)
    BY <1>3 DEF EventOk, EncodeEvent
  <2>2. PICK s \in Sounds : s = x.sound
    BY <2>1
  <2>3. CASE e.defs.ids[s] = 0
    BY <1>3, <2>1, <2>2, <2>3, NewStartMeans
  <2>4. CASE e.defs.ids[s] # 0
    <3> DEFINE o == StartOf(e.defs.ids[s], s)
    <3>1. EncodeEvent(e, x) = Encoded(e.defs, Append(e.wire, o))
      BY <2>1, <2>2, <2>4 DEF Reference, StartOf
    <3>2. o.op = "start" /\ o.id = e.defs.ids[s] /\ o.sound = s
      BY DEF StartOf
    <3> HIDE DEF o
    <3>3. <<o.id, o.sound>> \in N
      BY <1>1, <2>4, <3>2 DEF Numbering
    <3>4. EncodedTo(EncodeEvent(e, x), N, events, n + 1)
      BY <1>2, <1>3, <2>2, <3>1, <3>2, <3>3
    <3> QED BY <1>1, <3>4
  <2> QED BY <2>3, <2>4
<1>4. CASE x.op # "start"
  <2>1. EncodeEvent(e, x) = Encoded(e.defs, Append(e.wire, x))
    BY <1>4 DEF EncodeEvent
  <2>2. EncodedTo(EncodeEvent(e, x), N, events, n + 1)
    BY <1>2, <1>4, <2>1
  <2> QED BY <1>1, <2>2
<1> QED BY <1>3, <1>4

LEMMA EncodeStartMeans ==
    ASSUME NEW defs, DefsShape(defs), NEW N, Numbering(N, defs), NEW events
    PROVE  EncodedTo(EncodeStart(defs), N, events, 0)
<1> DEFINE w == IF defs.forget THEN <<Forget>> ELSE <<>>
           d == [defs EXCEPT !.forget = FALSE]
           e == Encoded(d, w)
<1>1. d.ids = defs.ids /\ d.last = defs.last
  <2>1. PICK x : d = [defs EXCEPT !.forget = x]
    BY Zenon
  <2> HIDE DEF d
  <2> QED BY <2>1 DEF DefsShape
<1> HIDE DEF d
<1>2. Uses(<<>>, N) /\ MeansTo(<<>>, events, 0)
  <2>1. \A S : PlayedTo(S, <<>>, 0) = PlayedTo(S, events, 0)
    BY PlayedNothing
  <2>2. ~ResetsTo(<<>>, 0) /\ ~ResetsTo(events, 0)
    BY PlayedNothing
  <2> QED BY <2>1, <2>2, EmptyIsSeq DEF Uses, MeansTo, Played, Resets
<1>3. Uses(w, N) /\ MeansTo(w, events, 0)
  <2>1. CASE ~defs.forget
    BY <1>2, <2>1
  <2>2. CASE defs.forget
    <3>1. Forget.op = "forget" /\ Forget.op \notin {"define", "start"} /\ N \subseteq N
      BY DEF Forget
    <3>2. Uses(Append(<<>>, Forget), N)
      BY <1>2, <3>1, UsesMore, EmptyIsSeq
    <3>3. MeansTo(Append(<<>>, Forget), events, 0)
      <4>1. \A u : IsSeq(u) /\ MeansTo(u, events, 0) => MeansTo(Append(u, Forget), events, 0)
        BY <3>1, MeansSame
      <4> QED BY <1>2, <4>1, EmptyIsSeq, Zenon
    <3>4. w = Append(<<>>, Forget)
      BY <2>2
    <3> QED BY <3>2, <3>3, <3>4
  <2> QED BY <2>1, <2>2
<1>4. EncodeStart(defs) = e
  BY Zenon DEF EncodeStart, d, Forget
<1> HIDE DEF w
<1>5. e.defs = d /\ e.wire = w
  BY DEF Encoded
<1> HIDE DEF e
<1>6. Numbering(N, d)
  BY <1>1 DEF Numbering
<1> QED BY <1>3, <1>4, <1>5, <1>6 DEF EncodedTo

\* What the page hears of a message is what the game did.
LEMMA EncodeMeans ==
    ASSUME NEW defs, DefsShape(defs), NEW events, EventsOk(events), NEW N, Numbering(N, defs)
    PROVE  \E N2 : N \subseteq N2 /\ EncodedTo(Encode(defs, events), N2, events, Len(events))
<1>1. IsSeq(events) /\ Len(events) \in Nat /\ \A i \in 1..Len(events) : EventOk(events[i])
  BY SeqIndices DEF EventsOk
<1>0. PICK f : Encodes(f, defs, events)
  BY <1>1, EncodeSteps
<1>2. /\ Encode(defs, events) = f[Len(events)]
      /\ f[0] = EncodeStart(defs)
      /\ \A n \in 0..(Len(events) - 1) : f[n + 1] = EncodeEvent(f[n], events[n + 1])
  BY <1>0 DEF Encodes
<1> DEFINE Good(e, n) == /\ EncodedFrom(e, Nat, defs)
                         /\ \E N2 : N \subseteq N2 /\ EncodedTo(e, N2, events, n)
           Q == {n \in Nat : n <= Len(events) => Good(f[n], n)}
<1>3. 0 \in Q
  <2>1. Held(defs, Nat)
    BY DEF Held, DefsShape
  <2>2. EncodedFrom(f[0], Nat, defs) /\ EncodedTo(f[0], N, events, 0)
    BY <1>2, <2>1, EncodeStartDoes, EncodeStartMeans
  <2> QED BY <2>2
<1>4. ASSUME NEW n \in Nat, n \in Q PROVE n + 1 \in Q
  <2>1. SUFFICES ASSUME n + 1 <= Len(events) PROVE Good(f[n + 1], n + 1)
    OBVIOUS
  <2>2. Good(f[n], n) /\ n \in 0..(Len(events) - 1) /\ n + 1 \in 1..Len(events)
    BY <1>1, <1>4, <2>1
  <2>3. EventOk(events[n + 1]) /\ f[n + 1] = EncodeEvent(f[n], events[n + 1])
    BY <1>1, <1>2, <2>2
  <2>4. EncodedFrom(f[n + 1], Nat, defs)
    BY <2>2, <2>3, EncodeEventKeeps
  <2>5. PICK N2 : N \subseteq N2 /\ EncodedTo(f[n], N2, events, n)
    BY <2>2
  <2>6. DefsShape(f[n].defs) /\ IsSeq(f[n].wire)
    BY <2>2 DEF EncodedFrom, WireOk
  <2>7. \E N3 : N2 \subseteq N3 /\ EncodedTo(f[n + 1], N3, events, n + 1)
    BY <2>3, <2>5, <2>6, EncodeEventMeans
  <2> QED BY <2>4, <2>5, <2>7
<1> HIDE DEF Q
<1>5. Nat \subseteq Q
  BY <1>3, <1>4, SetInduction
<1> QED BY <1>1, <1>2, <1>5 DEF Q

-----------------------------------------------------------------------------
\* What the page makes of it, if it knows the numbers.
DecodedAs(d, N, S, w, n) ==
    /\ d.table \subseteq N /\ d.sounding = PlayedTo(S, w, n)
    /\ ResetsTo(w, n) \/ d.reset = FALSE

OneSoundEach(N) ==
    /\ \A x \in N : x = <<x[1], x[2]>> /\ x[2] \in Sounds
    /\ \A x, y \in N : x[1] = y[1] => x = y

LEMMA DecodeOpMeans ==
    ASSUME NEW d, NEW K, NEW E, DecodedTo(d, K, E), NEW N, OneSoundEach(N), NEW S, NEW w, NEW n \in Nat,
           DecodedAs(d, N, S, w, n), NEW o, o = w[n + 1], o.op \in OpNames, NEW K2, OpPasses(K, o, K2),
           o.op \in {"define", "start"} => <<o.id, o.sound>> \in N
    PROVE  DecodedAs(DecodeOp(d, o), N, S, w, n + 1)
<1> DEFINE P == PlayedTo(S, w, n)
           r == DecodeOp(d, o)
<1>0. /\ d = [skipped |-> d.skipped, reset |-> d.reset, table |-> d.table, sounding |-> d.sounding]
      /\ K \subseteq Known(d.table) /\ d.table \subseteq N /\ d.sounding = P /\ P \subseteq Sounds
      /\ ResetsTo(w, n) \/ d.reset = FALSE
  BY DEF DecodedTo, DecodedAs, PlayedTo
<1>1. /\ PlayedTo(S, w, n + 1) = Heeds(P, o)
      /\ ResetsTo(w, n + 1) <=> (ResetsTo(w, n) \/ o.op = "allOff")
  BY PlayedMore
<1> HIDE DEF P, r
<1>2. ASSUME r.table \subseteq N, r.sounding = Heeds(P, o), o.op = "allOff" \/ r.reset = d.reset
      PROVE  DecodedAs(r, N, S, w, n + 1)
  BY <1>0, <1>1, <1>2 DEF DecodedAs
<1>3. CASE o.op = "forget"
  <2>1. r = [d EXCEPT !.table = {}]
    BY <1>3 DEF DecodeOp, r
  <2>2. r.table = {} /\ r.sounding = P /\ r.reset = d.reset
    BY <1>0, <2>1
  <2>3. Heeds(P, o) = P
    BY <1>0, <1>3 DEF Heeds, Starts, Silences
  <2> QED BY <1>2, <2>2, <2>3 DEF r
<1>4. CASE o.op = "define"
  <2> DEFINE T == {x \in d.table : x[1] # o.id} \cup {<<o.id, o.sound>>}
  <2>1. r = [d EXCEPT !.table = T]
    BY <1>4 DEF DecodeOp, r
  <2>2. T \subseteq N
    BY <1>0, <1>4
  <2> HIDE DEF T
  <2>3. r.table = T /\ r.sounding = P /\ r.reset = d.reset
    BY <1>0, <2>1
  <2>4. Heeds(P, o) = P
    BY <1>0, <1>4 DEF Heeds, Starts, Silences
  <2> QED BY <1>2, <2>2, <2>3, <2>4 DEF r
<1>5. CASE o.op = "allOff"
  <2>1. r = [d EXCEPT !.reset = TRUE, !.sounding = {}]
    BY <1>5 DEF DecodeOp, r
  <2>2. PICK x : r = [d EXCEPT !.reset = x, !.sounding = {}]
    BY <2>1, Zenon
  <2>3. r.table = d.table /\ r.sounding = {}
    BY <1>0, <2>2
  <2>4. Heeds(P, o) = {}
    BY <1>5 DEF Heeds, Starts, Silences
  <2> QED BY <1>0, <1>2, <1>5, <2>3, <2>4 DEF r
<1>6. CASE o.op = "stop"
  <2> DEFINE A == d.sounding \ {o.sound}
  <2>1. r = [d EXCEPT !.sounding = A]
    BY <1>6 DEF DecodeOp, r
  <2>2. Heeds(P, o) = A
    BY <1>0, <1>6 DEF Heeds, Starts, Silences
  <2> HIDE DEF A
  <2>3. r.table = d.table /\ r.sounding = A /\ r.reset = d.reset
    BY <1>0, <2>1
  <2> QED BY <1>0, <1>2, <2>2, <2>3 DEF r
<1>7. CASE o.op = "start"
  <2> DEFINE known == {x \in d.table : x[1] = o.id}
             B == d.skipped \/ known = {}
             A == d.sounding \cup {x[2] : x \in known}
  <2>1. r = [d EXCEPT !.skipped = B, !.sounding = A]
    BY <1>7 DEF DecodeOp, r
  <2>2. <<o.id, o.sound>> \in N /\ o.id \in K
    BY <1>7 DEF OpPasses
  <2>3. known = {<<o.id, o.sound>>}
    <3>1. PICK x \in d.table : x[1] = o.id
      BY <1>0, <2>2 DEF Known
    <3>2. \A y \in d.table : y[1] = o.id => y = <<o.id, o.sound>>
      BY <1>0, <2>2 DEF OneSoundEach
    <3> QED BY <3>1, <3>2
  <2>4. o.sound \in Sounds
    BY <2>2 DEF OneSoundEach
  <2>5. A = P \cup {o.sound}
    BY <1>0, <2>3
  <2>6. Heeds(P, o) = A
    BY <1>0, <1>7, <2>4, <2>5 DEF Heeds, Starts, Silences
  <2> HIDE DEF A, B
  <2>7. r.table = d.table /\ r.sounding = A /\ r.reset = d.reset
    BY <1>0, <2>1
  <2> QED BY <1>0, <1>2, <2>6, <2>7 DEF r
<1> QED BY <1>3, <1>4, <1>5, <1>6, <1>7 DEF OpNames

LEMMA DecodeMeans ==
    ASSUME NEW table, NEW sounding, sounding \subseteq Sounds, NEW wire, WireOk(wire), NEW K, NEW K2,
           WirePasses(wire, K, K2), K \subseteq Known(table), NEW N, OneSoundEach(N), table \subseteq N,
           Uses(wire, N)
    PROVE  DecodedAs(Decode(table, sounding, wire), N, sounding, wire, Len(wire))
<1>1. IsSeq(wire) /\ Len(wire) \in Nat /\ \A j \in 1..Len(wire) : wire[j].op \in OpNames
  BY SeqIndices DEF WireOk
<1>0. PICK f : Decodes(f, table, sounding, wire)
  BY <1>1, DecodeSteps
<1>2. /\ Decode(table, sounding, wire) = f[Len(wire)]
      /\ f[0] = DecodeStart(table, sounding)
      /\ \A n \in 0..(Len(wire) - 1) : f[n + 1] = DecodeOp(f[n], wire[n + 1])
  BY <1>0 DEF Decodes
<1>3. PICK k : WireBy(wire, k, K, K2)
  BY DEF WirePasses
<1> DEFINE E == table \cup NamedBy(wire)
           Q == {n \in Nat : n <= Len(wire) => /\ DecodedTo(f[n], k[n], E)
                                               /\ DecodedAs(f[n], N, sounding, wire, n)}
<1>4. 0 \in Q
  <2>1. k[0] \subseteq Known(table) /\ table \subseteq E
    BY <1>3 DEF WireBy
  <2> HIDE DEF E
  <2>2. DecodedTo(f[0], k[0], E)
    BY <1>2, <2>1 DEF DecodedTo, DecodeStart
  <2>3. PlayedTo(sounding, wire, 0) = sounding
    BY PlayedNothing
  <2>4. DecodedAs(f[0], N, sounding, wire, 0)
    BY <1>2, <2>3 DEF DecodedAs, DecodeStart
  <2> QED BY <2>2, <2>4
<1>5. ASSUME NEW n \in Nat, n \in Q PROVE n + 1 \in Q
  <2>1. SUFFICES ASSUME n + 1 <= Len(wire)
                 PROVE  DecodedTo(f[n + 1], k[n + 1], E) /\ DecodedAs(f[n + 1], N, sounding, wire, n + 1)
    OBVIOUS
  <2>2. /\ DecodedTo(f[n], k[n], E) /\ DecodedAs(f[n], N, sounding, wire, n)
        /\ n \in 0..(Len(wire) - 1) /\ n + 1 \in 1..Len(wire) /\ (n + 1) - 1 = n
    BY <1>1, <1>5, <2>1
  <2>3. wire[n + 1].op \in OpNames /\ f[n + 1] = DecodeOp(f[n], wire[n + 1]) /\ OpPasses(k[n], wire[n + 1], k[n + 1])
    BY <1>1, <1>2, <1>3, <2>2 DEF WireBy
  <2>4. wire[n + 1].op = "define" => <<wire[n + 1].id, wire[n + 1].sound>> \in E
    BY <2>2 DEF NamedBy
  <2>5. wire[n + 1].op \in {"define", "start"} => <<wire[n + 1].id, wire[n + 1].sound>> \in N
    BY <2>2 DEF Uses
  <2> HIDE DEF E
  <2>6. DecodedTo(f[n + 1], k[n + 1], E)
    BY <2>2, <2>3, <2>4, DecodeOpKeeps
  <2>7. DecodedAs(f[n + 1], N, sounding, wire, n + 1)
    BY <2>2, <2>3, <2>5, DecodeOpMeans
  <2> QED BY <2>6, <2>7
<1> HIDE DEF Q, E
<1>6. Nat \subseteq Q
  BY <1>4, <1>5, SetInduction
<1> QED BY <1>1, <1>2, <1>6 DEF Q

-----------------------------------------------------------------------------
(***************************************************************************)
(* What the page may be doing when it has taken texts: it was not told of    *)
(* the timeline e yet, it waits for a reset, or it hears what it hears.      *)
(***************************************************************************)
NotTold    == <<"told of another", {}>>
Waiting    == <<"waits", {}>>
Hearing(S) == <<"hears", S>>

AudioOf(m, e) == m.kind = "audio" /\ m.epoch = e

Turns(x, m, y, e) ==
    CASE Restores(m, e) /\ x = NotTold       -> y = Hearing({})
      [] m.kind = "started" /\ x = Waiting   -> y = Hearing({})
      [] AudioOf(m, e) /\ x # NotTold        ->
           \/ y = Waiting
           \/ \E S : /\ x = Hearing(S) \/ (x = Waiting /\ S = {} /\ Resets(m.wire))
                    /\ y = Hearing(Played(S, m.wire))
      [] OTHER                               -> y = x

Leads(X, m, Y, e) == \A x \in X : \A y : Turns(x, m, y, e) => y \in Y

AlongBy(s, st, e, X, Y) ==
    /\ X \subseteq st[0] /\ st[Len(s)] \subseteq Y
    /\ \A i \in 1..Len(s) : Leads(st[i - 1], s[i], st[i], e)
Along(s, e, X, Y) == \E st : AlongBy(s, st, e, X, Y)

LEMMA LeadsLess ==
    ASSUME NEW X, NEW m, NEW Y, NEW e, NEW W, NEW Z, Leads(X, m, Y, e), W \subseteq X, Y \subseteq Z
    PROVE  Leads(W, m, Z, e)
BY DEF Leads

LEMMA AlongNone == ASSUME NEW e, NEW X PROVE Along(<<>>, e, X, X)
<1> DEFINE st == [i \in {0} |-> X]
<1>1. AlongBy(<<>>, st, e, X, X)
  BY EmptyIsSeq DEF AlongBy
<1> HIDE DEF st
<1> QED BY <1>1 DEF Along

LEMMA AlongLess ==
    ASSUME NEW s, NEW e, NEW X, NEW Y, NEW W, NEW Z, Along(s, e, X, Y), W \subseteq X, Y \subseteq Z
    PROVE  Along(s, e, W, Z)
BY DEF Along, AlongBy

LEMMA AlongMore ==
    ASSUME NEW s, NEW e, NEW X, NEW Y, NEW Z, NEW m, IsSeq(s), Along(s, e, X, Y), Leads(Y, m, Z, e)
    PROVE  Along(Append(s, m), e, X, Z)
<1> DEFINE u == Append(s, m)
<1>1. /\ IsSeq(u) /\ Len(u) = Len(s) + 1 /\ Len(s) \in Nat
      /\ \A i \in 1..Len(s) : u[i] = s[i]
      /\ u[Len(s) + 1] = m
  BY SeqAppended, SeqIndices
<1> HIDE DEF u
<1>2. PICK st : AlongBy(s, st, e, X, Y)
  BY DEF Along
<1> DEFINE g == [i \in 0..Len(u) |-> IF i = Len(u) THEN Z ELSE st[i]]
<1>3. /\ \A i \in 0..Len(s) : g[i] = st[i]
      /\ g[Len(u)] = Z
  BY <1>1
<1> HIDE DEF g
<1>4. Leads(st[Len(s)], m, Z, e)
  <2>1. st[Len(s)] \subseteq Y
    BY <1>2 DEF AlongBy
  <2> QED BY <2>1, LeadsLess
<1>5. ASSUME NEW i \in 1..Len(u) PROVE Leads(g[i - 1], u[i], g[i], e)
  <2>1. CASE i \in 1..Len(s)
    <3>1. g[i - 1] = st[i - 1] /\ g[i] = st[i] /\ u[i] = s[i]
      BY <1>1, <1>3, <2>1
    <3> QED BY <1>2, <2>1, <3>1 DEF AlongBy
  <2>2. CASE i = Len(s) + 1
    <3>1. g[i - 1] = st[Len(s)] /\ g[i] = Z /\ u[i] = m
      BY <1>1, <1>3, <2>2
    <3> QED BY <1>4, <3>1
  <2> QED BY <1>1, <2>1, <2>2
<1>6. AlongBy(u, g, e, X, Z)
  BY <1>1, <1>2, <1>3, <1>5 DEF AlongBy
<1> QED BY <1>6 DEF Along, u

LEMMA AlongJoin ==
    ASSUME NEW s, NEW t, NEW e, NEW X, NEW Y, NEW Z, IsSeq(s), IsSeq(t), Along(s, e, X, Y), Along(t, e, Y, Z)
    PROVE  Along(s \o t, e, X, Z)
<1> DEFINE u == s \o t
<1>1. Len(s) \in Nat /\ Len(t) \in Nat
  BY SeqIndices
<1>2. /\ IsSeq(u) /\ Len(u) = Len(s) + Len(t)
      /\ \A i \in 1..(Len(s) + Len(t)) : u[i] = IF i <= Len(s) THEN s[i] ELSE t[i - Len(s)]
  BY SeqJoined, Zenon
<1> HIDE DEF u
<1>3. PICK st, tt : AlongBy(s, st, e, X, Y) /\ AlongBy(t, tt, e, Y, Z)
  BY DEF Along
<1> DEFINE g == [i \in 0..Len(u) |-> IF i <= Len(s) THEN st[i] ELSE tt[i - Len(s)]]
<1>4. \A i \in 0..Len(u) : g[i] = IF i <= Len(s) THEN st[i] ELSE tt[i - Len(s)]
  OBVIOUS
<1> HIDE DEF g
<1>5. st[Len(s)] \subseteq Y /\ Y \subseteq tt[0]
  BY <1>3 DEF AlongBy
<1>6. ASSUME NEW i \in 1..Len(u) PROVE Leads(g[i - 1], u[i], g[i], e)
  <2>1. CASE i \in 1..Len(s)
    <3>1. g[i - 1] = st[i - 1] /\ g[i] = st[i] /\ u[i] = s[i]
      BY <1>1, <1>2, <1>4, <2>1
    <3> QED BY <1>3, <2>1, <3>1 DEF AlongBy
  <2>2. CASE i = Len(s) + 1
    <3>1. 1 \in 1..Len(t) /\ g[i - 1] = st[Len(s)] /\ g[i] = tt[1] /\ u[i] = t[1]
      <4>1. /\ Len(t) > 0 /\ i - 1 = Len(s) /\ i - 1 \in 0..Len(u) /\ i \in 0..Len(u) /\ i - Len(s) = 1
            /\ ~(i <= Len(s)) /\ i - 1 <= Len(s) /\ i \in 1..(Len(s) + Len(t))
        BY <1>1, <1>2, <2>2
      <4>2. g[i - 1] = st[i - 1] /\ g[i] = tt[i - Len(s)] /\ u[i] = t[i - Len(s)]
        BY <4>1, <1>2, <1>4
      <4> QED BY <1>1, <4>1, <4>2
    <3>2. Leads(tt[0], t[1], tt[1], e)
      <4>1. Leads(tt[1 - 1], t[1], tt[1], e)
        BY <1>3, <3>1 DEF AlongBy
      <4> QED BY <4>1
    <3>3. st[Len(s)] \subseteq tt[0]
      BY <1>5
    <3> QED BY <3>1, <3>2, <3>3, LeadsLess
  <2>3. CASE i > Len(s) + 1
    <3> DEFINE j == i - Len(s)
    <3>1. /\ j \in 1..Len(t) /\ ~(i <= Len(s)) /\ ~(i - 1 <= Len(s)) /\ i \in 0..Len(u) /\ i - 1 \in 0..Len(u)
          /\ (i - 1) - Len(s) = j - 1 /\ i \in 1..(Len(s) + Len(t))
      BY <1>1, <1>2, <2>3
    <3>2. g[i - 1] = tt[j - 1] /\ g[i] = tt[j] /\ u[i] = t[j]
      BY <1>2, <1>4, <3>1
    <3> HIDE DEF j
    <3> QED BY <1>3, <3>1, <3>2 DEF AlongBy
  <2> QED BY <1>1, <1>2, <2>1, <2>2, <2>3
<1>7. g[Len(u)] \subseteq Z /\ X \subseteq g[0]
  <2>1. g[0] = st[0]
    BY <1>1, <1>2, <1>4
  <2>2. CASE Len(t) = 0
    <3>1. g[Len(u)] = st[Len(s)]
      BY <1>1, <1>2, <1>4, <2>2
    <3> QED BY <1>3, <1>5, <2>1, <2>2, <3>1 DEF AlongBy
  <2>3. CASE Len(t) # 0
    <3>1. g[Len(u)] = tt[Len(t)]
      BY <1>1, <1>2, <1>4, <2>3
    <3> QED BY <1>3, <2>1, <3>1 DEF AlongBy
  <2> QED BY <2>2, <2>3
<1>8. AlongBy(u, g, e, X, Z)
  BY <1>6, <1>7 DEF AlongBy
<1> QED BY <1>8 DEF Along, u

\* The first is taken.
LEMMA AlongTail ==
    ASSUME NEW s, NEW e, NEW X, NEW Y, IsSeq(s), s # <<>>, Along(s, e, X, Y)
    PROVE  \E X1 : Leads(X, s[1], X1, e) /\ Along(Tail(s), e, X1, Y)
<1> DEFINE t == Tail(s)
<1>1. /\ IsSeq(t) /\ Len(t) = Len(s) - 1 /\ Len(s) \in Nat \ {0}
      /\ \A i \in 1..(Len(s) - 1) : t[i] = s[i + 1]
  BY SeqTail, SeqIndices
<1> HIDE DEF t
<1>2. PICK st : AlongBy(s, st, e, X, Y)
  BY DEF Along
<1> DEFINE g == [i \in 0..Len(t) |-> st[i + 1]]
<1>3. \A i \in 0..Len(t) : g[i] = st[i + 1]
  OBVIOUS
<1> HIDE DEF g
<1>4. Leads(X, s[1], st[1], e)
  <2>1. 1 \in 1..Len(s)
    BY <1>1
  <2>2. Leads(st[1 - 1], s[1], st[1], e) /\ X \subseteq st[0]
    BY <1>2, <2>1 DEF AlongBy
  <2>3. Leads(st[0], s[1], st[1], e)
    BY <2>2
  <2> QED BY <2>2, <2>3, LeadsLess
<1>5. ASSUME NEW i \in 1..Len(t) PROVE Leads(g[i - 1], t[i], g[i], e)
  <2>1. i + 1 \in 1..Len(s) /\ g[i - 1] = st[i] /\ g[i] = st[i + 1] /\ t[i] = s[i + 1] /\ (i + 1) - 1 = i
    <3>1. i + 1 \in 1..Len(s) /\ i - 1 \in 0..Len(t) /\ i \in 0..Len(t) /\ (i + 1) - 1 = i /\ (i - 1) + 1 = i
          /\ i \in 1..(Len(s) - 1)
      BY <1>1
    <3> QED BY <3>1, <1>1, <1>3
  <2> QED BY <1>2, <2>1 DEF AlongBy
<1>6. g[0] = st[1] /\ g[Len(t)] \subseteq Y
  <2>1. g[0] = st[1] /\ g[Len(t)] = st[Len(s)]
    BY <1>1, <1>3
  <2> QED BY <1>2, <2>1 DEF AlongBy
<1>7. AlongBy(t, g, e, st[1], Y)
  BY <1>5, <1>6 DEF AlongBy
<1> QED BY <1>4, <1>7 DEF Along, t

\* A message that changes nothing, and a sequence that does not tell of the
\* timeline.
LEMMA LeadsQuiet ==
    ASSUME NEW m, NEW e, m.kind # "started", ~Restores(m, e), ~AudioOf(m, e), NEW X
    PROVE  Leads(X, m, X, e)
BY DEF Leads, Turns

LEMMA AlongUntold ==
    ASSUME NEW s, IsSeq(s), NEW e, UnsaidIn(s, e)
    PROVE  Along(s, e, {NotTold}, {NotTold})
<1>1. Len(s) \in Nat
  BY SeqIndices
<1> DEFINE st == [i \in 0..Len(s) |-> {NotTold}]
<1>2. \A i \in 0..Len(s) : st[i] = {NotTold}
  OBVIOUS
<1> HIDE DEF st
<1>3. ASSUME NEW m, ~Restores(m, e) PROVE Leads({NotTold}, m, {NotTold}, e)
  <2>1. NotTold # Waiting
    BY DEF NotTold, Waiting
  <2> QED BY <1>3, <2>1 DEF Leads, Turns
<1>4. ASSUME NEW i \in 1..Len(s) PROVE Leads(st[i - 1], s[i], st[i], e)
  <2>1. st[i - 1] = {NotTold} /\ st[i] = {NotTold} /\ ~Restores(s[i], e)
    BY <1>1, <1>2 DEF UnsaidIn
  <2> QED BY <1>3, <2>1
<1>5. AlongBy(s, st, e, {NotTold}, {NotTold})
  BY <1>1, <1>2, <1>4 DEF AlongBy
<1> QED BY <1>5 DEF Along

\* What is not written changes nothing.
LEMMA AlongWritten ==
    ASSUME NEW b, NEW X, NEW Y, IsSeq(b), Along(b, epoch, X, Y)
    PROVE  Along(WrittenOf(b), epoch, X, Y)
<1>0. Len(b) \in Nat
  BY SeqIndices
<1>1. PICK f : Writing(f, b)
  BY WrittenSteps
<1>2. /\ WrittenOf(b) = f[Len(b)] /\ f[0] = <<>>
      /\ \A n \in 0..(Len(b) - 1) : f[n + 1] = IF Current(b[n + 1]) THEN Append(f[n], b[n + 1]) ELSE f[n]
  BY <1>1 DEF Writing
<1>3. PICK st : AlongBy(b, st, epoch, X, Y)
  BY DEF Along
<1> DEFINE Q == {n \in Nat : n <= Len(b) => IsSeq(f[n]) /\ Along(f[n], epoch, X, st[n])}
<1>4. 0 \in Q
  <2>1. X \subseteq st[0] /\ IsSeq(<<>>) /\ Along(<<>>, epoch, X, X) /\ X \subseteq X
    BY <1>3, EmptyIsSeq, AlongNone DEF AlongBy
  <2>2. Along(<<>>, epoch, X, st[0])
    BY <2>1, AlongLess
  <2> QED BY <1>2, <2>1, <2>2
<1>5. ASSUME NEW n \in Nat, n \in Q PROVE n + 1 \in Q
  <2>1. SUFFICES ASSUME n + 1 <= Len(b) PROVE IsSeq(f[n + 1]) /\ Along(f[n + 1], epoch, X, st[n + 1])
    OBVIOUS
  <2>2. /\ IsSeq(f[n]) /\ Along(f[n], epoch, X, st[n])
        /\ n \in 0..(Len(b) - 1) /\ n + 1 \in 1..Len(b) /\ (n + 1) - 1 = n
    BY <1>0, <1>5, <2>1
  <2> DEFINE m == b[n + 1]
  <2>3. Leads(st[n], m, st[n + 1], epoch)
    BY <1>3, <2>2 DEF AlongBy
  <2> HIDE DEF m
  <2>4. CASE Current(m)
    <3>1. f[n + 1] = Append(f[n], m)
      BY <1>2, <2>2, <2>4 DEF m
    <3>2. Along(Append(f[n], m), epoch, X, st[n + 1])
      BY <2>2, <2>3, AlongMore
    <3>3. IsSeq(Append(f[n], m))
      BY <2>2, SeqAppended
    <3> QED BY <3>1, <3>2, <3>3
  <2>5. CASE ~Current(m)
    <3>1. f[n + 1] = f[n]
      BY <1>2, <2>2, <2>5 DEF m
    <3>2. st[n] \subseteq st[n + 1]
      <4>1. m.kind # "started" /\ ~Restores(m, epoch) /\ ~AudioOf(m, epoch)
        BY <2>5 DEF Current, OfTheTimeline, Restores, AudioOf
      <4>2. \A x : Turns(x, m, x, epoch)
        BY <4>1 DEF Turns
      <4> QED BY <2>3, <4>2 DEF Leads
    <3>3. Along(f[n], epoch, X, st[n + 1])
      BY <2>2, <3>2, AlongLess
    <3> QED BY <2>2, <3>1, <3>3
  <2> QED BY <2>4, <2>5
<1> HIDE DEF Q
<1>6. Nat \subseteq Q
  BY <1>4, <1>5, SetInduction
<1>7. Along(f[Len(b)], epoch, X, st[Len(b)]) /\ st[Len(b)] \subseteq Y
  BY <1>0, <1>3, <1>6 DEF Q, AlongBy
<1>8. Along(f[Len(b)], epoch, X, Y)
  BY <1>7, AlongLess
<1> QED BY <1>2, <1>8

-----------------------------------------------------------------------------
(***************************************************************************)
(* What sounds at both ends.                                               *)
(***************************************************************************)
\* A page that waits for a reset is silent.
PageQuiet ==
    /\ page.pending \in BOOLEAN
    /\ page.pending = TRUE => page.sounding = {}
    /\ page.epoch = epoch => page.sounding \subseteq Sounds

\* What this timeline's texts and the page's table call a sound is its number.
UsedIn(s, N) == \A i \in 1..Len(s) : AudioOf(s[i], epoch) => Uses(s[i].wire, N)
Numbered ==
    \E N : /\ Numbering(N, loop.defs) /\ UsedIn(writer.batch, N) /\ UsedIn(outText, N)
           /\ page.epoch = epoch => page.table \subseteq N

\* Where nothing sounds, and where a game started has begun to.
Silent == loop.pc \in {"allOff", "result"} \/ (loop.pc = "run" /\ game.on = FALSE)
LoopSounds ==
    /\ loop.needsReset \in BOOLEAN /\ loop.audio \in BOOLEAN /\ collector.overflowed \in BOOLEAN
    /\ loop.pc \in {"sound", "rebuild", "pushing"} => game.on = TRUE
    /\ Silent => game.sounding = {}
    /\ loop.pc = "starting" /\ collector.overflowed = FALSE => Played({}, collector.events) = game.sounding
    /\ loop.pc = "rebuild" => collector = Quiet
    /\ collector.overflowed = FALSE => ~Resets(collector.events)
    /\ loop.audio = FALSE => game.on = FALSE

\* What the page hears when it has taken all that is on its way, and what the
\* collector holds for it, is what the game sounds, unless a reset is due.
PageState ==
    IF page.epoch # epoch THEN NotTold
    ELSE IF page.pending = TRUE THEN Waiting ELSE Hearing(page.sounding)
Follows ==
    /\ loop.pc \in {"run", "sound", "rebuild", "pushing", "pushLoaded"}
    /\ game.on = TRUE /\ loop.needsReset = FALSE /\ collector.overflowed = FALSE
Ends(Z) ==
    /\ loop.pc = "restored" => Z \subseteq {NotTold}
    /\ loop.pc # "restored" => NotTold \notin Z
    /\ \/ loop.pc \in {"result", "starting", "resuming"}
       \/ loop.pc = "run" /\ game.on = FALSE
       => \A S : Hearing(S) \in Z => S = {}
    /\ loop.pc = "resuming" => Waiting \notin Z
    /\ Follows => \A S : Hearing(S) \in Z => Played(S, collector.events) = game.sounding
Agreed == \E Y, Z : Along(writer.batch, epoch, {PageState}, Y) /\ Along(outText, epoch, Y, Z) /\ Ends(Z)

SoundRight == PageQuiet /\ Numbered /\ LoopSounds /\ Agreed

-----------------------------------------------------------------------------
(***************************************************************************)
(* The loop: what it sends, and what it does to what sounds.               *)
(***************************************************************************)
NumbersGo(m) ==
    \A N : Numbering(N, loop.defs) =>
        \E N2 : /\ N \subseteq N2 /\ Numbering(N2, loop'.defs)
                /\ AudioOf(m, epoch) => Uses(m.wire, N2)
EndsGo(m) == \A Z : Ends(Z) => \E Z2 : Leads(Z, m, Z2, epoch) /\ Ends(Z2)'
RightSent == \E m : outText' = Append(outText, m) /\ NumbersGo(m) /\ EndsGo(m)
RightKept ==
    /\ outText' = outText
    /\ \A N : Numbering(N, loop.defs) => Numbering(N, loop'.defs)
    /\ \A Z : Ends(Z) => Ends(Z)'

LEMMA UsesStay ==
    ASSUME NEW w, NEW N, NEW N2, Uses(w, N), N \subseteq N2
    PROVE  Uses(w, N2)
BY DEF Uses

LEMMA RightGoes ==
    ASSUME PicturesInv, SoundRight, UNCHANGED soundAlone, LoopSounds', RightKept \/ RightSent
    PROVE  SoundRight'
<1>1. epoch' = epoch /\ writer' = writer /\ page' = page /\ IsSeq(outText)
  BY DEF soundAlone, PicturesInv, Shape, Texts
<1>2. PageQuiet' /\ PageState' = PageState
  BY <1>1 DEF SoundRight, PageQuiet, PageState
<1>3. PICK N : /\ Numbering(N, loop.defs) /\ UsedIn(writer.batch, N) /\ UsedIn(outText, N)
               /\ page.epoch = epoch => page.table \subseteq N
  BY DEF SoundRight, Numbered
<1>4. PICK Y, Z : Along(writer.batch, epoch, {PageState}, Y) /\ Along(outText, epoch, Y, Z) /\ Ends(Z)
  BY DEF SoundRight, Agreed
<1>5. CASE RightKept
  <2>1. outText' = outText /\ Numbering(N, loop'.defs) /\ Ends(Z)'
    BY <1>3, <1>4, <1>5 DEF RightKept
  <2>2. Numbered'
    BY <1>1, <1>3, <2>1 DEF Numbered, UsedIn
  <2>3. Agreed'
    BY <1>1, <1>2, <1>4, <2>1 DEF Agreed
  <2> QED BY <1>2, <2>2, <2>3 DEF SoundRight
<1>6. CASE RightSent
  <2>1. PICK m : outText' = Append(outText, m) /\ NumbersGo(m) /\ EndsGo(m)
    BY <1>6 DEF RightSent
  <2>2. PICK N2 : N \subseteq N2 /\ Numbering(N2, loop'.defs) /\ (AudioOf(m, epoch) => Uses(m.wire, N2))
    BY <1>3, <2>1 DEF NumbersGo
  <2>3. PICK Z2 : Leads(Z, m, Z2, epoch) /\ Ends(Z2)'
    BY <1>4, <2>1 DEF EndsGo
  <2>4. Numbered'
    <3>1. UsedIn(writer.batch, N2)'
      BY <1>1, <1>3, <2>2, UsesStay DEF UsedIn
    <3>2. /\ Len(outText') = Len(outText) + 1 /\ Len(outText) \in Nat
          /\ \A i \in 1..Len(outText) : outText'[i] = outText[i]
          /\ outText'[Len(outText) + 1] = m
      BY <1>1, <2>1, SeqAppended, SeqIndices
    <3>3. ASSUME NEW i \in 1..Len(outText'), AudioOf(outText'[i], epoch) PROVE Uses(outText'[i].wire, N2)
      <4>1. CASE i \in 1..Len(outText)
        BY <1>3, <2>2, <3>2, <3>3, <4>1, UsesStay DEF UsedIn
      <4>2. CASE i = Len(outText) + 1
        BY <2>2, <3>2, <3>3, <4>2
      <4> QED BY <3>2, <4>1, <4>2
    <3>4. UsedIn(outText, N2)'
      BY <1>1, <3>3 DEF UsedIn
    <3>5. page.epoch = epoch => page.table \subseteq N2
      BY <1>3, <2>2
    <3> QED BY <1>1, <2>2, <3>1, <3>4, <3>5 DEF Numbered
  <2>5. Agreed'
    <3>1. Along(outText', epoch, Y, Z2)
      BY <1>1, <1>4, <2>1, <2>3, AlongMore
    <3> QED BY <1>1, <1>2, <1>4, <2>3, <3>1 DEF Agreed
  <2> QED BY <1>2, <2>4, <2>5 DEF SoundRight
<1> QED BY <1>5, <1>6

\* A step that changes neither what sounds nor what is collected.
Steady ==
    /\ game'.on = game.on /\ game'.sounding = game.sounding /\ collector' = collector
    /\ loop'.needsReset = loop.needsReset /\ loop'.audio = loop.audio /\ loop'.defs = loop.defs
Onward ==
    \/ loop'.pc = loop.pc
    \/ loop.pc = "result" /\ loop'.pc = "run" /\ game.on = FALSE
    \/ loop.pc \in {"run", "sound", "pushing", "pushLoaded"} /\ loop'.pc \in {"run", "sound"} /\ game.on = TRUE
Worded(m) == m.kind \in {"result", "error"} /\ m.epoch = epoch

LEMMA SteadyRight ==
    ASSUME PicturesInv, SoundRight, UNCHANGED soundAlone, Steady, Onward,
           outText' = outText \/ \E m : outText' = Append(outText, m) /\ Worded(m)
    PROVE  SoundRight'
<1>1. LoopSounds'
  BY DEF SoundRight, LoopSounds, Steady, Onward, Silent
<1>2. \A Z : Ends(Z) => Ends(Z)'
  <2> TAKE Z
  <2> HAVE Ends(Z)
  <2>1. loop'.pc = "restored" <=> loop.pc = "restored"
    BY DEF Onward
  <2>2. loop'.pc = "resuming" <=> loop.pc = "resuming"
    BY DEF Onward
  <2>3. (loop.pc = "restored" => Z \subseteq {NotTold})' /\ (loop.pc # "restored" => NotTold \notin Z)'
        /\ (loop.pc = "resuming" => Waiting \notin Z)'
    BY <2>1, <2>2 DEF Ends
  <2>4. Follows' => Follows
    BY DEF Follows, Steady, Onward
  <2>5. (Follows => \A S : Hearing(S) \in Z => Played(S, collector.events) = game.sounding)'
    BY <2>4 DEF Ends, Steady
  <2>6. (\/ loop.pc \in {"result", "starting", "resuming"}
         \/ loop.pc = "run" /\ game.on = FALSE)'
        => \/ loop.pc \in {"result", "starting", "resuming"}
           \/ loop.pc = "run" /\ game.on = FALSE
    BY DEF Steady, Onward
  <2> QED BY <2>3, <2>5, <2>6 DEF Ends
<1>3. CASE outText' = outText
  <2>1. RightKept
    BY <1>2, <1>3 DEF RightKept, Steady
  <2> QED BY <1>1, <2>1, RightGoes
<1>4. ASSUME NEW m, outText' = Append(outText, m), Worded(m) PROVE SoundRight'
  <2>1. \A Z : Leads(Z, m, Z, epoch)
    BY <1>4, LeadsQuiet DEF Worded, Restores, AudioOf
  <2>2. EndsGo(m)
    BY <1>2, <2>1 DEF EndsGo
  <2>3. NumbersGo(m)
    BY <1>4 DEF NumbersGo, Worded, AudioOf, Steady
  <2>4. RightSent
    BY <1>4, <2>2, <2>3 DEF RightSent
  <2> QED BY <1>1, <2>4, RightGoes
<1> QED BY <1>3, <1>4

LEMMA OnOrOff ==
    ASSUME GameShape
    PROVE  /\ game.on = TRUE \/ game.on = FALSE
           /\ game.on => game.on = TRUE
           /\ ~game.on => game.on = FALSE
<1>1. game.on \in BOOLEAN
  BY DEF GameShape
<1> QED BY <1>1

SameSound(q, r) == q.needsReset = r.needsReset /\ q.audio = r.audio /\ q.defs = r.defs

LEMMA FieldsSame ==
    ASSUME NEW r, LoopRecord(r), NEW x
    PROVE  /\ SameSound([r EXCEPT !.pc = x], r) /\ [r EXCEPT !.pc = x].pc = x
           /\ SameSound([r EXCEPT !.force = x], r) /\ [r EXCEPT !.force = x].pc = r.pc
           /\ SameSound([r EXCEPT !.then = x], r) /\ [r EXCEPT !.then = x].pc = r.pc
BY DEF LoopRecord, SameSound

LEMMA PushSame ==
    ASSUME NEW l, LoopRecord(l), Push(l)
    PROVE  SameSound(loop', l) /\ loop'.pc = l.pc
<1>1. loop' = l \/ loop' = [l EXCEPT !.force = FALSE]
  BY Zenon DEF Push
<1>2. SameSound([l EXCEPT !.force = FALSE], l) /\ [l EXCEPT !.force = FALSE].pc = l.pc
  BY FieldsSame, Zenon
<1>3. SameSound(l, l)
  BY DEF SameSound
<1> QED BY <1>1, <1>2, <1>3

LEMMA AtSame ==
    ASSUME LoopShape, NEW pc
    PROVE  LoopRecord(At(pc)) /\ SameSound(At(pc), loop) /\ At(pc).pc = pc
BY DEF LoopShape, LoopRecord, At, SameSound

LEMMA TickEndsRight == PicturesInv /\ SoundRight /\ TickEnds => SoundRight'
<1> SUFFICES ASSUME PicturesInv, SoundRight, TickEnds PROVE SoundRight'
  OBVIOUS
<1> DEFINE l == At(IF SoundWaits THEN "sound" ELSE "run")
<1>1. /\ UNCHANGED soundAlone /\ outText' = outText /\ collector' = collector
      /\ game' = [game EXCEPT !.flushed = FALSE] /\ GameShape /\ LoopShape /\ loop.pc = "run" /\ game.on
  BY DEF TickEnds, soundAlone, PicturesInv, Shape
<1>2. Push(l) \/ loop' = l
  BY DEF TickEnds
<1>3. LoopRecord(l) /\ SameSound(l, loop) /\ l.pc \in {"sound", "run"}
  BY <1>1, AtSame
<1> HIDE DEF l
<1>4. SameSound(loop', loop) /\ loop'.pc \in {"sound", "run"}
  BY <1>2, <1>3, PushSame DEF SameSound
<1>5. game'.sounding = game.sounding /\ game'.on = game.on
  BY <1>1 DEF GameShape
<1>6. Steady /\ Onward
  BY <1>1, <1>4, <1>5, OnOrOff DEF Steady, SameSound, Onward
<1> QED BY <1>1, <1>6, SteadyRight

LEMMA RefusesRight == PicturesInv /\ SoundRight /\ (RefusesStale \/ RefusesQuickLoad) => SoundRight'
<1> SUFFICES ASSUME PicturesInv, SoundRight, RefusesStale \/ RefusesQuickLoad PROVE SoundRight'
  OBVIOUS
<1>1. /\ UNCHANGED soundAlone /\ collector' = collector /\ game' = game /\ loop' = loop
      /\ outText' = outText \/ SendText(Said("error"))
  BY DEF RefusesStale, RefusesQuickLoad, queuesUnchanged, soundAlone
<1>2. outText' = outText \/ \E m : outText' = Append(outText, m) /\ Worded(m)
  BY <1>1, SendTextDoes DEF Worded
<1>3. Steady /\ Onward
  BY <1>1 DEF Steady, Onward
<1> QED BY <1>1, <1>2, <1>3, SteadyRight

LEMMA HandlesScaleRight == PicturesInv /\ SoundRight /\ HandlesScale => SoundRight'
<1> SUFFICES ASSUME PicturesInv, SoundRight, HandlesScale PROVE SoundRight'
  OBVIOUS
<1> DEFINE l == [loop EXCEPT !.force = TRUE]
<1>1. /\ UNCHANGED soundAlone /\ outText' = outText /\ collector' = collector /\ game' = game
      /\ LoopRecord(loop) /\ (Push(l) \/ loop' = loop)
  BY DEF HandlesScale, soundAlone, PicturesInv, Shape, LoopShape
<1>2. LoopRecord(l) /\ SameSound(l, loop) /\ l.pc = loop.pc
  <2>1. TRUE \in BOOLEAN
    OBVIOUS
  <2> QED BY <1>1, <2>1, ForceDoes, FieldsSame, Zenon
<1> HIDE DEF l
<1>3. SameSound(loop', loop) /\ loop'.pc = loop.pc
  BY <1>1, <1>2, PushSame DEF SameSound
<1>4. Steady /\ Onward
  BY <1>1, <1>3 DEF Steady, SameSound, Onward
<1> QED BY <1>1, <1>4, SteadyRight

LEMMA AnswersRight == PicturesInv /\ SoundRight /\ Answers => SoundRight'
<1> SUFFICES ASSUME PicturesInv, SoundRight, Answers PROVE SoundRight'
  OBVIOUS
<1>1. /\ UNCHANGED soundAlone /\ collector' = collector /\ game' = game /\ loop' = At("run")
      /\ LoopShape /\ GameShape /\ SendText(Said("result")) /\ loop.pc = "result" /\ ~game.on
  BY DEF Answers, queuesUnchanged, soundAlone, PicturesInv, Shape, LoopShape
<1>2. SameSound(loop', loop) /\ loop'.pc = "run"
  BY <1>1, AtSame
<1>3. \E m : outText' = Append(outText, m) /\ Worded(m)
  BY <1>1, SendTextDoes DEF Worded
<1>4. Steady /\ Onward
  BY <1>1, <1>2, OnOrOff DEF Steady, SameSound, Onward
<1> QED BY <1>1, <1>3, <1>4, SteadyRight

LEMMA PushesFirstRight == PicturesInv /\ SoundRight /\ PushesFirst => SoundRight'
<1> SUFFICES ASSUME PicturesInv, SoundRight, PushesFirst PROVE SoundRight'
  OBVIOUS
<1>1. /\ UNCHANGED soundAlone /\ outText' = outText /\ collector' = collector /\ game' = game
      /\ LoopShape /\ Push(At(loop.then)) /\ loop.then \in {"run", "sound"} /\ loop.pc = "pushing"
  BY DEF PushesFirst, soundAlone, PicturesInv, Shape, LoopShape
<1> DEFINE l == At(loop.then)
<1>2. LoopRecord(l) /\ SameSound(l, loop) /\ l.pc \in {"run", "sound"}
  BY <1>1, AtSame
<1> HIDE DEF l
<1>3. SameSound(loop', loop) /\ loop'.pc \in {"run", "sound"}
  BY <1>1, <1>2, PushSame DEF SameSound, l
<1>4. game.on = TRUE
  BY <1>1 DEF SoundRight, LoopSounds
<1>5. Steady /\ Onward
  BY <1>1, <1>3, <1>4 DEF Steady, SameSound, Onward
<1> QED BY <1>1, <1>5, SteadyRight

LEMMA PushesLoadedRight == PicturesInv /\ SoundRight /\ PushesLoaded => SoundRight'
<1> SUFFICES ASSUME PicturesInv, SoundRight, PushesLoaded PROVE SoundRight'
  OBVIOUS
<1> DEFINE l == [At("run") EXCEPT !.force = TRUE]
<1>1. /\ UNCHANGED soundAlone /\ outText' = outText /\ collector' = collector
      /\ game' = [game EXCEPT !.flushed = FALSE] /\ GameShape
      /\ LoopShape /\ Push(l) /\ loop.pc = "pushLoaded" /\ game.on
  BY DEF PushesLoaded, soundAlone, PicturesInv, Shape, LoopShape
<1>2. LoopRecord(l) /\ SameSound(l, loop) /\ l.pc = "run"
  <2>1. TRUE \in BOOLEAN
    OBVIOUS
  <2>2. LoopRecord(At("run")) /\ At("run").pc = "run" /\ SameSound(At("run"), loop)
    BY <1>1, AtSame
  <2>3. LoopRecord(l) /\ SameSound(l, At("run")) /\ l.pc = At("run").pc
    BY <2>1, <2>2, ForceDoes, FieldsSame, Zenon
  <2> HIDE DEF l
  <2> QED BY <2>2, <2>3 DEF SameSound
<1> HIDE DEF l
<1>3. SameSound(loop', loop) /\ loop'.pc = "run"
  BY <1>1, <1>2, PushSame DEF SameSound
<1>4. game'.sounding = game.sounding /\ game'.on = game.on
  BY <1>1 DEF GameShape
<1>5. Steady /\ Onward
  BY <1>1, <1>3, <1>4, OnOrOff DEF Steady, SameSound, Onward
<1> QED BY <1>1, <1>5, SteadyRight

\* The guest draws, and the people ask.
LEMMA GuestRight ==
    ASSUME PicturesInv, SoundRight, (\E s \in Screens : Draws(s)) \/ Offers \/ Asks \/ AnswersPing
    PROVE  SoundRight'
<1>0. GameShape
  BY DEF PicturesInv, Shape
<1>1. /\ UNCHANGED soundAlone /\ collector' = collector /\ loop' = loop
      /\ game' = game \/ (\E s \in Screens : game' = [game EXCEPT !.shows = s, !.flushed = TRUE])
      /\ outText' = outText \/ SendText(Said("result"))
  BY DEF Draws, Offers, Asks, AnswersPing, hostVars, soundAlone
<1>2. game'.sounding = game.sounding /\ game'.on = game.on
  BY <1>0, <1>1 DEF GameShape
<1>3. Steady /\ Onward
  BY <1>1, <1>2 DEF Steady, Onward
<1>4. outText' = outText \/ \E m : outText' = Append(outText, m) /\ Worded(m)
  BY <1>1, SendTextDoes DEF Worded
<1> QED BY <1>1, <1>3, <1>4, SteadyRight

LEMMA QuietMeans ==
    /\ Quiet.overflowed = FALSE /\ Played({}, Quiet.events) = {} /\ ~Resets(Quiet.events)
    /\ \A S : S \subseteq Sounds => Played(S, Quiet.events) = S
<1>1. PICK u : u = <<>>
  OBVIOUS
<1>2. Quiet.overflowed = FALSE /\ Quiet.events = u /\ Len(u) = 0
  BY <1>1, EmptyIsSeq DEF Quiet
<1>3. \A S : Played(S, u) = S \cap Sounds
  <2> TAKE S
  <2>1. PlayedTo(S, u, 0) = S \cap Sounds
    BY PlayedNothing
  <2> QED BY <1>2, <2>1 DEF Played
<1>4. ~Resets(u)
  <2>1. ~ResetsTo(u, 0)
    BY PlayedNothing
  <2> QED BY <1>2, <2>1 DEF Resets
<1>5. Played({}, u) = {} /\ \A S : S \subseteq Sounds => Played(S, u) = S
  BY <1>3
<1> QED BY <1>2, <1>4, <1>5

\* Nothing is sent, and the numbers stay.
LEMMA KeptRight ==
    ASSUME PicturesInv, SoundRight, UNCHANGED soundAlone, LoopSounds', outText' = outText,
           \A N : Numbering(N, loop.defs) => Numbering(N, loop'.defs),
           \A Z : Ends(Z) => Ends(Z)'
    PROVE  SoundRight'
<1>1. RightKept
  BY DEF RightKept
<1> QED BY <1>1, RightGoes

LEMMA WaitsToRebuildRight == PicturesInv /\ SoundRight /\ WaitsToRebuild => SoundRight'
<1> SUFFICES ASSUME PicturesInv, SoundRight, WaitsToRebuild PROVE SoundRight'
  OBVIOUS
<1>1. /\ UNCHANGED soundAlone /\ outText' = outText /\ collector' = Quiet /\ game' = game
      /\ LoopShape /\ loop.pc = "sound"
  BY DEF WaitsToRebuild, soundUnchanged, soundAlone, PicturesInv, Shape
<1>2. PICK x : x = TRUE
  OBVIOUS
<1>3. /\ loop'.needsReset = x /\ loop'.audio = loop.audio /\ loop'.defs = loop.defs
      /\ loop'.pc \in {"rebuild", "run"}
  <2>1. PICK y : loop' = [loop EXCEPT !.needsReset = x, !.pc = y] /\ y \in {"rebuild", "run"}
    <3>1. loop' = [loop EXCEPT !.needsReset = x, !.pc = IF RoomForText THEN "rebuild" ELSE "run"]
      BY <1>2, Zenon DEF WaitsToRebuild
    <3>2. (IF RoomForText THEN "rebuild" ELSE "run") \in {"rebuild", "run"}
      OBVIOUS
    <3> QED BY <3>1, <3>2, Zenon
  <2> QED BY <1>1, <2>1 DEF LoopShape, LoopRecord
<1>4. game.on = TRUE /\ x \in BOOLEAN /\ ~(x = FALSE)
  BY <1>1, <1>2 DEF SoundRight, LoopSounds
<1>5. LoopSounds'
  BY <1>1, <1>3, <1>4, QuietMeans DEF SoundRight, LoopSounds, Silent
<1>6. \A Z : Ends(Z) => Ends(Z)'
  BY <1>1, <1>3, <1>4 DEF Ends, Follows
<1> QED BY <1>1, <1>3, <1>5, <1>6, KeptRight

\* A page that asks for its sound is owed a reset.
LEMMA HandlesAudioResumeRight == PicturesInv /\ SoundsInv /\ SoundRight /\ HandlesAudioResume => SoundRight'
<1> SUFFICES ASSUME PicturesInv, SoundsInv, SoundRight, HandlesAudioResume PROVE SoundRight'
  OBVIOUS
<1>1. /\ UNCHANGED soundAlone /\ outText' = outText /\ collector' = collector /\ game' = game
      /\ LoopRecord(loop) /\ GameShape /\ DefsShape(loop.defs) /\ loop.pc = "run"
  BY DEF HandlesAudioResume, TakesCommand, queuesUnchanged, soundAlone, PicturesInv, Shape, LoopShape,
     SoundsInv, DefsKept
<1>2. CASE ~game.on
  <2>1. Steady /\ Onward
    BY <1>1, <1>2 DEF HandlesAudioResume, Steady, Onward
  <2> QED BY <1>1, <2>1, SteadyRight
<1>3. CASE game.on
  <2> DEFINE d == Dropped(loop.defs)
  <2>1. PICK x : x = TRUE
    OBVIOUS
  <2>2. loop' = [loop EXCEPT !.needsReset = x, !.defs = d]
    BY <1>3, <2>1, Zenon DEF HandlesAudioResume
  <2>3. d.last = loop.defs.last /\ \A s \in Sounds : d.ids[s] = 0
    BY <1>1, DroppedDoes
  <2> HIDE DEF d
  <2>4. loop'.defs = d /\ loop'.pc = "run" /\ loop'.needsReset = x /\ loop'.audio = loop.audio
    BY <1>1, <2>2 DEF LoopRecord
  <2>5. \A N : Numbering(N, loop.defs) => Numbering(N, loop'.defs)
    BY <2>3, <2>4 DEF Numbering
  <2>6. game.on = TRUE /\ x \in BOOLEAN /\ ~(x = FALSE)
    BY <1>1, <1>3, <2>1, OnOrOff
  <2>7. LoopSounds'
    BY <1>1, <2>4, <2>6 DEF SoundRight, LoopSounds, Silent
  <2>8. \A Z : Ends(Z) => Ends(Z)'
    BY <1>1, <2>4, <2>6 DEF Ends, Follows
  <2> QED BY <1>1, <2>5, <2>7, <2>8, KeptRight
<1> QED BY <1>2, <1>3

\* A game is closed: it sounds nothing, and the page is told so unless it was
\* before.
LEMMA ClosesRight == PicturesInv /\ SoundRight /\ (HandlesStart \/ HandlesStop \/ GameExits) => SoundRight'
<1> SUFFICES ASSUME PicturesInv, SoundRight, HandlesStart \/ HandlesStop \/ GameExits PROVE SoundRight'
  OBVIOUS
<1>1. /\ UNCHANGED soundAlone /\ outText' = outText /\ loop.pc = "run"
      /\ LoopShape /\ LoopRecord(loop) /\ GameShape
      /\ game' = NoGame \/ game' = [NoGame EXCEPT !.epoch = epoch, !.line = epoch]
  BY DEF HandlesStart, HandlesStop, GameExits, TakesCommand, queuesUnchanged, soundAlone, PicturesInv, Shape,
     LoopShape
<1>2. game'.sounding = {} /\ game'.on = FALSE
  <2>1. PICK x : x = FALSE
    OBVIOUS
  <2>2. NoGame = [game EXCEPT !.on = x, !.shows = None, !.flushed = x, !.sounding = {}]
    BY <2>1, Zenon DEF NoGame
  <2>3. NoGame.sounding = {} /\ NoGame.on = x
        /\ NoGame = [on |-> NoGame.on, shows |-> NoGame.shows, flushed |-> NoGame.flushed,
                     sounding |-> NoGame.sounding, epoch |-> NoGame.epoch, line |-> NoGame.line]
    BY <1>1, <2>2 DEF GameShape
  <2>4. game'.sounding = NoGame.sounding /\ game'.on = NoGame.on
    <3> DEFINE g == NoGame
    <3> HIDE DEF g
    <3>1. g = [on |-> g.on, shows |-> g.shows, flushed |-> g.flushed,
               sounding |-> g.sounding, epoch |-> g.epoch, line |-> g.line]
          /\ (game' = g \/ game' = [g EXCEPT !.epoch = epoch, !.line = epoch])
      BY <1>1, <2>3 DEF g
    <3>2. game'.sounding = g.sounding /\ game'.on = g.on
      BY <3>1
    <3> QED BY <3>2 DEF g
  <2> QED BY <2>1, <2>3, <2>4
<1>3. /\ SameSound(loop', loop)
      /\ \/ loop'.pc = "allOff" /\ collector' = collector
         \/ game.on = FALSE /\ loop'.pc = "starting" /\ collector' = Quiet
         \/ game.on = FALSE /\ loop'.pc = "result" /\ collector' = collector
  <2>1. ASSUME NEW x, NEW y, NEW f, loop' = [[loop EXCEPT !.force = f] EXCEPT !.pc = x, !.then = y]
        PROVE  SameSound(loop', loop) /\ loop'.pc = x
    BY <1>1, <2>1 DEF LoopRecord, SameSound
  <2>2. CASE HandlesStart
    <3>1. loop' = [Closed(loop) EXCEPT !.pc = IF loop.audio THEN "allOff" ELSE "starting", !.then = "starting"]
      BY <2>2, Zenon DEF HandlesStart
    <3>2. SameSound(loop', loop) /\ loop'.pc = IF loop.audio THEN "allOff" ELSE "starting"
      BY <2>1, <3>1, Zenon DEF Closed
    <3>3. collector' = IF loop.audio THEN collector ELSE Quiet
      BY <2>2 DEF HandlesStart
    <3>4. CASE loop.audio
      <4>1. loop'.pc = "allOff" /\ collector' = collector
        BY <3>2, <3>3, <3>4, Zenon
      <4> QED BY <3>2, <4>1
    <3>5. CASE ~loop.audio
      <4>1. loop'.pc = "starting" /\ collector' = Quiet
        BY <3>2, <3>3, <3>5, Zenon
      <4>2. loop.audio = FALSE
        BY <3>5 DEF SoundRight, LoopSounds
      <4>3. game.on = FALSE
        BY <4>2 DEF SoundRight, LoopSounds
      <4> QED BY <3>2, <4>1, <4>3
    <3> QED BY <3>4, <3>5
  <2>3. CASE HandlesStop
    <3>1. CASE game.on
      <4>1. loop' = [Closed(loop) EXCEPT !.pc = "allOff", !.then = "result"] /\ collector' = collector
        BY <2>3, <3>1 DEF HandlesStop
      <4>2. SameSound(loop', loop) /\ loop'.pc = "allOff"
        BY <2>1, <4>1, Zenon DEF Closed
      <4> QED BY <4>1, <4>2
    <3>2. CASE ~game.on
      <4>1. loop' = At("result") /\ collector' = collector
        BY <2>3, <3>2 DEF HandlesStop
      <4> QED BY <1>1, <3>2, <4>1, AtSame, OnOrOff
    <3> QED BY <3>1, <3>2
  <2>4. CASE GameExits
    <3>1. loop' = [Closed(loop) EXCEPT !.pc = "allOff", !.then = "result"] /\ collector' = collector
      BY <2>4, Zenon DEF GameExits
    <3>2. SameSound(loop', loop) /\ loop'.pc = "allOff"
      BY <2>1, <3>1, Zenon DEF Closed
    <3> QED BY <3>1, <3>2
  <2> QED BY <2>2, <2>3, <2>4
<1>4. LoopSounds'
  BY <1>2, <1>3, QuietMeans DEF SoundRight, LoopSounds, SameSound, Silent
<1>5. \A Z : Ends(Z) => Ends(Z)'
  BY <1>1, <1>2, <1>3 DEF Ends, Follows
<1>6. \A N : Numbering(N, loop.defs) => Numbering(N, loop'.defs)
  BY <1>3 DEF SameSound
<1> QED BY <1>1, <1>4, <1>5, <1>6, KeptRight

\* A game is up: a page that waited hears nothing.
Begun(Z) == (Z \ {Waiting}) \cup {Hearing({})}

LEMMA LeadsStarted ==
    ASSUME NEW m, m.kind = "started", NEW e, NEW Z
    PROVE  Leads(Z, m, Begun(Z), e)
BY DEF Leads, Turns, Begun, Restores, AudioOf

LEMMA HearingIs == \A S : /\ Hearing(S) # NotTold /\ Hearing(S) # Waiting /\ Waiting # NotTold
                          /\ \A T : Hearing(S) = Hearing(T) => S = T
BY DEF Hearing, NotTold, Waiting

\* The step that says so.
LEMMA BegunRight ==
    ASSUME PicturesInv, SoundRight, UNCHANGED soundAlone, LoopSounds', loop'.defs = loop.defs,
           SendText(Said("started")), loop.pc # "restored", loop'.pc = "pushing",
           \A Z : Ends(Z) /\ Follows' =>
               \A S : Hearing(S) \in Begun(Z) => Played(S, collector'.events) = game'.sounding
    PROVE  SoundRight'
<1> DEFINE m == Said("started")
<1>1. m.kind = "started" /\ outText' = Append(outText, m)
  BY SendTextDoes
<1> HIDE DEF m
<1>2. NumbersGo(m)
  BY <1>1 DEF NumbersGo, AudioOf
<1>3. EndsGo(m)
  <2>1. ASSUME NEW Z, Ends(Z) PROVE Leads(Z, m, Begun(Z), epoch) /\ Ends(Begun(Z))'
    <3>1. NotTold \notin Begun(Z)
      BY <2>1, HearingIs DEF Ends, Begun
    <3>2. Ends(Begun(Z))'
      BY <2>1, <3>1 DEF Ends
    <3> QED BY <1>1, <3>2, LeadsStarted
  <2> QED BY <2>1 DEF EndsGo
<1>4. RightSent
  BY <1>1, <1>2, <1>3 DEF RightSent
<1> QED BY <1>4, RightGoes

LEMMA StartedRight == PicturesInv /\ SoundRight /\ Started => SoundRight'
<1> SUFFICES ASSUME PicturesInv, SoundRight, Started PROVE SoundRight'
  OBVIOUS
<1>1. /\ UNCHANGED soundAlone /\ collector' = collector /\ loop.pc = "starting"
      /\ LoopShape /\ GameShape /\ SendText(Said("started"))
  BY DEF Started, queuesUnchanged, soundAlone, PicturesInv, Shape
<1>2. PICK x : x = TRUE
  OBVIOUS
<1>3. loop'.defs = loop.defs /\ loop'.pc = "pushing" /\ loop'.needsReset = loop.needsReset /\ loop'.audio = x
  <2>1. loop' = [At("pushing") EXCEPT !.then = "sound", !.force = x, !.audio = x]
    BY <1>2, Zenon DEF Started
  <2>2. LoopRecord(At("pushing")) /\ At("pushing").pc = "pushing" /\ SameSound(At("pushing"), loop)
    BY <1>1, AtSame
  <2> QED BY <2>1, <2>2 DEF LoopRecord, SameSound
<1>4. game'.sounding = game.sounding /\ game'.on = x
  <2>1. PICK y : game' = [game EXCEPT !.on = x, !.flushed = y]
    BY <1>2, Zenon DEF Started
  <2> QED BY <1>1, <2>1 DEF GameShape
<1>5. LoopSounds'
  <2>1. game'.on = TRUE /\ loop'.audio = TRUE
    BY <1>2, <1>3, <1>4
  <2>2. loop'.audio \in BOOLEAN /\ ~(loop'.audio = FALSE)
    BY <2>1
  <2> QED BY <1>1, <1>3, <1>4, <2>1, <2>2 DEF SoundRight, LoopSounds, Silent
<1>6. ASSUME NEW Z, Ends(Z), Follows', NEW S, Hearing(S) \in Begun(Z)
      PROVE  Played(S, collector'.events) = game'.sounding
  <2>1. S = {}
    BY <1>1, <1>6, HearingIs DEF Ends, Begun
  <2>2. collector.overflowed = FALSE
    BY <1>1, <1>6 DEF Follows
  <2>3. Played({}, collector.events) = game.sounding
    BY <1>1, <2>2 DEF SoundRight, LoopSounds
  <2> QED BY <1>1, <1>4, <2>1, <2>3
<1>7. loop.pc # "restored"
  BY <1>1
<1> QED BY <1>1, <1>3, <1>5, <1>6, <1>7, BegunRight

\* A parked game comes back to a page that is owed its sound.
LEMMA HandlesResumeRight ==
    ASSUME NEW slot \in Slots, PicturesInv, SoundRight, HandlesResume(slot), ~game.on
    PROVE  SoundRight'
<1>1. /\ UNCHANGED soundAlone /\ collector' = Quiet /\ loop.pc = "run"
      /\ LoopShape /\ GameShape /\ SendText(Said("started"))
  BY DEF HandlesResume, TakesCommand, queuesUnchanged, soundAlone, PicturesInv, Shape
<1>2. PICK x : x = TRUE
  OBVIOUS
<1>3. loop'.defs = loop.defs /\ loop'.pc = "pushing" /\ loop'.audio = x /\ loop'.needsReset = x
  <2>1. (loop.needsReset \/ ~game.on) = x
    BY <1>2
  <2>2. At("pushing").needsReset = loop.needsReset
    BY <1>1, AtSame DEF SameSound
  <2>3. PICK y : /\ y = (At("pushing").needsReset \/ ~game.on)
                 /\ loop' = [At("pushing") EXCEPT !.then = "run", !.force = x, !.audio = x, !.needsReset = y]
    BY <1>2, Zenon DEF HandlesResume
  <2>4. y = x
    BY <2>1, <2>2, <2>3, Zenon
  <2>5. LoopRecord(At("pushing")) /\ At("pushing").pc = "pushing" /\ SameSound(At("pushing"), loop)
    BY <1>1, AtSame
  <2>6. loop' = [At("pushing") EXCEPT !.then = "run", !.force = x, !.audio = x, !.needsReset = x]
    BY <2>3, <2>4, Zenon
  <2> QED BY <2>5, <2>6 DEF LoopRecord, SameSound
<1>4. game'.on = x
  <2>1. game' = [game EXCEPT !.on = x, !.shows = slot.shows, !.sounding = slot.sounding,
                             !.epoch = epoch, !.line = epoch]
    BY <1>2, Zenon DEF HandlesResume
  <2> QED BY <1>1, <2>1 DEF GameShape
<1>5. loop'.needsReset \in BOOLEAN /\ ~(loop'.needsReset = FALSE)
      /\ loop'.audio \in BOOLEAN /\ ~(loop'.audio = FALSE) /\ game'.on = TRUE
  BY <1>2, <1>3, <1>4
<1>6. LoopSounds'
  BY <1>1, <1>3, <1>5, QuietMeans DEF LoopSounds, Silent
<1>7. ~Follows'
  BY <1>5 DEF Follows
<1>8. loop.pc # "restored"
  BY <1>1
<1> QED BY <1>1, <1>3, <1>6, <1>7, <1>8, BegunRight

LEMMA TellsRestoredRight == PicturesInv /\ SoundRight /\ TellsRestored => SoundRight'
<1> SUFFICES ASSUME PicturesInv, SoundRight, TellsRestored PROVE SoundRight'
  OBVIOUS
<1> DEFINE m == Said("restored")
<1>1. /\ UNCHANGED soundAlone /\ collector' = collector /\ game' = game /\ loop' = At("resuming")
      /\ LoopShape /\ loop.pc = "restored"
  BY DEF TellsRestored, queuesUnchanged, soundAlone, PicturesInv, Shape
<1>2. m.kind = "restored" /\ m.epoch = epoch /\ outText' = Append(outText, m)
  BY SendTextDoes DEF TellsRestored
<1> HIDE DEF m
<1>3. SameSound(loop', loop) /\ loop'.pc = "resuming"
  BY <1>1, AtSame
<1>4. LoopSounds'
  BY <1>1, <1>3 DEF SoundRight, LoopSounds, SameSound, Silent
<1>5. NumbersGo(m)
  BY <1>2, <1>3 DEF NumbersGo, AudioOf, SameSound
<1>6. EndsGo(m)
  <2>1. ASSUME NEW Z, Ends(Z) PROVE Leads(Z, m, {Hearing({})}, epoch) /\ Ends({Hearing({})})'
    <3>1. Z \subseteq {NotTold}
      BY <1>1, <2>1 DEF Ends
    <3>2. Leads(Z, m, {Hearing({})}, epoch)
      BY <1>2, <3>1 DEF Leads, Turns, Restores
    <3>3. Ends({Hearing({})})'
      BY <1>3, HearingIs DEF Ends, Follows
    <3> QED BY <3>2, <3>3
  <2> QED BY <2>1 DEF EndsGo
<1>7. RightSent
  BY <1>2, <1>5, <1>6 DEF RightSent
<1> QED BY <1>1, <1>4, <1>7, RightGoes

\* The guest plays.
LEMMA PlaysRight ==
    ASSUME PicturesInv, SoundsInv, SoundRight, NEW x, NEW T, T \subseteq Sounds, Plays(x, T),
           x.op # "allOff", Heeds(game.sounding, x) = T
    PROVE  SoundRight'
<1>1. /\ UNCHANGED soundAlone /\ outText' = outText /\ loop' = loop /\ GuestRuns
      /\ collector' = Collect(collector, x)
      /\ game' = [game EXCEPT !.sounding = T] /\ GameShape /\ CollectorShape
  BY DEF Plays, hostVars, soundAlone, PicturesInv, Shape, SoundsInv
<1>2. game'.sounding = T /\ game'.on = game.on
  BY <1>1 DEF GameShape
<1>3. \/ collector'.overflowed = TRUE
      \/ collector'.overflowed = collector.overflowed /\ collector'.events = Append(collector.events, x)
  <2> DEFINE a == <<AllOff, x>>
             b == Append(collector.events, x)
  <2>1. PICK y : y = TRUE
    OBVIOUS
  <2>2. collector' = [events |-> a, overflowed |-> y] \/ collector' = [collector EXCEPT !.events = b]
    BY <1>1, <2>1, Zenon DEF Collect
  <2> HIDE DEF a, b
  <2>3. collector'.overflowed = y \/ (collector'.overflowed = collector.overflowed /\ collector'.events = b)
    BY <1>1, <2>2 DEF CollectorShape
  <2> QED BY <2>1, <2>3 DEF b
<1>4. collector'.overflowed \in BOOLEAN
  BY <1>3 DEF SoundRight, LoopSounds
<1>5. ASSUME collector'.overflowed = FALSE
      PROVE  /\ collector.overflowed = FALSE
             /\ Resets(collector'.events) <=> Resets(collector.events)
             /\ \A S : Played(S, collector'.events) = Heeds(Played(S, collector.events), x)
  <2>1. collector.overflowed = FALSE /\ collector'.events = Append(collector.events, x)
    BY <1>3, <1>5
  <2>2. IsSeq(collector.events)
    BY <1>1 DEF CollectorShape, EventsOk
  <2> QED BY <2>1, <2>2, PlayedAppended
<1>6. LoopSounds'
  <2>1. (loop.pc = "run" /\ game.on = TRUE) \/ loop.pc \in {"starting", "resuming"}
    BY <1>1, OnOrOff DEF GuestRuns
  <2>2. ~Silent'
    BY <1>1, <1>2, <2>1 DEF Silent
  <2>3. (loop.pc = "starting" /\ collector.overflowed = FALSE => Played({}, collector.events) = game.sounding)'
    BY <1>1, <1>2, <1>5 DEF SoundRight, LoopSounds
  <2>4. (collector.overflowed = FALSE => ~Resets(collector.events))'
    BY <1>5 DEF SoundRight, LoopSounds
  <2> QED BY <1>1, <1>2, <1>4, <2>1, <2>2, <2>3, <2>4 DEF SoundRight, LoopSounds
<1>7. \A Z : Ends(Z) => Ends(Z)'
  <2> TAKE Z
  <2> HAVE Ends(Z)
  <2>1. Follows' => \A S : Hearing(S) \in Z => Played(S, collector'.events) = game'.sounding
    BY <1>1, <1>2, <1>5 DEF Ends, Follows
  <2> QED BY <1>1, <1>2, <2>1 DEF Ends
<1> QED BY <1>1, <1>6, <1>7, KeptRight

LEMMA GuestPlaysRight == PicturesInv /\ SoundsInv /\ SoundRight /\ (StartsSound \/ StopsSound) => SoundRight'
<1> SUFFICES ASSUME PicturesInv, SoundsInv, SoundRight, StartsSound \/ StopsSound PROVE SoundRight'
  OBVIOUS
<1>0. game.sounding \subseteq Sounds
  BY DEF SoundsInv, CollectorShape
<1>1. CASE StartsSound
  <2>1. PICK s \in Sounds \ game.sounding : Plays(Start(s), game.sounding \cup {s})
    BY <1>1 DEF StartsSound
  <2>2. Start(s).op # "allOff" /\ Heeds(game.sounding, Start(s)) = game.sounding \cup {s}
    BY <1>0 DEF Start, Heeds, Starts, Silences
  <2> QED BY <1>0, <2>1, <2>2, PlaysRight
<1>2. CASE StopsSound
  <2>1. PICK s \in game.sounding : Plays(Stop(s), game.sounding \ {s})
    BY <1>2 DEF StopsSound
  <2>2. Stop(s).op # "allOff" /\ Heeds(game.sounding, Stop(s)) = game.sounding \ {s}
    BY <1>0 DEF Stop, Heeds, Starts, Silences
  <2> QED BY <1>0, <2>1, <2>2, PlaysRight
<1> QED BY <1>1, <1>2

\* A game that is replayed is heard as it was.
LEMMA ReplayPlays ==
    ASSUME NEW G, G \subseteq Sounds, IsFiniteSet(G)
    PROVE  /\ Played({}, Replay(G)) = G
           /\ Resets(<<AllOff>> \o Replay(G))
           /\ \A S : Played(S, <<AllOff>> \o Replay(G)) = G
<1> DEFINE q == SetToSeq(G)
           n == Cardinality(G)
           t == Replay(G)
<1>1. n \in Nat
  BY FS_CardinalityType
<1>2. q \in [1..n -> G] /\ IsInjective(q)
  <2>1. \E f \in [1..n -> G] : IsInjective(f)
    <3>1. PICK f : f \in Bijection(1..n, G)
      BY FS_CardinalityType DEF ExistsBijection
    <3> QED BY <3>1, Zenon DEF Bijection, Injection
  <2> QED BY <2>1 DEF SetToSeq
<1> HIDE DEF q
<1>3. t = [i \in 1..n |-> Start(q[i])]
  BY DEF Replay, q
<1>4. \A s \in G : \E i \in 1..n : q[i] = s
  <2> DEFINE R == {q[i] : i \in 1..n}
  <2>1. R \in SUBSET G
    BY <1>2
  <2>2. q \in Bijection(1..n, R)
    <3>1. q \in [1..n -> R] /\ \A r \in R : \E i \in 1..n : q[i] = r
      BY <1>2
    <3> HIDE DEF R
    <3> QED BY <1>2, <3>1, Zenon DEF Bijection, Injection, Surjection
  <2>3. Cardinality(R) = n
    <3> HIDE DEF R, n
    <3>1. ExistsBijection(1..n, R)
      BY <2>2 DEF ExistsBijection
    <3> QED BY <1>1, <3>1, FS_CountingElements
  <2>4. R = G
    <3> HIDE DEF R
    <3> QED BY <2>1, <2>3, FS_Subset
  <2> QED BY <2>4
<1> HIDE DEF n, t
<1>5. /\ IsSeq(t) /\ Len(t) = n
      /\ \A i \in 1..n : t[i].op = "start" /\ t[i].sound \in G
      /\ \A s \in G : \E i \in 1..n : t[i].sound = s
  <2>1. \A i \in 1..n : t[i] = Start(q[i])
    BY <1>3
  <2> DEFINE T == {Start(q[i]) : i \in 1..n}
  <2>2. t \in Seq(T) /\ Len(t) = n
    BY <1>1, <1>3
  <2> HIDE DEF T
  <2> QED BY <1>2, <1>4, <2>1, <2>2 DEF IsSeq, Start
<1>6. \A i \in 1..n : \A s : (Starts(t[i], s) <=> t[i].sound = s) /\ ~Silences(t[i], s)
  BY <1>5 DEF Starts, Silences
<1>7. Played({}, t) = G
  <2>1. ASSUME NEW s \in Sounds
        PROVE  s \in G <=> \E j \in 1..n : Starts(t[j], s) /\ \A i \in (j + 1)..n : ~Silences(t[i], s)
    <3>1. \A j \in 1..n : \A i \in (j + 1)..n : i \in 1..n
      BY <1>1
    <3> QED BY <1>5, <1>6, <3>1
  <2> QED BY <1>5, <2>1 DEF Played, PlayedTo
<1> DEFINE a == <<AllOff>>
           u == a \o t
<1>8. IsSeq(a) /\ Len(a) = 1 /\ a[1] = AllOff
  <2> HIDE DEF AllOff
  <2> QED BY OneIsSeq
<1> HIDE DEF a
<1>9. /\ IsSeq(u) /\ Len(u) = Len(a) + Len(t)
      /\ \A i \in 1..(Len(a) + Len(t)) : u[i] = IF i <= Len(a) THEN a[i] ELSE t[i - Len(a)]
  BY <1>5, <1>8, SeqJoined, Zenon
<1> HIDE DEF u
<1>10. Len(u) = n + 1 /\ u[1] = AllOff /\ \A i \in 1..n : u[i + 1] = t[i]
  BY <1>1, <1>5, <1>8, <1>9
<1>11. Resets(u)
  BY <1>1, <1>10 DEF Resets, ResetsTo, AllOff
<1>12. ASSUME NEW S PROVE Played(S, u) = G
  <2>1. ASSUME NEW s \in Sounds
        PROVE  s \in G <=>
               \/ s \in S /\ \A j \in 1..(n + 1) : ~Silences(u[j], s)
               \/ \E j \in 1..(n + 1) : Starts(u[j], s) /\ \A i \in (j + 1)..(n + 1) : ~Silences(u[i], s)
    <3>1. Silences(u[1], s) /\ ~Starts(u[1], s) /\ 1 \in 1..(n + 1)
      BY <1>1, <1>10 DEF Silences, Starts, AllOff
    <3>2. \A j \in 1..(n + 1) : j = 1 \/ (j - 1 \in 1..n /\ u[j] = t[j - 1])
      BY <1>1, <1>10
    <3>3. \A j \in 1..n : j + 1 \in 1..(n + 1) /\ u[j + 1] = t[j]
      BY <1>1, <1>10
    <3>4. \A j \in 1..(n + 1) : \A i \in (j + 1)..(n + 1) : i \in 1..(n + 1) /\ i # 1
      BY <1>1
    <3>5. \A i \in 1..(n + 1) : i # 1 => ~Silences(u[i], s)
      BY <1>6, <3>2
    <3>6. ASSUME s \in G PROVE \E j \in 1..(n + 1) : Starts(u[j], s)
      BY <1>5, <1>6, <3>3, <3>6
    <3>7. ASSUME NEW j \in 1..(n + 1), Starts(u[j], s) PROVE s \in G
      BY <1>5, <1>6, <3>1, <3>2, <3>7
    <3> QED BY <3>1, <3>4, <3>5, <3>6, <3>7
  <2> QED BY <1>10, <2>1 DEF Played, PlayedTo
<1> QED BY <1>7, <1>11, <1>12 DEF t, u, a

-----------------------------------------------------------------------------
(***************************************************************************)
(* The loop sends what is played.                                          *)
(***************************************************************************)
\* What a page may hear when it has taken a message of them.
HeardAfter(Z, events) ==
    {Waiting} \cup
    {Hearing(T) : T \in {T \in SUBSET Sounds :
        \E S : /\ Hearing(S) \in Z \/ (Waiting \in Z /\ S = {} /\ Resets(events))
               /\ T = Played(S, events)}}

LEMMA HeardAfterIs ==
    ASSUME NEW Z, NEW events
    PROVE  /\ NotTold \notin HeardAfter(Z, events)
           /\ \A T : Hearing(T) \in HeardAfter(Z, events) =>
                T \subseteq Sounds /\ \E S : /\ Hearing(S) \in Z \/ (Waiting \in Z /\ S = {} /\ Resets(events))
                                             /\ T = Played(S, events)
BY HearingIs DEF HeardAfter

LEMMA LeadsSound ==
    ASSUME NEW Z, NotTold \notin Z, NEW m, AudioOf(m, epoch), NEW events,
           MeansTo(m.wire, events, Len(events))
    PROVE  Leads(Z, m, HeardAfter(Z, events), epoch)
<1>1. m.kind = "audio"
  BY DEF AudioOf
<1>2. ~Restores(m, epoch) /\ m.kind # "started"
  BY <1>1 DEF Restores
<1>3. ASSUME NEW x \in Z, NEW y, Turns(x, m, y, epoch) PROVE y \in HeardAfter(Z, events)
  <2>1. \/ y = Waiting
        \/ \E S : /\ x = Hearing(S) \/ (x = Waiting /\ S = {} /\ Resets(m.wire))
                  /\ y = Hearing(Played(S, m.wire))
    BY <1>2, <1>3 DEF Turns
  <2>2. CASE y = Waiting
    BY <2>2 DEF HeardAfter
  <2>3. ASSUME NEW S, x = Hearing(S) \/ (x = Waiting /\ S = {} /\ Resets(m.wire)),
               y = Hearing(Played(S, m.wire))
        PROVE  y \in HeardAfter(Z, events)
    <3>1. Played(S, m.wire) = Played(S, events) /\ (Resets(m.wire) <=> Resets(events))
      BY DEF MeansTo, Played, Resets
    <3>2. Played(S, events) \in SUBSET Sounds
      BY PlayedSounds
    <3>3. Hearing(S) \in Z \/ (Waiting \in Z /\ S = {} /\ Resets(events))
      BY <1>3, <2>3, <3>1
    <3> QED BY <2>3, <3>1, <3>2, <3>3 DEF HeardAfter
  <2> QED BY <2>1, <2>2, <2>3
<1> QED BY <1>3 DEF Leads

\* A message of sounds is sent, or lost with a reset owed.
LEMMA SendSoundSets ==
    ASSUME NEW l, LoopRecord(l), NEW events, SendSound(l, events)
    PROVE  /\ loop'.pc = l.pc /\ loop'.audio = l.audio
           /\ \/ /\ RoomForText /\ loop'.needsReset = l.needsReset
                 /\ outText' = Append(outText, SoundOf(Encode(l.defs, events).wire))
                 /\ loop'.defs = Encode(l.defs, events).defs
              \/ ~RoomForText /\ loop'.needsReset = TRUE /\ outText' = outText
<1> DEFINE e == Encode(l.defs, events)
           d == Dropped(e.defs)
<1>1. PICK x : x = TRUE
  OBVIOUS
<1>2. \/ RoomForText /\ outText' = Append(outText, SoundOf(e.wire)) /\ loop' = [l EXCEPT !.defs = e.defs]
      \/ ~RoomForText /\ outText' = outText /\ loop' = [l EXCEPT !.defs = d, !.needsReset = x]
  BY <1>1, Zenon DEF SendSound
<1> HIDE DEF e, d
<1>3. CASE RoomForText /\ outText' = Append(outText, SoundOf(e.wire)) /\ loop' = [l EXCEPT !.defs = e.defs]
  <2>1. loop'.pc = l.pc /\ loop'.audio = l.audio /\ loop'.needsReset = l.needsReset /\ loop'.defs = e.defs
    BY <1>3 DEF LoopRecord
  <2> QED BY <1>3, <2>1 DEF e
<1>4. CASE ~RoomForText /\ outText' = outText /\ loop' = [l EXCEPT !.defs = d, !.needsReset = x]
  <2>1. loop'.pc = l.pc /\ loop'.audio = l.audio /\ loop'.needsReset = x
    BY <1>4 DEF LoopRecord
  <2> QED BY <1>1, <1>4, <2>1
<1> QED BY <1>2, <1>3, <1>4

LEMMA SendSoundRight ==
    ASSUME PicturesInv, SoundsInv, SoundRight, UNCHANGED soundAlone, LoopSounds', loop.pc # "restored",
           NEW l, LoopRecord(l), l.defs = loop.defs, NEW events, EventsOk(events), SendSound(l, events),
           \A Z : Ends(Z) => IF RoomForText THEN Ends(HeardAfter(Z, events))' ELSE Ends(Z)'
    PROVE  SoundRight'
<1> DEFINE e == Encode(loop.defs, events)
           m == SoundOf(e.wire)
<1>1. DefsShape(loop.defs)
  BY DEF SoundsInv, DefsKept
<1>2. DefsShape(loop'.defs) /\ After(loop'.defs, loop.defs) /\ (SoundKept \/ SoundSent)
  BY <1>1, SoundIsSent
<1>3. \/ RoomForText /\ outText' = Append(outText, m) /\ loop'.defs = e.defs
      \/ ~RoomForText /\ outText' = outText
  BY SendSoundSets
<1>4. m.kind = "audio" /\ m.epoch = epoch /\ m.wire = e.wire
  BY DEF SoundOf
<1>5. \A N : Numbering(N, loop.defs) =>
        \E N2 : N \subseteq N2 /\ EncodedTo(e, N2, events, Len(events))
  BY <1>1, EncodeMeans
<1> HIDE DEF m, e
<1>6. CASE RoomForText
  <2>1. NumbersGo(m)
    BY <1>3, <1>4, <1>5, <1>6 DEF NumbersGo, EncodedTo
  <2>2. EndsGo(m)
    <3>1. ASSUME NEW Z, Ends(Z)
          PROVE  Leads(Z, m, HeardAfter(Z, events), epoch) /\ Ends(HeardAfter(Z, events))'
      <4>1. NotTold \notin Z
        BY <3>1 DEF Ends
      <4>2. PICK N : Numbering(N, loop.defs)
        BY DEF SoundRight, Numbered
      <4>3. MeansTo(m.wire, events, Len(events))
        BY <1>4, <1>5, <4>2 DEF EncodedTo
      <4>4. AudioOf(m, epoch)
        BY <1>4 DEF AudioOf
      <4>5. Leads(Z, m, HeardAfter(Z, events), epoch)
        BY <4>1, <4>3, <4>4, LeadsSound
      <4> QED BY <1>6, <3>1, <4>5
    <3> QED BY <3>1 DEF EndsGo
  <2>3. RightSent
    BY <1>3, <1>6, <2>1, <2>2 DEF RightSent
  <2> QED BY <2>3, RightGoes
<1>7. CASE ~RoomForText
  <2>1. \A N : Numbering(N, loop.defs) => Numbering(N, loop'.defs)
    <3>1. \A s \in Sounds : loop'.defs.ids[s] # 0 => loop'.defs.ids[s] = 0
      <4> DEFINE d == Encode(l.defs, events).defs
      <4>1. DefsShape(d)
        <5>1. Held(loop.defs, Nat)
          BY <1>1 DEF Held, DefsShape
        <5>2. EncodedFrom(Encode(loop.defs, events), Nat, loop.defs)
          BY <1>1, <5>1, EncodeDoes
        <5> QED BY <5>2 DEF EncodedFrom
      <4>2. loop'.defs = Dropped(d)
        <5>1. PICK x : loop' = [l EXCEPT !.defs = Dropped(d), !.needsReset = x]
          BY <1>7, Zenon DEF SendSound
        <5> HIDE DEF d
        <5> QED BY <5>1 DEF LoopRecord
      <4> HIDE DEF d
      <4> QED BY <4>1, <4>2, DroppedDoes
    <3>2. loop.defs.last \in Nat /\ loop'.defs.last \in Nat /\ loop.defs.last <= loop'.defs.last
      BY <1>1, <1>2 DEF After, DefsShape
    <3>3. \A x \in 1..loop.defs.last : x \in 1..loop'.defs.last
      BY <3>2
    <3> QED BY <3>1, <3>3 DEF Numbering
  <2>2. RightKept
    BY <1>3, <1>7, <2>1 DEF RightKept
  <2> QED BY <2>2, RightGoes
<1> QED BY <1>6, <1>7

LEMMA FlushesSoundRight == PicturesInv /\ SoundsInv /\ SoundRight /\ FlushesSound => SoundRight'
<1> SUFFICES ASSUME PicturesInv, SoundsInv, SoundRight, FlushesSound PROVE SoundRight'
  OBVIOUS
<1> DEFINE l == At("run")
<1>0. PICK c : c = collector.events
  OBVIOUS
<1>1. /\ UNCHANGED soundAlone /\ collector' = Quiet /\ game' = game /\ loop.pc = "sound"
      /\ LoopShape /\ CollectorShape /\ ~loop.needsReset /\ ~collector.overflowed
      /\ (c = <<>> /\ outText' = outText /\ loop' = l) \/ SendSound(l, c)
  BY <1>0 DEF FlushesSound, soundUnchanged, soundAlone, PicturesInv, Shape, SoundsInv
<1>2. LoopRecord(l) /\ SameSound(l, loop) /\ l.pc = "run"
  BY <1>1, AtSame
<1> HIDE DEF l
<1>3. game.on = TRUE /\ loop.needsReset = FALSE /\ collector.overflowed = FALSE /\ ~Resets(c)
  <2>1. loop.needsReset = FALSE /\ collector.overflowed = FALSE
    BY <1>1 DEF SoundRight, LoopSounds
  <2> QED BY <1>0, <1>1, <2>1 DEF SoundRight, LoopSounds
<1>4. Follows
  BY <1>1, <1>3 DEF Follows
<1>5. ASSUME loop'.pc = "run", loop'.audio = loop.audio, loop'.needsReset \in BOOLEAN PROVE LoopSounds'
  BY <1>1, <1>3, <1>5, QuietMeans DEF SoundRight, LoopSounds, Silent
<1>6. CASE c = <<>> /\ outText' = outText /\ loop' = l
  <2>1. LoopSounds'
    BY <1>2, <1>3, <1>5, <1>6 DEF SameSound
  <2>2. Quiet.events = c
    BY <1>6 DEF Quiet
  <2>3. \A Z : Ends(Z) => Ends(Z)'
    BY <1>0, <1>1, <1>2, <1>3, <1>4, <1>6, <2>2 DEF Ends, Follows
  <2>4. loop'.defs = loop.defs
    BY <1>2, <1>6 DEF SameSound
  <2> QED BY <1>1, <1>6, <2>1, <2>3, <2>4, KeptRight
<1>7. CASE SendSound(l, c)
  <2>1. /\ loop'.pc = l.pc /\ loop'.audio = l.audio
        /\ \/ RoomForText /\ loop'.needsReset = l.needsReset
           \/ ~RoomForText /\ loop'.needsReset = TRUE
    BY <1>2, <1>7, SendSoundSets
  <2>2. LoopSounds'
    BY <1>2, <1>3, <1>5, <2>1 DEF SameSound
  <2>3. ASSUME NEW Z, Ends(Z), RoomForText PROVE Ends(HeardAfter(Z, c))'
    <3>1. ASSUME NEW T, Hearing(T) \in HeardAfter(Z, c) PROVE Played(T, Quiet.events) = game.sounding
      <4>1. T \subseteq Sounds /\ \E S : /\ Hearing(S) \in Z \/ (Waiting \in Z /\ S = {} /\ Resets(c))
                                         /\ T = Played(S, c)
        BY <3>1, HeardAfterIs
      <4>2. T = game.sounding
        BY <1>0, <1>3, <1>4, <2>3, <4>1 DEF Ends
      <4> QED BY <4>1, <4>2, QuietMeans
    <3>2. NotTold \notin HeardAfter(Z, c)
      BY HeardAfterIs
    <3> QED BY <1>1, <1>2, <1>3, <2>1, <3>1, <3>2 DEF Ends
  <2>4. ASSUME NEW Z, Ends(Z), ~RoomForText PROVE Ends(Z)'
    <3>1. ~(loop'.needsReset = FALSE)
      BY <2>1, <2>4
    <3> QED BY <1>1, <1>2, <1>3, <2>1, <2>4, <3>1 DEF Ends, Follows
  <2>5. EventsOk(c) /\ l.defs = loop.defs /\ loop.pc # "restored"
    BY <1>0, <1>1, <1>2 DEF CollectorShape, SameSound
  <2> QED BY <1>1, <1>2, <1>7, <2>2, <2>3, <2>4, <2>5, SendSoundRight
<1> QED BY <1>1, <1>6, <1>7

LEMMA RebuildsSoundRight == PicturesInv /\ SoundsInv /\ SoundRight /\ RebuildsSound => SoundRight'
<1> SUFFICES ASSUME PicturesInv, SoundsInv, SoundRight, RebuildsSound PROVE SoundRight'
  OBVIOUS
<1> DEFINE l == [At("run") EXCEPT !.needsReset = FALSE]
<1>0. PICK c : c = <<AllOff>> \o Replay(game.sounding)
  OBVIOUS
<1>1. /\ UNCHANGED soundAlone /\ collector' = collector /\ game' = game /\ loop.pc = "rebuild"
      /\ LoopShape /\ CollectorShape /\ SendSound(l, c)
  BY <1>0 DEF RebuildsSound, soundUnchanged, soundAlone, PicturesInv, Shape, SoundsInv
<1>2. LoopRecord(l) /\ l.defs = loop.defs /\ l.audio = loop.audio /\ l.pc = "run" /\ l.needsReset = FALSE
  <2>1. PICK x : l = [At("run") EXCEPT !.needsReset = x] /\ x = FALSE
    BY Zenon
  <2>2. LoopRecord(At("run")) /\ At("run").pc = "run" /\ SameSound(At("run"), loop)
    BY <1>1, AtSame
  <2> HIDE DEF l
  <2>3. LoopRecord(l) /\ l.defs = loop.defs /\ l.audio = loop.audio /\ l.pc = "run" /\ l.needsReset = x
    BY <2>1, <2>2 DEF LoopRecord, SameSound
  <2> QED BY <2>1, <2>3
<1> HIDE DEF l
<1>3. game.on = TRUE /\ collector = Quiet
  BY <1>1 DEF SoundRight, LoopSounds
<1>4. EventsOk(c) /\ \A S : Played(S, c) = game.sounding
  BY <1>0, <1>1, ReplayOk, ReplayPlays DEF CollectorShape
<1>5. /\ loop'.pc = "run" /\ loop'.audio = loop.audio
      /\ \/ RoomForText /\ loop'.needsReset = FALSE
         \/ ~RoomForText /\ loop'.needsReset = TRUE
  BY <1>1, <1>2, SendSoundSets
<1>6. LoopSounds'
  <2>1. loop'.needsReset \in BOOLEAN
    BY <1>5
  <2> QED BY <1>1, <1>3, <1>5, <2>1, QuietMeans DEF SoundRight, LoopSounds, Silent
<1>7. ASSUME NEW Z, Ends(Z), RoomForText PROVE Ends(HeardAfter(Z, c))'
  <2>1. ASSUME NEW T, Hearing(T) \in HeardAfter(Z, c) PROVE Played(T, Quiet.events) = game.sounding
    <3>1. T \subseteq Sounds /\ T = game.sounding
      BY <1>4, <2>1, HeardAfterIs
    <3> QED BY <3>1, QuietMeans
  <2>2. NotTold \notin HeardAfter(Z, c)
    BY HeardAfterIs
  <2> QED BY <1>1, <1>3, <1>5, <2>1, <2>2 DEF Ends
<1>8. ASSUME NEW Z, Ends(Z), ~RoomForText PROVE Ends(Z)'
  <2>1. ~(loop'.needsReset = FALSE)
    BY <1>5, <1>8
  <2> QED BY <1>1, <1>3, <1>5, <1>8, <2>1 DEF Ends, Follows
<1>9. loop.pc # "restored"
  BY <1>1
<1> QED BY <1>1, <1>2, <1>4, <1>6, <1>7, <1>8, <1>9, SendSoundRight

LEMMA SilencesPageRight == PicturesInv /\ SoundsInv /\ SoundRight /\ SilencesPage => SoundRight'
<1> SUFFICES ASSUME PicturesInv, SoundsInv, SoundRight, SilencesPage PROVE SoundRight'
  OBVIOUS
<1> DEFINE l == At(loop.then)
           c == <<AllOff>>
<1>1. /\ UNCHANGED soundAlone /\ game' = game /\ loop.pc = "allOff" /\ RoomForText
      /\ collector' = (IF loop.then = "starting" THEN Quiet ELSE collector)
      /\ loop.then \in {"starting", "result"} /\ ~game.on
      /\ LoopShape /\ GameShape /\ SendSound(l, c)
  BY DEF SilencesPage, queuesUnchanged, soundAlone, PicturesInv, Shape, LoopShape
<1>2. LoopRecord(l) /\ SameSound(l, loop) /\ l.pc = loop.then
  BY <1>1, AtSame
<1> HIDE DEF l
<1>3. EventsOk(c) /\ \A S : Played(S, c) = {}
  BY ReplayOk, PlayedAllOff, FS_EmptySet
<1> HIDE DEF c
<1>4. loop'.pc = loop.then /\ loop'.audio = loop.audio /\ loop'.needsReset = loop.needsReset
  BY <1>1, <1>2, SendSoundSets DEF SameSound
<1>5. game.on = FALSE /\ game.sounding = {}
  BY <1>1, OnOrOff DEF SoundRight, LoopSounds, Silent
<1>6. LoopSounds'
  BY <1>1, <1>4, <1>5, QuietMeans DEF SoundRight, LoopSounds, Silent
<1>7. ASSUME NEW Z, Ends(Z) PROVE Ends(HeardAfter(Z, c))'
  <2>1. \A T : Hearing(T) \in HeardAfter(Z, c) => T = {}
    BY <1>3, HeardAfterIs
  <2>2. NotTold \notin HeardAfter(Z, c)
    BY HeardAfterIs
  <2> QED BY <1>1, <1>4, <1>5, <2>1, <2>2 DEF Ends, Follows
<1>8. loop.pc # "restored" /\ l.defs = loop.defs
  BY <1>1, <1>2 DEF SameSound
<1> QED BY <1>1, <1>2, <1>3, <1>6, <1>7, <1>8, SendSoundRight

LEMMA RebuildsLoadedRight == PicturesInv /\ SoundsInv /\ SoundRight /\ RebuildsLoaded => SoundRight'
<1> SUFFICES ASSUME PicturesInv, SoundsInv, SoundRight, RebuildsLoaded PROVE SoundRight'
  OBVIOUS
<1> DEFINE l == [At("pushLoaded") EXCEPT !.needsReset = FALSE]
<1>0. PICK c : c = Replay(game.sounding)
  OBVIOUS
<1>1. /\ UNCHANGED soundAlone /\ collector' = Quiet /\ game' = game /\ loop.pc = "resuming" /\ game.on
      /\ LoopShape /\ GameShape /\ CollectorShape
      /\ \/ game.sounding = {} /\ outText' = outText /\ loop' = l
         \/ RoomForText /\ SendSound(l, c)
  BY <1>0 DEF RebuildsLoaded, queuesUnchanged, soundAlone, PicturesInv, Shape, LoopShape, SoundsInv
<1>2. LoopRecord(l) /\ l.defs = loop.defs /\ l.audio = loop.audio /\ l.pc = "pushLoaded" /\ l.needsReset = FALSE
  <2>1. PICK x : l = [At("pushLoaded") EXCEPT !.needsReset = x] /\ x = FALSE
    BY Zenon
  <2>2. LoopRecord(At("pushLoaded")) /\ At("pushLoaded").pc = "pushLoaded" /\ SameSound(At("pushLoaded"), loop)
    BY <1>1, AtSame
  <2> HIDE DEF l
  <2>3. LoopRecord(l) /\ l.defs = loop.defs /\ l.audio = loop.audio /\ l.pc = "pushLoaded" /\ l.needsReset = x
    BY <2>1, <2>2 DEF LoopRecord, SameSound
  <2> QED BY <2>1, <2>3
<1> HIDE DEF l
<1>3. game.on = TRUE
  BY <1>1, OnOrOff
<1>4. ASSUME loop'.pc = "pushLoaded", loop'.audio = loop.audio, loop'.needsReset = FALSE PROVE LoopSounds'
  <2>1. loop'.needsReset \in BOOLEAN
    BY <1>4
  <2> QED BY <1>1, <1>3, <1>4, <2>1, QuietMeans DEF SoundRight, LoopSounds, Silent
<1>5. CASE game.sounding = {} /\ outText' = outText /\ loop' = l
  <2>1. LoopSounds'
    BY <1>2, <1>4, <1>5
  <2>2. \A Z : Ends(Z) => Ends(Z)'
    BY <1>1, <1>2, <1>5, QuietMeans DEF Ends
  <2> QED BY <1>1, <1>2, <1>5, <2>1, <2>2, KeptRight
<1>6. CASE RoomForText /\ SendSound(l, c)
  <2>1. EventsOk(c) /\ Played({}, c) = game.sounding
    BY <1>0, <1>1, ReplayOk, ReplayPlays DEF CollectorShape
  <2>2. loop'.pc = "pushLoaded" /\ loop'.audio = loop.audio /\ loop'.needsReset = FALSE
    BY <1>2, <1>6, SendSoundSets
  <2>3. LoopSounds'
    BY <1>4, <2>2
  <2>4. ASSUME NEW Z, Ends(Z) PROVE Ends(HeardAfter(Z, c))'
    <3>1. ASSUME NEW T, Hearing(T) \in HeardAfter(Z, c) PROVE Played(T, Quiet.events) = game.sounding
      <4>1. T \subseteq Sounds /\ \E S : /\ Hearing(S) \in Z \/ (Waiting \in Z /\ S = {} /\ Resets(c))
                                         /\ T = Played(S, c)
        BY <3>1, HeardAfterIs
      <4>2. T = game.sounding
        BY <1>1, <2>1, <2>4, <4>1 DEF Ends
      <4> QED BY <4>1, <4>2, QuietMeans
    <3>2. NotTold \notin HeardAfter(Z, c)
      BY HeardAfterIs
    <3> QED BY <1>1, <2>2, <3>1, <3>2 DEF Ends
  <2>5. loop.pc # "restored"
    BY <1>1
  <2> QED BY <1>1, <1>2, <1>6, <2>1, <2>3, <2>4, <2>5, SendSoundRight
<1> QED BY <1>1, <1>5, <1>6

\* A load begins a timeline the page was not told of.
LEMMA QuickLoadsRight ==
    ASSUME NEW slot \in Slots, PicturesInv, SoundRight, QuickLoads(slot)
    PROVE  SoundRight'
<1>1. /\ epoch' = epoch + 1 /\ outText' = outText /\ writer' = writer /\ page' = page
      /\ collector' = Quiet /\ loop' = [At("restored") EXCEPT !.defs = NoDefinitions]
      /\ game' = [game EXCEPT !.shows = slot.shows, !.sounding = slot.sounding, !.flushed = FALSE,
                              !.epoch = epoch + 1, !.line = @ + 1]
      /\ GameShape /\ LoopShape /\ epoch \in Nat /\ game.on
  BY DEF QuickLoads, queuesUnchanged, PicturesInv, Shape, GameShape
<1>2. /\ IsSeq(outText) /\ IsSeq(writer.batch) /\ page.epoch \in 0..epoch
      /\ \A i \in 1..Len(outText) : outText[i].epoch \in 0..epoch
      /\ \A i \in 1..Len(writer.batch) : writer.batch[i].epoch \in 0..epoch
  BY DEF PicturesInv, Shape, Texts, WriterShape, PageShape
<1>3. /\ loop'.defs = NoDefinitions /\ loop'.pc = "restored"
      /\ loop'.needsReset = loop.needsReset /\ loop'.audio = loop.audio
  <2>1. LoopRecord(At("restored")) /\ SameSound(At("restored"), loop) /\ At("restored").pc = "restored"
    BY <1>1, AtSame
  <2> HIDE DEF NoDefinitions
  <2> QED BY <1>1, <2>1 DEF LoopRecord, SameSound
<1>4. game'.on = TRUE
  <2>1. game.on = TRUE
    BY <1>1, OnOrOff
  <2>2. PICK y : game' = [game EXCEPT !.shows = slot.shows, !.sounding = slot.sounding, !.flushed = y,
                                      !.epoch = epoch + 1, !.line = game.line + 1]
    BY <1>1
  <2>3. game'.on = game.on
    BY <1>1, <2>2 DEF GameShape
  <2> QED BY <2>1, <2>3
<1>5. LoopSounds'
  BY <1>1, <1>3, <1>4, QuietMeans DEF SoundRight, LoopSounds, Silent
<1>6. page.epoch # epoch' /\ epoch' \notin 0..epoch
  BY <1>1, <1>2
<1>7. PageQuiet' /\ PageState' = NotTold
  BY <1>1, <1>6 DEF SoundRight, PageQuiet, PageState
<1>8. Numbered'
  <2>1. Numbering({}, loop'.defs)
    BY <1>3, NoDefinitionsOk DEF Numbering
  <2>2. UsedIn(writer.batch, {})' /\ UsedIn(outText, {})'
    BY <1>1, <1>2, <1>6 DEF UsedIn, AudioOf
  <2> QED BY <1>1, <1>6, <2>1, <2>2 DEF Numbered
<1>9. Agreed'
  <2>1. PICK e : e = epoch'
    OBVIOUS
  <2>2. UnsaidIn(writer.batch, e) /\ UnsaidIn(outText, e)
    BY <1>2, <1>6, <2>1 DEF UnsaidIn, Restores
  <2>3. Along(writer.batch, e, {NotTold}, {NotTold}) /\ Along(outText, e, {NotTold}, {NotTold})
    BY <1>2, <2>2, AlongUntold
  <2>4. Ends({NotTold})'
    BY <1>3 DEF Ends, Follows
  <2> QED BY <1>1, <1>7, <2>1, <2>3, <2>4 DEF Agreed
<1> QED BY <1>5, <1>7, <1>8, <1>9 DEF SoundRight

-----------------------------------------------------------------------------
(***************************************************************************)
(* The writer.                                                             *)
(***************************************************************************)
UsesGo == \A N : UsedIn(writer.batch, N) /\ UsedIn(outText, N) => UsedIn(writer'.batch, N) /\ UsedIn(outText', N)
WaysGo ==
    \A X, Y, Z : Along(writer.batch, epoch, X, Y) /\ Along(outText, epoch, Y, Z) =>
        \E W : Along(writer'.batch, epoch, X, W) /\ Along(outText', epoch, W, Z)

LEMMA WriterRight ==
    ASSUME SoundRight, UNCHANGED afarFromWriter, UsesGo, WaysGo
    PROVE  SoundRight'
<1>1. epoch' = epoch /\ game' = game /\ loop' = loop /\ collector' = collector /\ page' = page
  BY DEF afarFromWriter
<1>2. PageQuiet' /\ LoopSounds' /\ PageState' = PageState
  BY <1>1 DEF SoundRight, PageQuiet, LoopSounds, Silent, PageState
<1>3. Numbered'
  BY <1>1 DEF SoundRight, Numbered, UsesGo, UsedIn
<1>4. \A Z : Ends(Z) => Ends(Z)'
  BY <1>1 DEF Ends, Follows
<1>5. Agreed'
  <2>1. PICK Y, Z : Along(writer.batch, epoch, {PageState}, Y) /\ Along(outText, epoch, Y, Z) /\ Ends(Z)
    BY DEF SoundRight, Agreed
  <2>2. PICK W : Along(writer'.batch, epoch, {PageState}, W) /\ Along(outText', epoch, W, Z)
    BY <2>1 DEF WaysGo
  <2>3. Ends(Z)'
    BY <1>4, <2>1
  <2> QED BY <1>1, <1>2, <2>2, <2>3 DEF Agreed
<1> QED BY <1>2, <1>3, <1>5 DEF SoundRight

LEMMA UsedJoin ==
    ASSUME NEW s, NEW t, IsSeq(s), IsSeq(t), NEW N, UsedIn(s, N), UsedIn(t, N)
    PROVE  UsedIn(s \o t, N)
<1> DEFINE u == s \o t
<1>1. /\ IsSeq(u) /\ Len(u) = Len(s) + Len(t)
      /\ \A i \in 1..(Len(s) + Len(t)) : u[i] = IF i <= Len(s) THEN s[i] ELSE t[i - Len(s)]
  BY SeqJoined, Zenon
<1>2. Len(s) \in Nat /\ Len(t) \in Nat
  BY SeqIndices
<1> HIDE DEF u
<1>3. \A i \in 1..Len(u) : (\E j \in 1..Len(s) : u[i] = s[j]) \/ (\E j \in 1..Len(t) : u[i] = t[j])
  <2> TAKE i \in 1..Len(u)
  <2>1. CASE i <= Len(s)
    <3>1. i \in 1..Len(s) /\ u[i] = s[i]
      BY <1>1, <1>2, <2>1
    <3> QED BY <3>1
  <2>2. CASE ~(i <= Len(s))
    <3>1. i - Len(s) \in 1..Len(t) /\ u[i] = t[i - Len(s)]
      BY <1>1, <1>2, <2>2
    <3> QED BY <3>1
  <2> QED BY <2>1, <2>2
<1>4. UsedIn(u, N)
  BY <1>3 DEF UsedIn
<1> QED BY <1>4 DEF u

LEMMA UsedNone == \A N : UsedIn(<<>>, N)
BY EmptyIsSeq DEF UsedIn

LEMMA TakesTextRight == PicturesInv /\ SoundRight /\ TakesText => SoundRight'
<1> SUFFICES ASSUME PicturesInv, SoundRight, TakesText PROVE SoundRight'
  OBVIOUS
<1>1. /\ UNCHANGED afarFromWriter /\ writer.pc = "select" /\ outText' = <<>>
      /\ writer' = [writer EXCEPT !.pc = "look", !.batch = outText]
  BY DEF TakesText, writerUnchanged, afarFromWriter
<1>2. WriterShape /\ IsSeq(outText) /\ IsSeq(writer.batch)
  BY DEF PicturesInv, Shape, Texts, WriterShape
<1>3. writer'.batch = outText /\ writer.batch = <<>>
  BY <1>1, <1>2 DEF WriterShape
<1>4. writer.batch \o outText = outText
  BY <1>2, <1>3, SeqJoined
<1>5. UsesGo
  BY <1>1, <1>3, UsedNone DEF UsesGo
<1>6. ASSUME NEW X, NEW Y, NEW Z, Along(writer.batch, epoch, X, Y), Along(outText, epoch, Y, Z)
      PROVE  Along(writer'.batch, epoch, X, Z) /\ Along(outText', epoch, Z, Z)
  <2>1. Along(writer.batch \o outText, epoch, X, Z)
    BY <1>2, <1>6, AlongJoin
  <2>2. Along(<<>>, epoch, Z, Z)
    BY AlongNone
  <2> QED BY <1>1, <1>3, <1>4, <2>1, <2>2
<1>7. WaysGo
  BY <1>6 DEF WaysGo
<1> QED BY <1>1, <1>5, <1>7, WriterRight

LEMMA TakesPictureRight == PicturesInv /\ SoundRight /\ TakesPicture => SoundRight'
<1> SUFFICES ASSUME PicturesInv, SoundRight, TakesPicture PROVE SoundRight'
  OBVIOUS
<1>1. /\ UNCHANGED afarFromWriter /\ outText' = outText
      /\ writer' = [writer EXCEPT !.pc = "append", !.picture = outFrames] /\ WriterShape
  BY DEF TakesPicture, writerUnchanged, afarFromWriter, PicturesInv, Shape
<1>2. writer'.batch = writer.batch
  BY <1>1 DEF WriterShape
<1> QED BY <1>1, <1>2, WriterRight DEF UsesGo, WaysGo

LEMMA GoesWithoutPictureRight == PicturesInv /\ SoundRight /\ GoesWithoutPicture => SoundRight'
<1> SUFFICES ASSUME PicturesInv, SoundRight, GoesWithoutPicture PROVE SoundRight'
  OBVIOUS
<1>1. /\ UNCHANGED afarFromWriter
      /\ \/ writer' = [writer EXCEPT !.pc = "write", !.batch = @ \o outText] /\ outText' = <<>>
         \/ writer' = [writer EXCEPT !.pc = "write"] /\ outText' = outText
  BY DEF GoesWithoutPicture, writerUnchanged, afarFromWriter
<1>2. WriterShape /\ IsSeq(outText) /\ IsSeq(writer.batch)
  BY DEF PicturesInv, Shape, Texts, WriterShape
<1>3. \/ writer'.batch = writer.batch \o outText /\ outText' = <<>>
      \/ writer'.batch = writer.batch /\ outText' = outText
  BY <1>1, <1>2 DEF WriterShape
<1>4. CASE writer'.batch = writer.batch /\ outText' = outText
  BY <1>1, <1>4, WriterRight DEF UsesGo, WaysGo
<1>5. CASE writer'.batch = writer.batch \o outText /\ outText' = <<>>
  <2>1. UsesGo
    BY <1>2, <1>5, UsedJoin, UsedNone DEF UsesGo
  <2>2. ASSUME NEW X, NEW Y, NEW Z, Along(writer.batch, epoch, X, Y), Along(outText, epoch, Y, Z)
        PROVE  Along(writer'.batch, epoch, X, Z) /\ Along(outText', epoch, Z, Z)
    <3>1. Along(writer.batch \o outText, epoch, X, Z)
      BY <1>2, <2>2, AlongJoin
    <3>2. Along(<<>>, epoch, Z, Z)
      BY AlongNone
    <3> QED BY <1>5, <3>1, <3>2
  <2>3. WaysGo
    BY <2>2 DEF WaysGo
  <2> QED BY <1>1, <2>1, <2>3, WriterRight
<1> QED BY <1>3, <1>4, <1>5

LEMMA AppendsPictureRight == PicturesInv /\ SoundRight /\ AppendsPicture => SoundRight'
<1> SUFFICES ASSUME PicturesInv, SoundRight, AppendsPicture PROVE SoundRight'
  OBVIOUS
<1>1. /\ UNCHANGED afarFromWriter /\ writer.pc = "append" /\ outText' = <<>>
      /\ writer' = [writer EXCEPT !.pc = "write", !.batch = @ \o outText \o writer.picture, !.picture = <<>>]
  BY DEF AppendsPicture, writerUnchanged, afarFromWriter
<1>2. WriterShape /\ IsSeq(outText) /\ IsSeq(writer.batch) /\ writer.picture \in OneOf(Picture)
  BY <1>1 DEF PicturesInv, Shape, Texts, WriterShape
<1>3. PICK m \in Picture : writer.picture = <<m>>
  BY <1>2 DEF OneOf
<1>4. m.kind = "picture"
  BY DEF Picture
<1> DEFINE j == writer.batch \o outText
<1>5. IsSeq(j)
  BY <1>2, SeqJoined
<1>6. writer'.batch = j \o writer.picture
  BY <1>1, <1>2 DEF WriterShape
<1>7. \A N : UsedIn(writer.batch, N) /\ UsedIn(outText, N) => UsedIn(j, N)
  BY <1>2, UsedJoin
<1>8. \A X, Y, Z : Along(writer.batch, epoch, X, Y) /\ Along(outText, epoch, Y, Z) => Along(j, epoch, X, Z)
  BY <1>2, AlongJoin
<1> HIDE DEF j
<1>9. j \o writer.picture = Append(j, m)
  BY <1>3, <1>5, SeqJoinedOne
<1>10. UsesGo
  <2>1. IsSeq(<<m>>) /\ \A N : UsedIn(<<m>>, N)
    <3>1. IsSeq(<<m>>) /\ Len(<<m>>) = 1 /\ <<m>>[1] = m
      BY OneIsSeq
    <3> DEFINE p == <<m>>
    <3> HIDE DEF p
    <3>2. IsSeq(p) /\ Len(p) = 1 /\ p[1] = m
      BY <3>1 DEF p
    <3>3. \A N : UsedIn(p, N)
      BY <1>4, <3>2 DEF UsedIn, AudioOf
    <3> QED BY <3>2, <3>3 DEF p
  <2> DEFINE p == <<m>>
  <2>2. writer'.batch = j \o p /\ IsSeq(p) /\ \A N : UsedIn(p, N)
    BY <1>3, <1>6, <2>1
  <2> HIDE DEF p
  <2>3. ASSUME NEW N, UsedIn(j, N) PROVE UsedIn(j \o p, N)
    BY <1>5, <2>2, <2>3, UsedJoin
  <2>4. \A N : UsedIn(writer.batch, N) /\ UsedIn(outText, N) => UsedIn(writer'.batch, N)
    BY <1>7, <2>2, <2>3
  <2>5. \A N : UsedIn(outText', N)
    BY <1>1, UsedNone
  <2> QED BY <2>4, <2>5 DEF UsesGo
<1>11. ASSUME NEW X, NEW Y, NEW Z, Along(writer.batch, epoch, X, Y), Along(outText, epoch, Y, Z)
       PROVE  Along(writer'.batch, epoch, X, Z) /\ Along(outText', epoch, Z, Z)
  <2>1. Along(j, epoch, X, Z)
    BY <1>8, <1>11
  <2>2. Leads(Z, m, Z, epoch)
    BY <1>4, LeadsQuiet DEF Restores, AudioOf
  <2>3. Along(Append(j, m), epoch, X, Z)
    BY <1>5, <2>1, <2>2, AlongMore
  <2>4. Along(<<>>, epoch, Z, Z)
    BY AlongNone
  <2> QED BY <1>1, <1>6, <1>9, <2>3, <2>4
<1>12. WaysGo
  BY <1>11 DEF WaysGo
<1> QED BY <1>1, <1>10, <1>12, WriterRight

LEMMA WritesRight == PicturesInv /\ SoundRight /\ Writes => SoundRight'
<1> SUFFICES ASSUME PicturesInv, SoundRight, Writes PROVE SoundRight'
  OBVIOUS
<1> DEFINE b == writer.batch
           w == WrittenOf(b)
<1>1. UNCHANGED afarFromWriter /\ outText' = outText /\ writer' = Sending(w)
  BY DEF Writes, writerUnchanged, afarFromWriter
<1>2. IsSeq(b)
  BY DEF PicturesInv, Shape, WriterShape
<1>3. PICK h : Leaves(w, b, Len(b), h)
  BY <1>2, WrittenLeaves
<1>4. \A X, Y : Along(b, epoch, X, Y) => Along(w, epoch, X, Y)
  BY <1>2, AlongWritten
<1> HIDE DEF w
<1>5. writer'.batch = w
  BY <1>1 DEF Sending
<1>6. UsesGo
  <2>1. \A i \in 1..Len(w) : h[i] \in 1..Len(b) /\ w[i] = b[h[i]]
    BY <1>3 DEF Leaves
  <2>2. \A N : UsedIn(b, N) => UsedIn(w, N)
    BY <2>1 DEF UsedIn
  <2> QED BY <1>1, <1>5, <2>2 DEF UsesGo
<1>7. WaysGo
  BY <1>1, <1>4, <1>5 DEF WaysGo
<1> QED BY <1>1, <1>6, <1>7, WriterRight

-----------------------------------------------------------------------------
(***************************************************************************)
(* The page takes a message.                                               *)
(***************************************************************************)
LEMMA PageRight ==
    ASSUME PicturesInv, SoundRight, NEW m, Receives(m), UNCHANGED afarFromPage, PageQuiet',
           Turns(PageState, m, PageState', epoch),
           \A N : /\ Numbering(N, loop.defs) /\ UsedIn(writer.batch, N)
                  /\ page.epoch = epoch => page.table \subseteq N
                  /\ page'.epoch = epoch
                  => page'.table \subseteq N
    PROVE  SoundRight'
<1> DEFINE b == writer.batch
           t == Tail(b)
<1>1. epoch' = epoch /\ game' = game /\ loop' = loop /\ collector' = collector /\ outText' = outText
  BY DEF afarFromPage
<1>2. /\ IsSeq(b) /\ Len(b) \in Nat \ {0} /\ b # <<>> /\ m = b[1] /\ writer' = Sending(t)
  BY HeadFacts, SeqIndices
<1>3. IsSeq(t) /\ Len(t) = Len(b) - 1 /\ \A i \in 1..(Len(b) - 1) : t[i] = b[i + 1]
  BY <1>2, SeqTail
<1>4. \A X, Y : Along(b, epoch, X, Y) => \E X1 : Leads(X, m, X1, epoch) /\ Along(t, epoch, X1, Y)
  BY <1>2, AlongTail
<1> HIDE DEF t
<1>5. writer'.batch = t
  BY <1>2 DEF Sending
<1>6. \A i \in 1..Len(t) : i + 1 \in 1..Len(b) /\ t[i] = b[i + 1]
  BY <1>2, <1>3
<1>7. LoopSounds'
  BY <1>1 DEF SoundRight, LoopSounds, Silent
<1>8. Numbered'
  <2>1. PICK N : /\ Numbering(N, loop.defs) /\ UsedIn(b, N) /\ UsedIn(outText, N)
                 /\ page.epoch = epoch => page.table \subseteq N
    BY DEF SoundRight, Numbered
  <2>2. page'.epoch = epoch => page'.table \subseteq N
    BY <2>1
  <2>3. UsedIn(t, N)
    BY <1>6, <2>1 DEF UsedIn
  <2> QED BY <1>1, <1>5, <2>1, <2>2, <2>3 DEF Numbered, UsedIn
<1>9. Agreed'
  <2>1. PICK Y, Z : Along(b, epoch, {PageState}, Y) /\ Along(outText, epoch, Y, Z) /\ Ends(Z)
    BY DEF SoundRight, Agreed
  <2>2. PICK X1 : Leads({PageState}, m, X1, epoch) /\ Along(t, epoch, X1, Y)
    BY <1>4, <2>1
  <2>3. PageState' \in X1
    BY <2>2 DEF Leads
  <2>4. {PageState'} \subseteq X1 /\ Y \subseteq Y
    BY <2>3
  <2>5. Along(t, epoch, {PageState'}, Y)
    BY <2>2, <2>4, AlongLess
  <2>6. Ends(Z)'
    BY <1>1, <2>1 DEF Ends, Follows
  <2> QED BY <1>1, <1>5, <2>1, <2>5, <2>6 DEF Agreed
<1> QED BY <1>7, <1>8, <1>9 DEF SoundRight

LEMMA PageStateIs ==
    ASSUME SoundRight
    PROVE  /\ page.epoch # epoch => PageState = NotTold
           /\ page.epoch = epoch /\ page.pending = TRUE => PageState = Waiting /\ page.sounding = {}
           /\ page.epoch = epoch /\ page.pending = FALSE => PageState = Hearing(page.sounding)
           /\ page.epoch = epoch => PageState # NotTold
           /\ page.pending = TRUE \/ page.pending = FALSE
BY HearingIs DEF SoundRight, PageQuiet, PageState

\* What says nothing of sounds.
LEMMA PageHearsNothing ==
    ASSUME PicturesInv, SoundRight, NEW m, Receives(m), UNCHANGED afarFromPage,
           m.kind \notin {"audio", "restored", "started"}, page'.table = page.table, page'.epoch = page.epoch,
           page'.sounding = page.sounding, page'.pending = page.pending
    PROVE  SoundRight'
<1>1. epoch' = epoch
  BY DEF afarFromPage
<1>2. PageQuiet' /\ PageState' = PageState
  BY <1>1 DEF SoundRight, PageQuiet, PageState
<1>3. Turns(PageState, m, PageState, epoch)
  BY DEF Turns, Restores, AudioOf
<1> QED BY <1>2, <1>3, PageRight

LEMMA ReceivesStartedRight ==
    ASSUME PicturesInv, SoundRight, NEW m, ReceivesStarted(m)
    PROVE  SoundRight'
<1>1. /\ Receives(m) /\ UNCHANGED afarFromPage /\ epoch' = epoch /\ m.kind = "started" /\ PageShape
  BY DEF ReceivesStarted, pageUnchanged, afarFromPage, PicturesInv, Shape
<1>2. m.epoch = page.epoch
  BY <1>1, HeadFacts
<1>3. PICK x : x = FALSE
  OBVIOUS
<1>4. page'.epoch = page.epoch /\ page'.table = page.table /\ page'.sounding = page.sounding /\ page'.pending = x
  <2>1. page' = [page EXCEPT !.epoch = m.epoch, !.pending = x]
    BY <1>3, Zenon DEF ReceivesStarted
  <2> QED BY <1>1, <1>2, <2>1 DEF PageShape
<1>5. page'.pending \in BOOLEAN /\ ~(page'.pending = TRUE)
  BY <1>3, <1>4
<1>6. PageQuiet'
  BY <1>1, <1>4, <1>5 DEF SoundRight, PageQuiet
<1>7. PageState' = IF page.epoch # epoch THEN NotTold ELSE Hearing(page.sounding)
  BY <1>1, <1>4, <1>5 DEF PageState
<1>8. Turns(PageState, m, PageState', epoch)
  BY <1>1, <1>7, PageStateIs, HearingIs DEF Turns, Restores, AudioOf
<1> QED BY <1>1, <1>4, <1>6, <1>8, PageRight

LEMMA ReceivesRestoredRight ==
    ASSUME PicturesInv, SoundRight, NEW m, ReceivesRestored(m)
    PROVE  SoundRight'
<1>1. /\ Receives(m) /\ UNCHANGED afarFromPage /\ epoch' = epoch /\ m.kind = "restored" /\ PageShape
  BY DEF ReceivesRestored, pageUnchanged, afarFromPage, PicturesInv, Shape
<1>2. /\ page.epoch <= m.epoch /\ m.epoch \in 0..epoch /\ page.epoch \in 0..epoch /\ epoch \in Nat
  BY <1>1, HeadFacts DEF PicturesInv, Shape, GameShape
<1>3. CASE m.epoch <= page.epoch
  <2>1. page' = page /\ m.epoch = page.epoch
    BY <1>2, <1>3 DEF ReceivesRestored
  <2>2. PageQuiet' /\ PageState' = PageState
    BY <1>1, <2>1 DEF SoundRight, PageQuiet, PageState
  <2>3. Turns(PageState, m, PageState, epoch)
    BY <1>1, <2>1, PageStateIs DEF Turns, Restores, AudioOf
  <2> QED BY <1>1, <2>1, <2>2, <2>3, PageRight
<1>4. CASE ~(m.epoch <= page.epoch)
  <2>1. PICK x : x = FALSE
    OBVIOUS
  <2>2. page' = [epoch |-> m.epoch, canvas |-> NoPicture, table |-> {}, sounding |-> {},
                 pending |-> x, skipped |-> page.skipped]
    BY <1>4, <2>1, Zenon DEF ReceivesRestored
  <2>3. page'.epoch = m.epoch /\ page'.table = {} /\ page'.sounding = {} /\ page'.pending = x
    BY <2>2
  <2>4. page'.pending \in BOOLEAN /\ ~(page'.pending = TRUE)
    BY <2>1, <2>3
  <2>5. PageQuiet'
    BY <1>1, <2>3, <2>4 DEF PageQuiet
  <2>6. PageState' = IF m.epoch # epoch THEN NotTold ELSE Hearing({})
    BY <1>1, <2>3, <2>4 DEF PageState
  <2>7. page.epoch # epoch
    BY <1>2, <1>4
  <2>8. Turns(PageState, m, PageState', epoch)
    BY <1>1, <2>6, <2>7, PageStateIs, HearingIs DEF Turns, Restores, AudioOf
  <2> QED BY <1>1, <2>3, <2>5, <2>8, PageRight
<1> QED BY <1>3, <1>4

LEMMA ReceivesSoundRight ==
    ASSUME PicturesInv, SoundsInv, SoundRight, NEW m, NEW refused \in BOOLEAN, ReceivesSound(m, refused)
    PROVE  SoundRight'
<1> DEFINE d == Decode(page.table, page.sounding, m.wire)
           p == [page EXCEPT !.table = d.table, !.skipped = @ \/ d.skipped]
           pf == [p EXCEPT !.pending = FALSE]
<1>1. Receives(m) /\ UNCHANGED afarFromPage /\ epoch' = epoch /\ m.kind = "audio" /\ PageShape
  BY DEF ReceivesSound, pageUnchanged, afarFromPage, PicturesInv, Shape
<1>2. /\ writer.pc = "sending" /\ 1 \in 1..Len(writer.batch) /\ m = writer.batch[1]
      /\ IsSeq(writer.batch) /\ writer.batch # <<>>
  BY <1>1, HeadFacts, SeqIndices
<1>3. PICK x, y : x = FALSE /\ y = TRUE
  OBVIOUS
<1>4. /\ p.epoch = page.epoch /\ p.table = d.table /\ p.sounding = page.sounding /\ p.pending = page.pending
      /\ p = [epoch |-> p.epoch, canvas |-> p.canvas, table |-> p.table,
              sounding |-> p.sounding, pending |-> p.pending, skipped |-> p.skipped]
  <2>1. PICK u, t : p = [page EXCEPT !.table = t, !.skipped = u] /\ t = d.table
    BY Zenon
  <2> HIDE DEF p, d
  <2>2. p = [epoch |-> page.epoch, canvas |-> page.canvas, table |-> t,
             sounding |-> page.sounding, pending |-> page.pending, skipped |-> u]
    BY <1>1, <2>1 DEF PageShape
  <2> QED BY <2>1, <2>2
<1>5. \/ page.pending /\ ~d.reset /\ page' = p
      \/ (~page.pending \/ d.reset) /\ Recovers(pf)
      \/ (~page.pending \/ d.reset) /\ page' = [p EXCEPT !.pending = x, !.sounding = d.sounding]
  <2>1. \/ page.pending /\ ~d.reset /\ page' = p
        \/ (~page.pending \/ d.reset) /\ Recovers(pf)
        \/ (~page.pending \/ d.reset) /\ page' = [p EXCEPT !.pending = FALSE, !.sounding = d.sounding]
    BY Zenon DEF ReceivesSound
  <2> QED BY <1>3, <2>1, Zenon
<1>6. Recovers(pf) => page' = [p EXCEPT !.pending = y, !.sounding = {}]
  <2> SUFFICES ASSUME Recovers(pf) PROVE page' = [p EXCEPT !.pending = y, !.sounding = {}]
    OBVIOUS
  <2>1. pf = [p EXCEPT !.pending = x]
    BY <1>3, Zenon
  <2>2. (page' = pf /\ pf.pending) \/ page' = [pf EXCEPT !.pending = y, !.sounding = {}]
    BY <1>3, Zenon DEF Recovers
  <2> HIDE DEF p, pf
  <2>3. pf.pending = x /\ [pf EXCEPT !.pending = y, !.sounding = {}] = [p EXCEPT !.pending = y, !.sounding = {}]
    BY <1>4, <2>1
  <2>4. ~pf.pending
    BY <1>3, <2>3, Zenon
  <2> QED BY <2>2, <2>3, <2>4
<1> HIDE DEF p, pf
<1>7. /\ page'.epoch = page.epoch /\ page'.table = d.table
      /\ \/ page.pending /\ ~d.reset /\ page'.pending = page.pending /\ page'.sounding = page.sounding
         \/ page'.pending = y /\ page'.sounding = {}
         \/ (~page.pending \/ d.reset) /\ page'.pending = x /\ page'.sounding = d.sounding
  <2> HIDE DEF d
  <2>1. CASE page.pending /\ ~d.reset /\ page' = p
    BY <1>4, <2>1
  <2>2. CASE page' = [p EXCEPT !.pending = y, !.sounding = {}]
    <3>1. page'.epoch = page.epoch /\ page'.table = d.table /\ page'.pending = y /\ page'.sounding = {}
      BY <1>4, <2>2
    <3> QED BY <3>1
  <2>3. CASE (~page.pending \/ d.reset) /\ page' = [p EXCEPT !.pending = x, !.sounding = d.sounding]
    <3>1. /\ page'.epoch = page.epoch /\ page'.table = d.table /\ page'.pending = x
          /\ page'.sounding = d.sounding
      BY <1>4, <2>3
    <3> QED BY <2>3, <3>1
  <2> QED BY <1>5, <1>6, <2>1, <2>2, <2>3
<1>8. page.epoch = epoch => m.epoch = epoch /\ AudioOf(m, epoch)
  BY <1>1, <1>2 DEF SoundsInv, Unmixed, AudioOf
\* What the page makes of the message, when it is of its timeline.
<1>9. ASSUME NEW N, Numbering(N, loop.defs), UsedIn(writer.batch, N), page.epoch = epoch, page.table \subseteq N
      PROVE  DecodedAs(d, N, page.sounding, m.wire, Len(m.wire))
  <2>1. WireOk(m.wire)
    BY <1>1, <1>2 DEF SoundsInv, Named2, TextNamed
  <2>2. PICK K1 : WirePasses(m.wire, Known(page.table), K1)
    <3>1. PICK K : TextsPass(writer.batch, "sending", epoch, Known(page.table), K)
      BY <1>2 DEF SoundsInv, AllKnown
    <3>2. \E K1 : Takes(Known(page.table), m, K1, "sending", epoch)
      BY <1>2, <3>1, TextsTail
    <3> QED BY <1>1, <3>2 DEF Takes, Heard
  <2>3. OneSoundEach(N)
    BY <1>9 DEF Numbering, OneSoundEach
  <2>4. Uses(m.wire, N)
    BY <1>2, <1>8, <1>9 DEF UsedIn
  <2>5. page.sounding \subseteq Sounds
    BY <1>9 DEF SoundRight, PageQuiet
  <2>6. Known(page.table) \subseteq Known(page.table)
    OBVIOUS
  <2> QED BY <1>9, <2>1, <2>2, <2>3, <2>4, <2>5, <2>6, DecodeMeans
<1> HIDE DEF d
<1>10. ASSUME page.epoch = epoch
       PROVE  /\ d.sounding = Played(page.sounding, m.wire)
              /\ d.reset => Resets(m.wire)
  <2>1. PICK N : Numbering(N, loop.defs) /\ UsedIn(writer.batch, N) /\ page.table \subseteq N
    BY <1>10 DEF SoundRight, Numbered
  <2>2. DecodedAs(d, N, page.sounding, m.wire, Len(m.wire))
    BY <1>9, <1>10, <2>1
  <2>3. d.sounding = Played(page.sounding, m.wire)
    BY <2>2 DEF DecodedAs, Played
  <2>4. d.reset => Resets(m.wire)
    <3>1. Resets(m.wire) \/ d.reset = FALSE
      BY <2>2 DEF DecodedAs, Resets
    <3> QED BY <3>1, Zenon
  <2> QED BY <2>3, <2>4
<1>11. \A N : /\ Numbering(N, loop.defs) /\ UsedIn(writer.batch, N)
              /\ page.epoch = epoch => page.table \subseteq N
              /\ page'.epoch = epoch
              => page'.table \subseteq N
  BY <1>7, <1>9 DEF DecodedAs
<1>12. \/ page.pending = TRUE /\ page'.pending = TRUE /\ page'.sounding = page.sounding
       \/ page'.pending = TRUE /\ page'.sounding = {}
       \/ /\ page'.pending = FALSE /\ page'.sounding = d.sounding
          /\ page.pending = FALSE \/ d.reset
  <2>1. page.pending = TRUE \/ page.pending = FALSE
    BY DEF SoundRight, PageQuiet
  <2>2. CASE page.pending /\ ~d.reset /\ page'.pending = page.pending /\ page'.sounding = page.sounding
    <3>1. page.pending = TRUE
      BY <2>1, <2>2
    <3> QED BY <2>2, <3>1
  <2>3. CASE page'.pending = y /\ page'.sounding = {}
    BY <1>3, <2>3
  <2>4. CASE (~page.pending \/ d.reset) /\ page'.pending = x /\ page'.sounding = d.sounding
    <3>1. page'.pending = FALSE
      BY <1>3, <2>4
    <3>2. page.pending = FALSE \/ d.reset
      BY <2>1, <2>4
    <3> QED BY <2>4, <3>1, <3>2
  <2> QED BY <1>7, <2>2, <2>3, <2>4
<1>13. PageQuiet'
  <2>1. page'.pending \in BOOLEAN
    BY <1>12
  <2>2. page'.pending = TRUE => page'.sounding = {}
    BY <1>12 DEF SoundRight, PageQuiet
  <2>3. page'.epoch = epoch' => page'.sounding \subseteq Sounds
    BY <1>1, <1>7, <1>10, <1>12, PlayedSounds DEF SoundRight, PageQuiet
  <2> QED BY <2>1, <2>2, <2>3 DEF PageQuiet
<1>14. Turns(PageState, m, PageState', epoch)
  <2>1. CASE page.epoch # epoch
    <3>1. PageState = NotTold /\ PageState' = NotTold
      BY <1>1, <1>7, <2>1 DEF PageState
    <3>2. Turns(NotTold, m, NotTold, epoch)
      BY <1>1 DEF Turns, Restores
    <3> QED BY <3>1, <3>2
  <2>2. CASE page.epoch = epoch
    <3>1. AudioOf(m, epoch) /\ ~Restores(m, epoch) /\ m.kind # "started" /\ PageState # NotTold
      BY <1>1, <1>8, <2>2, PageStateIs DEF Restores
    <3>2. PageState' = Waiting \/ \E S : /\ PageState = Hearing(S) \/ (PageState = Waiting /\ S = {} /\ Resets(m.wire))
                                         /\ PageState' = Hearing(Played(S, m.wire))
      <4>1. CASE page'.pending = TRUE
        BY <1>1, <1>7, <2>2, <4>1 DEF PageState
      <4>2. CASE /\ page'.pending = FALSE /\ page'.sounding = d.sounding
                 /\ page.pending = FALSE \/ d.reset
        <5>1. PageState' = Hearing(Played(page.sounding, m.wire))
          <6>1. ~(page'.pending = TRUE)
            BY <4>2
          <6> QED BY <1>1, <1>7, <1>10, <2>2, <4>2, <6>1 DEF PageState
        <5>2. CASE page.pending = FALSE
          <6>1. PageState = Hearing(page.sounding)
            BY <2>2, <5>2, PageStateIs
          <6> QED BY <5>1, <6>1
        <5>3. CASE page.pending = TRUE
          <6>1. PageState = Waiting /\ page.sounding = {}
            BY <2>2, <5>3, PageStateIs
          <6>2. d.reset
            BY <4>2, <5>3
          <6>3. Resets(m.wire)
            BY <1>10, <2>2, <6>2
          <6> QED BY <5>1, <6>1, <6>3
        <5> QED BY <5>2, <5>3, PageStateIs
      <4> QED BY <1>12, <4>1, <4>2
    <3> QED BY <3>1, <3>2 DEF Turns
  <2> QED BY <2>1, <2>2
<1> QED BY <1>1, <1>11, <1>13, <1>14, PageRight

LEMMA PageStepRight == PicturesInv /\ SoundsInv /\ SoundRight /\ PageStep => SoundRight'
<1> SUFFICES ASSUME PicturesInv, SoundsInv, SoundRight, PageStep PROVE SoundRight'
  OBVIOUS
<1>1. PICK m : \/ ReceivesPicture(m)
               \/ \E refused \in BOOLEAN : ReceivesSound(m, refused)
               \/ ReceivesRestored(m) \/ ReceivesStarted(m) \/ ReceivesAnswer(m)
  BY DEF PageStep
<1>2. PageShape
  BY DEF PicturesInv, Shape
<1>3. CASE ReceivesPicture(m)
  <2>1. /\ Receives(m) /\ UNCHANGED afarFromPage /\ m.kind = "picture"
        /\ \E x : page' = [page EXCEPT !.canvas = x]
    BY <1>3, Zenon DEF ReceivesPicture, pageUnchanged, afarFromPage
  <2>2. /\ page'.epoch = page.epoch /\ page'.table = page.table
        /\ page'.sounding = page.sounding /\ page'.pending = page.pending
    BY <1>2, <2>1 DEF PageShape
  <2> QED BY <2>1, <2>2, PageHearsNothing
<1>4. CASE ReceivesAnswer(m)
  <2>1. Receives(m) /\ UNCHANGED afarFromPage /\ m.kind \in {"result", "error"} /\ page' = page
    BY <1>4 DEF ReceivesAnswer, pageUnchanged, afarFromPage
  <2> QED BY <2>1, PageHearsNothing
<1> QED BY <1>1, <1>3, <1>4, ReceivesSoundRight, ReceivesRestoredRight, ReceivesStartedRight

-----------------------------------------------------------------------------
(***************************************************************************)
(* Every step of every part. A page asks to resume only while it plays no  *)
(* game (web/session-link.js).                                             *)
(***************************************************************************)
ResumesIdle == \A slot \in Slots : HandlesResume(slot) => ~game.on

LEMMA SoundRightInit == Init => SoundRight
<1> SUFFICES ASSUME Init PROVE SoundRight
  OBVIOUS
<1>1. PICK x : x = FALSE
  OBVIOUS
<1>2. /\ epoch = 0 /\ outText = <<>> /\ collector = Quiet
      /\ game = [on |-> x, shows |-> None, flushed |-> x, sounding |-> {}, epoch |-> 0, line |-> 0]
      /\ loop = [pc |-> "run", then |-> "run", force |-> x, needsReset |-> x,
                 audio |-> x, defs |-> NoDefinitions]
      /\ writer = [pc |-> "select", batch |-> <<>>, picture |-> <<>>]
      /\ page = [epoch |-> 0, canvas |-> NoPicture, table |-> {}, sounding |-> {},
                 pending |-> x, skipped |-> x]
  BY <1>1, Zenon DEF Init
<1> HIDE DEF NoDefinitions
<1>3. /\ game.sounding = {} /\ game.on = x /\ loop.pc = "run" /\ loop.defs = NoDefinitions
      /\ loop.needsReset = x /\ loop.audio = x /\ writer.batch = <<>> /\ page.epoch = 0 /\ page.table = {}
      /\ page.pending = x /\ page.sounding = {}
  BY <1>2
<1>4. game.on = FALSE /\ page.pending = FALSE /\ page.pending \in BOOLEAN /\ ~(page.pending = TRUE)
      /\ loop.needsReset \in BOOLEAN /\ loop.audio \in BOOLEAN
  BY <1>1, <1>3
<1>5. PageQuiet /\ PageState = Hearing({})
  BY <1>2, <1>3, <1>4 DEF PageQuiet, PageState
<1>6. Numbered
  <2>1. Numbering({}, loop.defs)
    BY <1>3, NoDefinitionsOk DEF Numbering
  <2> QED BY <1>2, <1>3, <2>1, UsedNone DEF Numbered
<1>7. LoopSounds
  BY <1>2, <1>3, <1>4, QuietMeans DEF LoopSounds
<1>8. Agreed
  <2>1. Along(<<>>, epoch, {PageState}, {PageState})
    BY AlongNone
  <2>2. Ends({PageState})
    BY <1>3, <1>4, <1>5, HearingIs DEF Ends, Follows
  <2> QED BY <1>2, <1>3, <2>1, <2>2 DEF Agreed
<1> QED BY <1>5, <1>6, <1>7, <1>8 DEF SoundRight

LEMMA SoundRightStep ==
    ASSUME ContentAssumption, PicturesInv, SoundsInv, SoundRight, [Next]_vars, [ResumesIdle]_vars
    PROVE  SoundRight'
<1>1. CASE UNCHANGED vars
  <2>1. /\ UNCHANGED soundAlone /\ game' = game /\ loop' = loop /\ collector' = collector /\ outText' = outText
    BY <1>1 DEF vars, soundAlone
  <2>2. Steady /\ Onward
    BY <2>1 DEF Steady, Onward
  <2> QED BY <2>1, <2>2, SteadyRight
<1>2. CASE LoopStep
  <2>1. CASE HandlesCommand
    <3>1. ASSUME NEW slot \in Slots, HandlesResume(slot) PROVE SoundRight'
      <4>1. CASE ResumesIdle
        BY <3>1, <4>1, HandlesResumeRight DEF ResumesIdle
      <4> QED BY <1>1, <4>1
    <3> QED BY <2>1, <3>1, RefusesRight, HandlesScaleRight, HandlesAudioResumeRight, ClosesRight, QuickLoadsRight
            DEF HandlesCommand
  <2> QED BY <1>2, <2>1, TickEndsRight, FlushesSoundRight, WaitsToRebuildRight, RebuildsSoundRight,
          SilencesPageRight, AnswersRight, StartedRight, PushesFirstRight, TellsRestoredRight,
          RebuildsLoadedRight, PushesLoadedRight DEF LoopStep
<1>3. CASE EncoderStep
  <2>1. /\ UNCHANGED soundAlone /\ game' = game /\ loop' = loop /\ collector' = collector /\ outText' = outText
    BY <1>3 DEF EncoderStep, TakesFrame, EncodesFrame, HandsPicture, encoderUnchanged, soundAlone
  <2>2. Steady /\ Onward
    BY <2>1 DEF Steady, Onward
  <2> QED BY <2>1, <2>2, SteadyRight
<1>4. CASE WriterStep
  BY <1>4, TakesTextRight, TakesPictureRight, GoesWithoutPictureRight, AppendsPictureRight, WritesRight
     DEF WriterStep
<1>5. CASE PageStep
  BY <1>5, PageStepRight
<1>6. CASE Environment
  BY <1>6, GuestRight, GuestPlaysRight, ClosesRight DEF Environment
<1> QED BY <1>1, <1>2, <1>3, <1>4, <1>5, <1>6 DEF Next

\* Nothing is on its way.
LEMMA AgreesFollows == PicturesInv /\ SoundRight => SoundAgrees
<1> SUFFICES ASSUME PicturesInv, SoundRight, AtRest PROVE page.sounding = game.sounding
  BY DEF SoundAgrees
<1>1. /\ loop.pc = "run" /\ outText = <<>> /\ writer.pc = "select" /\ ~page.pending
      /\ game.on => collector = Quiet /\ ~loop.needsReset
      /\ WriterShape /\ GameShape
  BY DEF AtRest, PicturesInv, Shape
<1>2. writer.batch = <<>>
  BY <1>1 DEF WriterShape
<1>3. PICK Y, Z : Along(writer.batch, epoch, {PageState}, Y) /\ Along(outText, epoch, Y, Z) /\ Ends(Z)
  BY DEF SoundRight, Agreed
<1>4. PageState \in Z
  <2>1. \A X, V : Along(<<>>, epoch, X, V) => X \subseteq V
    BY EmptyIsSeq DEF Along, AlongBy
  <2> QED BY <1>1, <1>2, <1>3, <2>1
<1>5. page.pending = FALSE
  BY <1>1, PageStateIs
<1>6. page.epoch = epoch /\ Hearing(page.sounding) \in Z
  BY <1>1, <1>3, <1>4, <1>5, PageStateIs DEF Ends
<1>7. CASE game.on = TRUE
  <2>1. collector = Quiet /\ loop.needsReset = FALSE /\ collector.overflowed = FALSE
    BY <1>1, <1>7, QuietMeans DEF SoundRight, LoopSounds
  <2>2. Played(page.sounding, Quiet.events) = game.sounding
    BY <1>1, <1>3, <1>6, <1>7, <2>1 DEF Ends, Follows
  <2>3. page.sounding \subseteq Sounds
    BY <1>6 DEF SoundRight, PageQuiet
  <2> QED BY <2>2, <2>3, QuietMeans
<1>8. CASE game.on = FALSE
  <2>1. page.sounding = {}
    BY <1>1, <1>3, <1>6, <1>8 DEF Ends
  <2>2. game.sounding = {}
    BY <1>1, <1>8 DEF SoundRight, LoopSounds, Silent
  <2> QED BY <2>1, <2>2
<1> QED BY <1>1, <1>7, <1>8, OnOrOff

\* SoundAgrees, for any sounds, queues, budgets and people whose page asks to
\* resume only while no game runs: when everything has arrived, the page sounds
\* what the game sounds, whatever was dropped, cleared or refused on the way.
THEOREM SoundIsTrue ==
    ASSUME ContentAssumption
    PROVE  Spec /\ [][ResumesIdle]_vars => []SoundAgrees
<1> DEFINE Inv == PicturesInv /\ SoundsInv /\ SoundRight
<1>1. Init => Inv
  BY PicturesInit, SoundsInit, SoundRightInit
<1>2. Inv /\ [Next]_vars /\ [ResumesIdle]_vars => Inv'
  BY PicturesStep, SoundsStep, SoundRightStep
<1>3. Inv => SoundAgrees
  BY AgreesFollows
<1> QED BY <1>1, <1>2, <1>3, PTL DEF Spec
=============================================================================

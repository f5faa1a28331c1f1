--------------------------- MODULE JvmThreadsProofs ---------------------------
(***************************************************************************)
(* For any threads, monitors and titles: a monitor has one owner, as deep   *)
(* as its guest entered it; nobody sleeps at a free one; the wait set is    *)
(* exact; a wait ends for a reason; interrupts are answered once; and a held *)
(* barrier freezes the guest.                                               *)
(***************************************************************************)
EXTENDS JvmThreads, SequenceTheorems, TLAPS

Blocked == {"capture", "check", "try", "select", "took", "leave", "keep", "redepth"}
InPark == {"parking", "marking", "telling", "parked"}
Dead == {"unwinding", "ending", "delisting", "ended"}

\* What a place says of the operation a thread is in.
Placed ==
  \A t \in Threads :
    /\ pc[t] \in Blocked => kind[t] \in Kinds
    /\ pc[t] \in InPark => IF resumeAt[t] = "capture" THEN kind[t] \in Kinds ELSE kind[t] = None
    /\ pc[t] \in {"unstarted", "boundary", "step", "ending", "delisting", "ended"} => kind[t] = None
    /\ kind[t] = None => on[t] = None
    /\ kind[t] \in {"enter", "again", "wait"} => on[t] \in Monitors
    /\ kind[t] = "join" => on[t] \in Threads
    /\ pc[t] = "try" => kind[t] \in {"enter", "again"}
    /\ pc[t] = "took" => kind[t] \in {"wait", "sleep", "join"}
    /\ pc[t] = "leave" => kind[t] = "wait"
    /\ pc[t] \in {"keep", "redepth"} => kind[t] = "again"
    /\ pc[t] = "unwinding" => closed \/ kind[t] = None

\* A wait has given the monitor up, and not yet taken it back.
Released(t, m) == kind[t] \in {"wait", "again"} /\ on[t] = m

\* What a monitor's owner and depth say of a thread, and its guest of them.
OwnedAt(t, m) ==
  /\ owner[m] = t =>
       depth[m] = IF pc[t] = "redepth" /\ on[t] = m THEN 1 ELSE nest[t][m]
  /\ owner[m] # t => nest[t][m] = 0 \/ Released(t, m)
  /\ Released(t, m) =>
       /\ nest[t][m] > 0 /\ savedDepth[t] = nest[t][m]
       /\ owner[m] = t <=> pc[t] = "redepth"

Owned ==
  /\ \A m \in Monitors : owner[m] = None <=> depth[m] = 0
  /\ \A t \in Threads, m \in Monitors : OwnedAt(t, m)

\* Why a wait is over.
Reasoned ==
  \A t \in Threads : pc[t] \notin Dead =>
    /\ kind[t] \notin {"wait", "again"} => ~interrupted[t]
    /\ kind[t] = "wait" /\ interrupted[t] => pc[t] = "leave"
    /\ pc[t] = "leave" => interrupted[t] \/ notified[t] \/ timed[t]
    /\ pc[t] = "keep" => ~interrupted[t] /\ notified[t]
    /\ kind[t] = "again" /\ pc[t] # "keep" =>
         /\ interrupted[t] => ~notified[t]
         /\ interrupted[t] \/ notified[t] \/ timed[t]

\* Who the wait set lists: a thread that died of the machine's close stays.
ListedAt(t, m) ==
  \/ kind[t] = "wait" /\ on[t] = m /\ ~notified[t]
  \/ closed /\ pc[t] \in Dead

Queued ==
  \A m \in Monitors :
    /\ \A i \in 1..Len(waiters[m]) : ListedAt(waiters[m][i], m)
    /\ \A i, j \in 1..Len(waiters[m]) : i # j => waiters[m][i] # waiters[m][j]

\* The exceptions that what a thread holds of interrupts may still become.
Again(t) == IF flag[t] \/ token[t] THEN 1 ELSE 0
Due(t) ==
  IF pc[t] = "took" THEN (IF token[t] THEN 2 ELSE 1)
  ELSE IF interrupted[t] \/ pc[t] = "keep" THEN 1 + Again(t)
  ELSE Again(t)

Answered ==
  \A t \in Threads :
    /\ owed[t] >= Due(t)
    /\ unanswered[t] => flag[t] \/ interrupted[t] \/ pc[t] = "keep"
    /\ pc[t] = "took" /\ token[t] => flag[t]

\* A parked thread is marked on the barrier it loaded, and only an end of that
\* barrier or of the machine lets it go.
Barred ==
  /\ \A t \in Threads :
       /\ loaded[t] = "live" => host # "off"
       /\ t \notin listed => pc[t] \in {"unstarted", "ended"}
       /\ t \in listed => pc[t] \notin {"unstarted", "ended"}
       /\ t \in parked /\ ~closed => pc[t] \in {"telling", "parked"} /\ loaded[t] = "live"
  /\ host = "held" /\ ~closed => listed \subseteq parked

ThreadsInv == TypeOK /\ Placed /\ Owned /\ NobodySleepsAtAFreeMonitor
              /\ Reasoned /\ Queued /\ Answered /\ Barred

-----------------------------------------------------------------------------

\* Who is listed stays listable, for a step that leaves the wait sets alone.
ListedStay ==
  /\ closed => closed'
  /\ \A u \in Threads :
       /\ kind[u] = "wait" /\ ~notified[u] =>
            (kind'[u] = "wait" /\ on'[u] = on[u] /\ ~notified'[u]) \/ (closed' /\ pc'[u] \in Dead)
       /\ pc[u] \in Dead => pc'[u] \in Dead

\* ListedAt, after a step.
ListedNext(t, m) ==
  \/ kind'[t] = "wait" /\ on'[t] = m /\ ~notified'[t]
  \/ closed' /\ pc'[t] \in Dead

\* What Next does besides keeping the title.
ThreadsStep == HostStep \/ (\E t \in Threads : ThreadStep(t)) \/ UNCHANGED vars

\* The machine starts with nobody in it.
LEMMA InitThreadsInv == Init => ThreadsInv
<1> SUFFICES ASSUME Init PROVE ThreadsInv
  OBVIOUS
<1> USE ThreadsAssumption DEF Init, Kinds
<1>1. TypeOK
  <2>1. /\ program \in Programs /\ host \in {"off"} /\ waiters \in [Monitors -> Seq(Threads)]
    OBVIOUS
  <2>2. /\ savedDepth \in [Threads -> Nat] /\ timed \in [Threads -> BOOLEAN]
        /\ notified \in [Threads -> BOOLEAN] /\ interrupted \in [Threads -> BOOLEAN]
    OBVIOUS
  <2>3. nest \in [Threads -> [Monitors -> Nat]]
    OBVIOUS
  <2>4. /\ parked \subseteq Threads /\ listed \subseteq Threads
        /\ nudge \in BOOLEAN /\ closed \in BOOLEAN
        /\ owner \in [Monitors -> Threads \cup {None}]
        /\ depth \in [Monitors -> Nat]
    OBVIOUS
  <2>5. /\ pc \in [Threads -> {"unstarted"}]
        /\ kind \in [Threads -> Kinds \cup {None}]
        /\ on \in [Threads -> Monitors \cup Threads \cup {None}]
        /\ resumeAt \in [Threads -> {"boundary"}]
        /\ loaded \in [Threads -> {"live", "gone"}]
    OBVIOUS
  <2>6. /\ wakeClosed \in [Threads -> BOOLEAN] /\ changed \in [Threads -> BOOLEAN]
        /\ flag \in [Threads -> BOOLEAN] /\ token \in [Threads -> BOOLEAN]
        /\ alive \in [Threads -> BOOLEAN]
        /\ owed \in [Threads -> Int] /\ unanswered \in [Threads -> BOOLEAN]
    OBVIOUS
  <2> QED
  BY <2>1, <2>2, <2>3, <2>4, <2>5, <2>6
     DEF TypeOK, BarrierTyped, MonitorsTyped, PlacesTyped, ThreadsTyped, GuestTyped
<1>2. Placed
  BY DEF Placed, Blocked, InPark
<1>3. Owned
  BY DEF Owned, OwnedAt, Released
<1>4. NobodySleepsAtAFreeMonitor
  BY DEF NobodySleepsAtAFreeMonitor, Entering
<1>5. Reasoned
  BY DEF Reasoned
<1>6. Queued
  BY DEF Queued, ListedAt
<1>7. Answered
  BY DEF Answered, Due, Again
<1>8. Barred
  BY DEF Barred
<1> QED
  BY <1>1, <1>2, <1>3, <1>4, <1>5, <1>6, <1>7, <1>8 DEF ThreadsInv

\* None names no thread, monitor or kind.
LEMMA NoneIsApart == None \notin Threads \cup Monitors \cup Kinds
BY ThreadsAssumption

\* changeLocked keeps what each thread captured a Boolean.
LEMMA ToldTyped ==
  ASSUME PlacesTyped, NEW m
  PROVE  Told(m) \in [Threads -> BOOLEAN]
<1>1. \A u \in Threads :
        (\/ changed[u]
         \/ pc[u] = "select" /\ kind[u] \in {"enter", "again"} /\ on[u] = m) \in BOOLEAN
  BY DEF PlacesTyped
<1> QED
  BY <1>1, Zenon DEF Told

\* A wait set without a thread is a wait set.
LEMMA WithoutTyped ==
  ASSUME NEW q \in Seq(Threads), NEW t
  PROVE  Without(q, t) \in Seq(Threads)
<1>1. CASE \E i \in 1..Len(q) : q[i] = t
  <2> DEFINE i == CHOOSE i \in 1..Len(q) : q[i] = t
  <2>1. i \in 1..Len(q)
    BY <1>1
  <2>2. Without(q, t) = SubSeq(q, 1, i - 1) \o SubSeq(q, i + 1, Len(q))
    BY <1>1 DEF Without
  <2> HIDE DEF i
  <2>3. SubSeq(q, 1, i - 1) \in Seq(Threads) /\ SubSeq(q, i + 1, Len(q)) \in Seq(Threads)
    BY <2>1
  <2> QED
    BY <2>2, <2>3
<1> QED
  BY <1>1 DEF Without

\* What a thread's throw, or none, leaves of what the guest sees.
LEMMA ThrowTyped ==
  ASSUME GuestTyped, NEW t \in Threads, UNCHANGED nest, Throw(t) \/ UNCHANGED <<owed, unanswered>>
  PROVE  GuestTyped'
<1>1. owed' \in [Threads -> Int]
  BY DEF GuestTyped, Throw
<1>2. unanswered' \in [Threads -> BOOLEAN]
  BY DEF GuestTyped, Throw
<1> QED
  BY <1>1, <1>2 DEF GuestTyped

\* Taking a thread out of a wait set that lists it once takes out it alone.
LEMMA WithoutListed ==
  ASSUME NEW q \in Seq(Threads), NEW t \in Threads,
         \A i, j \in 1..Len(q) : i # j => q[i] # q[j]
  PROVE  /\ \A i \in 1..Len(Without(q, t)) :
              Without(q, t)[i] # t /\ \E j \in 1..Len(q) : Without(q, t)[i] = q[j]
         /\ \A i, j \in 1..Len(Without(q, t)) : i # j => Without(q, t)[i] # Without(q, t)[j]
<1>1. CASE \E i \in 1..Len(q) : q[i] = t
  <2> DEFINE k == CHOOSE i \in 1..Len(q) : q[i] = t
             a == SubSeq(q, 1, k - 1)
             b == SubSeq(q, k + 1, Len(q))
             w == a \o b
  <2>1. k \in 1..Len(q) /\ q[k] = t
    BY <1>1
  <2>2. Without(q, t) = w
    BY <1>1 DEF Without
  <2> HIDE DEF k
  <2>a. /\ a \in Seq(Threads) /\ Len(a) = k - 1
        /\ \A i \in 1..(k - 1) : a[i] = q[i]
    BY <2>1
  <2>b. /\ b \in Seq(Threads) /\ Len(b) = Len(q) - k
        /\ \A i \in 1..(Len(q) - k) : b[i] = q[k + i]
    BY <2>1
  <2> HIDE DEF a, b
  <2>c. /\ Len(w) = Len(a) + Len(b)
        /\ \A i \in 1 .. Len(a) + Len(b) : w[i] = IF i <= Len(a) THEN a[i] ELSE b[i - Len(a)]
    BY <2>a, <2>b, ConcatProperties
  <2>3. Len(w) = Len(q) - 1
    BY <2>1, <2>a, <2>b, <2>c
  <2>4. \A i \in 1..Len(w) : w[i] = IF i < k THEN q[i] ELSE q[i + 1]
    BY <2>1, <2>3, <2>a, <2>b, <2>c
  <2> HIDE DEF w
  <2>5. \A i \in 1..Len(w) : \E j \in 1..Len(q) : j # k /\ w[i] = q[j]
    BY <2>1, <2>3, <2>4
  <2>6. \A i, j \in 1..Len(w) : i # j => w[i] # w[j]
    BY <2>1, <2>3, <2>4
  <2> QED
    BY <2>1, <2>2, <2>5, <2>6
<1>2. CASE ~\E i \in 1..Len(q) : q[i] = t
  BY <1>2 DEF Without
<1> QED
  BY <1>1, <1>2

\* A step that leaves the wait sets alone keeps what they say.
LEMMA ListedStayQueued ==
  ASSUME Queued, MonitorsTyped, ListedStay, UNCHANGED waiters
  PROVE  Queued'
<1>1. ASSUME NEW m \in Monitors, NEW i \in 1..Len(waiters[m])
      PROVE  ListedNext(waiters[m][i], m)
  <2> DEFINE u == waiters[m][i]
  <2>1. u \in Threads
    BY DEF MonitorsTyped
  <2>2. ListedAt(u, m)
    BY DEF Queued
  <2> QED
    BY <2>1, <2>2 DEF ListedStay, ListedAt, ListedNext
<1> QED
  BY <1>1 DEF Queued, ListedAt, ListedNext

\* A wait set that is exact.
Lists(n) ==
  /\ waiters[n] \in Seq(Threads) /\ Len(waiters[n]) \in Nat
  /\ \A i \in 1..Len(waiters[n]) : waiters[n][i] \in Threads /\ ListedAt(waiters[n][i], n)
  /\ \A i, j \in 1..Len(waiters[n]) : i # j => waiters[n][i] # waiters[n][j]

\* What Queued says of one wait set.
LEMMA ListedFacts ==
  ASSUME MonitorsTyped, Queued, NEW n \in Monitors
  PROVE  Lists(n)
<1>1. waiters[n] \in Seq(Threads)
  BY DEF MonitorsTyped
<1> QED
  BY <1>1 DEF Queued, Lists

\* A notify takes the first waiters out, and tells them.
Chooses(m) ==
  \E n \in 0..Len(waiters[m]) :
    /\ waiters' = [waiters EXCEPT ![m] = SubSeq(waiters[m], n + 1, Len(waiters[m]))]
    /\ \A u \in Threads : notified'[u] = (notified[u] \/ \E i \in 1..n : waiters[m][i] = u)

\* A notify chooses the head of the wait set.
LEMMA NotifyChooses ==
  ASSUME MonitorsTyped, ThreadsTyped, NEW t \in Threads, NEW m \in Monitors,
         NEW b \in BOOLEAN, Notify(t, m, b)
  PROVE  Chooses(m)
<1> DEFINE n == IF b THEN Len(waiters[m]) ELSE IF waiters[m] = <<>> THEN 0 ELSE 1
           chosen == {waiters[m][i] : i \in 1..n}
<1>1. waiters[m] \in Seq(Threads)
  BY DEF MonitorsTyped
<1>2. n \in 0..Len(waiters[m])
  BY <1>1
<1>3. /\ waiters' = [waiters EXCEPT ![m] = SubSeq(@, n + 1, Len(@))]
      /\ notified' = [u \in Threads |-> notified[u] \/ u \in chosen]
  BY DEF Notify
<1>4. \A u \in Threads : u \in chosen <=> \E i \in 1..n : waiters[m][i] = u
  OBVIOUS
<1> HIDE DEF n, chosen
<1>5. \A u \in Threads : notified'[u] = (notified[u] \/ \E i \in 1..n : waiters[m][i] = u)
  BY <1>3, <1>4 DEF ThreadsTyped
<1>6. waiters' = [waiters EXCEPT ![m] = SubSeq(waiters[m], n + 1, Len(waiters[m]))]
  BY <1>1, <1>3
<1> QED
  BY <1>2, <1>5, <1>6 DEF Chooses

\* A waiter that leaves is not listed anywhere else.
LEMMA LeaveWaitersKeepsQueued ==
  ASSUME MonitorsTyped, PlacesTyped, ThreadsTyped, Placed, Queued,
         NEW t \in Threads, LeaveWaiters(t)
  PROVE  Queued'
<1>lists. \A n \in Monitors : Lists(n)
  BY ListedFacts
<1> DEFINE m == on[t]
<1>1. /\ pc[t] = "leave" /\ kind[t] = "wait" /\ m \in Monitors
      /\ waiters' = [waiters EXCEPT ![m] = Without(waiters[m], t)]
      /\ kind' = [kind EXCEPT ![t] = "again"] /\ UNCHANGED <<on, notified, closed>>
      /\ \A u \in Threads : u # t => pc'[u] = pc[u]
  BY DEF LeaveWaiters, Goto, Placed, PlacesTyped, barrierVars, Kinds
<1>2. \A n \in Monitors : waiters[n] \in Seq(Threads)
  BY DEF MonitorsTyped
<1>3. \A n \in Monitors : n # m => \A i \in 1..Len(waiters[n]) : waiters[n][i] # t
  BY <1>1, <1>lists DEF Lists, ListedAt, Dead
<1> SUFFICES ASSUME NEW n \in Monitors
             PROVE  /\ \A i \in 1..Len(waiters'[n]) : ListedNext(waiters'[n][i], n)
                    /\ \A i, j \in 1..Len(waiters'[n]) : i # j => waiters'[n][i] # waiters'[n][j]
  BY DEF Queued, ListedAt, ListedNext
<1>4. \A u \in Threads : u # t /\ ListedAt(u, n) => ListedNext(u, n)
  BY <1>1 DEF ListedAt, ListedNext
<1>5. CASE n = m
  <2>1. waiters'[m] = Without(waiters[m], t) /\ m \in DOMAIN waiters
    BY <1>1 DEF MonitorsTyped
  <2> QED
    BY <1>4, <1>5, <2>1, WithoutListed, <1>lists DEF Lists
<1>6. CASE n # m
  <2>1. waiters'[n] = waiters[n]
    BY <1>1, <1>6 DEF MonitorsTyped
  <2> QED
    BY <1>2, <1>3, <1>4, <1>6, <2>1 DEF Queued
<1> QED
  BY <1>5, <1>6

\* A thread about to wait is in no wait set yet.
LEMMA WaitKeepsQueued ==
  ASSUME MonitorsTyped, PlacesTyped, ThreadsTyped, Placed, Queued,
         NEW t \in Threads, NEW m \in Monitors, NEW b \in BOOLEAN, Wait(t, m, b)
  PROVE  Queued'
<1>lists. \A n \in Monitors : Lists(n)
  BY ListedFacts
<1>0. pc[t] = "step" /\ kind[t] = None /\ UNCHANGED closed
  BY DEF Wait, Executes, Placed, barrierVars
<1>1. CASE flag[t]
  <2>1. ListedStay /\ UNCHANGED waiters
    BY <1>0, <1>1, NoneIsApart
       DEF Wait, Continue, Goto, ListedStay, PlacesTyped, monitorVars, waitVars, Kinds, Dead
  <2> QED
    BY <2>1, ListedStayQueued
<1>2. CASE ~flag[t]
  <2>1. /\ waiters' = [waiters EXCEPT ![m] = Append(waiters[m], t)]
        /\ Block(t, "wait", m) /\ NewWait(t, depth[m], b)
    BY <1>2 DEF Wait
  <2>2. \A n \in Monitors : waiters[n] \in Seq(Threads)
    BY DEF MonitorsTyped
  <2>3. \A n \in Monitors : \A i \in 1..Len(waiters[n]) : waiters[n][i] \in Threads \ {t}
    BY <1>0, <1>lists, NoneIsApart DEF Lists, ListedAt, Kinds, Dead
  <2>4. \A u \in Threads, n \in Monitors : u # t /\ ListedAt(u, n) => ListedNext(u, n)
    BY <1>0, <2>1 DEF Block, Goto, NewWait, ListedAt, ListedNext
  <2>5. ListedNext(t, m)
    BY <2>1 DEF Block, NewWait, ListedNext, PlacesTyped, ThreadsTyped
  <2> SUFFICES ASSUME NEW n \in Monitors
               PROVE  /\ \A i \in 1..Len(waiters'[n]) : ListedNext(waiters'[n][i], n)
                      /\ \A i, j \in 1..Len(waiters'[n]) : i # j => waiters'[n][i] # waiters'[n][j]
    BY DEF Queued, ListedAt, ListedNext
  <2>6. CASE n = m
    <3>1. /\ waiters'[n] = Append(waiters[m], t) /\ waiters[m] \in Seq(Threads)
          /\ Len(waiters'[n]) = Len(waiters[m]) + 1
          /\ \A i \in 1..Len(waiters[m]) : waiters'[n][i] = waiters[m][i]
          /\ waiters'[n][Len(waiters[m]) + 1] = t
      BY <2>1, <2>2, <2>6 DEF MonitorsTyped
    <3>2. \A i \in 1..Len(waiters'[n]) : i \in 1..Len(waiters[m]) \/ i = Len(waiters[m]) + 1
      BY <3>1
    <3> QED
      BY <2>3, <2>4, <2>5, <2>6, <3>1, <3>2 DEF Queued
  <2>7. CASE n # m
    <3>1. waiters'[n] = waiters[n]
      BY <2>1, <2>7 DEF MonitorsTyped
    <3> QED
      BY <2>3, <2>4, <3>1 DEF Queued
  <2> QED
    BY <2>6, <2>7
<1> QED
  BY <1>1, <1>2

\* Whom a notify chose is listed no longer.
LEMMA NotifyKeepsQueued ==
  ASSUME MonitorsTyped, PlacesTyped, ThreadsTyped, Placed, Queued,
         NEW t \in Threads, NEW m \in Monitors, NEW b \in BOOLEAN, Notify(t, m, b)
  PROVE  Queued'
<1>lists. \A n \in Monitors : Lists(n)
  BY ListedFacts
<1>1. pc[t] = "step" /\ kind[t] = None /\ Continue(t) /\ UNCHANGED closed
  BY DEF Notify, Executes, Placed, barrierVars
<1>2. PICK k \in 0..Len(waiters[m]) :
        /\ waiters' = [waiters EXCEPT ![m] = SubSeq(waiters[m], k + 1, Len(waiters[m]))]
        /\ \A u \in Threads : notified'[u] = (notified[u] \/ \E i \in 1..k : waiters[m][i] = u)
  <2>1. Chooses(m)
    BY NotifyChooses
  <2> QED
    BY <2>1 DEF Chooses
<1>3. \A n \in Monitors : waiters[n] \in Seq(Threads)
  BY DEF MonitorsTyped
<1>4. \A u \in Threads, n \in Monitors :
        ListedAt(u, n) /\ (~\E i \in 1..k : waiters[m][i] = u) => ListedNext(u, n)
  <2>1. /\ closed' = closed
        /\ \A u \in Threads : u # t => pc'[u] = pc[u] /\ kind'[u] = kind[u] /\ on'[u] = on[u]
    BY <1>1 DEF Continue, Goto
  <2>2. \A n \in Monitors : ~ListedAt(t, n)
    BY <1>1, NoneIsApart DEF ListedAt, Kinds, Dead
  <2> QED
    BY <1>2, <2>1, <2>2 DEF ListedAt, ListedNext
<1> SUFFICES ASSUME NEW n \in Monitors
             PROVE  /\ \A i \in 1..Len(waiters'[n]) : ListedNext(waiters'[n][i], n)
                    /\ \A i, j \in 1..Len(waiters'[n]) : i # j => waiters'[n][i] # waiters'[n][j]
  BY DEF Queued, ListedAt, ListedNext
<1>5. CASE n = m
  <2>1. /\ Len(waiters'[n]) = Len(waiters[m]) - k
        /\ \A i \in 1..Len(waiters'[n]) : waiters'[n][i] = waiters[m][k + i]
    BY <1>2, <1>3, <1>5 DEF MonitorsTyped
  <2>2. Lists(m)
    BY <1>lists
  <2>3. Len(waiters[m]) \in Nat /\ k \in 0..Len(waiters[m])
    BY <2>2 DEF Lists
  <2>4. \A i \in 1..Len(waiters'[n]) :
          i \in Nat /\ k + i \in 1..Len(waiters[m]) /\ k + i \notin 1..k
    BY <2>1, <2>3
  <2>5. \A j \in 1..k : j \in 1..Len(waiters[m])
    BY <2>3
  <2>6. ASSUME NEW i \in 1..Len(waiters'[n]) PROVE ListedNext(waiters'[n][i], n)
    <3> DEFINE u == waiters[m][k + i]
    <3>1. u \in Threads /\ ListedAt(u, n) /\ waiters'[n][i] = u
      BY <1>5, <2>1, <2>2, <2>4 DEF Lists
    <3>2. ~\E j \in 1..k : waiters[m][j] = u
      BY <2>2, <2>4, <2>5 DEF Lists
    <3> QED
      BY <1>4, <3>1, <3>2
  <2>7. ASSUME NEW i \in 1..Len(waiters'[n]), NEW j \in 1..Len(waiters'[n]), i # j
        PROVE  waiters'[n][i] # waiters'[n][j]
    <3>1. k + i # k + j
      BY <2>3, <2>4, <2>7
    <3> QED
      BY <2>1, <2>2, <2>4, <3>1 DEF Lists
  <2> QED
    BY <2>6, <2>7
<1>6. CASE n # m
  <2>1. waiters'[n] = waiters[n]
    BY <1>2, <1>6 DEF MonitorsTyped
  <2>2. ASSUME NEW u \in Threads, ListedAt(u, n) PROVE ListedNext(u, n)
    <3>1. CASE \E i \in 1..k : waiters[m][i] = u
      <4>1. ListedAt(u, m)
        BY <1>2, <3>1, <1>lists DEF Lists
      <4>2. closed /\ pc[u] \in Dead
        BY <1>6, <2>2, <4>1 DEF ListedAt
      <4> QED
        BY <1>1, <4>2 DEF Continue, Goto, ListedNext, PlacesTyped, Dead
    <3> QED
      BY <1>4, <2>2, <3>1
  <2> QED
    BY <1>3, <2>1, <2>2 DEF Queued
<1> QED
  BY <1>5, <1>6

\* A wait, sleep or join that throws at once.
ThrownAtOnce(t) ==
  /\ \A x \in Threads : x # t =>
       /\ flag'[x] = flag[x] /\ token'[x] = token[x]
       /\ owed'[x] = owed[x] /\ unanswered'[x] = unanswered[x] /\ pc'[x] = pc[x]
  /\ ~flag'[t] /\ ~token'[t]
  /\ owed'[t] = owed[t] - 1 /\ ~unanswered'[t] /\ pc'[t] = "boundary"

\* The operations that find the flag set throw, and nothing of it is left.
LEMMA ThrowsAtOnce ==
  ASSUME PlacesTyped, ThreadsTyped, GuestTyped, NEW t \in Threads,
         flag[t], Consume(t), Throw(t), Continue(t)
  PROVE  ThrownAtOnce(t)
<1>1. (\A x \in Threads : x # t => flag'[x] = flag[x]) /\ ~flag'[t]
  BY DEF ThreadsTyped, Consume
<1>2. (\A x \in Threads : x # t => token'[x] = token[x]) /\ ~token'[t]
  BY DEF ThreadsTyped, Consume
<1>3. (\A x \in Threads : x # t => owed'[x] = owed[x]) /\ owed'[t] = owed[t] - 1
  BY DEF GuestTyped, Throw
<1>4. (\A x \in Threads : x # t => unanswered'[x] = unanswered[x]) /\ ~unanswered'[t]
  BY DEF GuestTyped, Throw
<1>5. (\A x \in Threads : x # t => pc'[x] = pc[x]) /\ pc'[t] = "boundary"
  BY DEF PlacesTyped, Continue, Goto
<1> QED
  BY <1>1, <1>2, <1>3, <1>4, <1>5 DEF ThrownAtOnce

\* A wait over is left by its return alone.
ReturnsOnly ==
  \A v \in Threads : pc[v] = "redepth" /\ pc'[v] # "redepth" => ReturnFromWait(v)

\* What a held barrier forbids.
Frozen ==
  host = "held" /\ host' = "held" /\ ~closed' =>
    /\ UNCHANGED <<listed, monitorVars, threadVars, guestVars>>
    /\ \A t \in listed : pc'[t] \in {"telling", "parked"}

-----------------------------------------------------------------------------
\* Every step keeps each part of the invariant. The barrier's types:
LEMMA BarrierTypedKept ==
  ASSUME BarrierTyped, ThreadsStep
  PROVE  BarrierTyped'
<1> USE NoneIsApart DEF BarrierTyped, vars, waitVars, barrierVars, monitorVars, placeVars,
                        threadVars, guestVars
<1>1. ASSUME NEW t \in Threads, Boundary(t) \/ NativeWait(t) \/ Return(t) \/ Fail(t)
      PROVE  BarrierTyped'
  BY <1>1 DEF Boundary, NativeWait, Return, Fail, Executes, Block, Park, Goto, Pausing
<1>2. ASSUME NEW t \in Threads, NEW m \in Monitors, Enter(t, m) PROVE BarrierTyped'
  BY <1>2 DEF Enter, Executes, Block, Goto
<1>3. ASSUME NEW t \in Threads, NEW m \in Monitors, Exit(t, m) PROVE BarrierTyped'
  BY <1>3 DEF Exit, Executes, Continue, Goto, Told
<1>4. ASSUME NEW t \in Threads, NEW m \in Monitors, NEW b \in BOOLEAN, Wait(t, m, b)
      PROVE  BarrierTyped'
  BY <1>4 DEF Wait, NewWait, Executes, Consume, Throw, Continue, Block, Goto, Told
<1>5. ASSUME NEW t \in Threads, NEW m \in Monitors, NEW b \in BOOLEAN, Notify(t, m, b)
      PROVE  BarrierTyped'
  BY <1>5 DEF Notify, Executes, Continue, Goto
<1>6. ASSUME NEW t \in Threads, Sleep(t) PROVE BarrierTyped'
  BY <1>6 DEF Sleep, SleepOrJoin, Executes, Consume, Throw, Continue, Block, Goto
<1>7. ASSUME NEW t \in Threads, NEW u \in Threads, Join(t, u) PROVE BarrierTyped'
  BY <1>7 DEF Join, SleepOrJoin, Executes, Consume, Throw, Continue, Block, Goto
<1>8. ASSUME NEW t \in Threads, NEW u \in Threads, Interrupt(t, u) PROVE BarrierTyped'
  BY <1>8 DEF Interrupt, Executes, SetInterrupt, Continue, Goto
<1>9. ASSUME NEW t \in Threads, NEW u \in Threads, Start(t, u) PROVE BarrierTyped'
  BY <1>9 DEF Start, Begin, Executes, TellBarrier, Pausing
<1>10. ASSUME NEW t \in Threads, LoadBarrier(t) PROVE BarrierTyped'
  BY <1>10
     DEF LoadBarrier, MarkParked, Marked, TellParked, LeavePark, LetGo, Goto, Pausing,
         TellBarrier, Pausing
<1>11. ASSUME NEW t \in Threads, MarkParked(t) PROVE BarrierTyped'
  BY <1>11
     DEF LoadBarrier, MarkParked, Marked, TellParked, LeavePark, LetGo, Goto, Pausing,
         TellBarrier, Pausing
<1>12. ASSUME NEW t \in Threads, TellParked(t) PROVE BarrierTyped'
  BY <1>12
     DEF LoadBarrier, MarkParked, Marked, TellParked, LeavePark, LetGo, Goto, Pausing,
         TellBarrier, Pausing
<1>13. ASSUME NEW t \in Threads, LeavePark(t) PROVE BarrierTyped'
  BY <1>13
     DEF LoadBarrier, MarkParked, Marked, TellParked, LeavePark, LetGo, Goto, Pausing,
         TellBarrier, Pausing
<1>14. ASSUME NEW t \in Threads, CaptureWake(t) \/ CheckBarrier(t) PROVE BarrierTyped'
  BY <1>14 DEF CaptureWake, CheckBarrier, Park, Goto, Pausing, Entering
<1>15. ASSUME NEW t \in Threads, TryEnter(t) PROVE BarrierTyped'
  BY <1>15 DEF TryEnter, Continue, Goto
<1>16. ASSUME NEW t \in Threads,
              SelectChanged(t) \/ SelectWake(t) \/ SelectClosed(t) \/ SelectNotification(t)
       PROVE  BarrierTyped'
  BY <1>16
     DEF SelectChanged, SelectWake, SelectClosed, SelectNotification, Selected, Park, Goto,
         Entering
<1>17. ASSUME NEW t \in Threads, SelectTime(t) \/ SelectDone(t) \/ SelectToken(t)
       PROVE  BarrierTyped'
  BY <1>17 DEF SelectTime, SelectDone, SelectToken, Selected, Continue, Goto, Entering
<1>18. ASSUME NEW t \in Threads, TookToken(t) PROVE BarrierTyped'
  BY <1>18 DEF TookToken, Consume, Throw, Continue, Goto
<1>19. ASSUME NEW t \in Threads, LeaveWaiters(t) PROVE BarrierTyped'
  BY <1>19 DEF LeaveWaiters, KeepsInterrupt, Goto
<1>20. ASSUME NEW t \in Threads, KeepInterrupt(t) PROVE BarrierTyped'
  BY <1>20 DEF KeepInterrupt, SetInterrupt, Goto
<1>21. ASSUME NEW t \in Threads, ReturnFromWait(t) PROVE BarrierTyped'
  BY <1>21 DEF ReturnFromWait, NewWait, SavedDepth, Throw, Continue, Goto
<1>22. ASSUME NEW t \in Threads, Unwind(t) PROVE BarrierTyped'
  BY <1>22 DEF Unwind, Goto, Told
<1>23. ASSUME NEW t \in Threads, EndThread(t) PROVE BarrierTyped'
  BY <1>23 DEF EndThread, Delist, Goto, TellBarrier, Pausing
<1>24. ASSUME NEW t \in Threads, Delist(t) PROVE BarrierTyped'
  BY <1>24 DEF EndThread, Delist, Goto, TellBarrier, Pausing
<1>25. ASSUME PauseThreads \/ Look \/ LookAgain \/ Close PROVE BarrierTyped'
  BY <1>25 DEF PauseThreads, Look, LookAgain, Ready, Close
<1>26. ASSUME GiveUp \/ Resume PROVE BarrierTyped'
  BY <1>26 DEF GiveUp, Resume, ResumeThreads
<1>27. ASSUME NEW u \in Threads, HostStarts(u) PROVE BarrierTyped'
  BY <1>27 DEF HostStarts, Begin, Goto, TellBarrier, Pausing
<1>28. CASE UNCHANGED vars
  BY <1>28
<1> QED
  BY <1>1, <1>2, <1>3, <1>4, <1>5, <1>6, <1>7, <1>8, <1>9, <1>10, <1>11, <1>12, <1>13, <1>14,
     <1>15, <1>16, <1>17, <1>18, <1>19, <1>20, <1>21, <1>22, <1>23, <1>24, <1>25, <1>26, <1>27,
     <1>28
     DEF ThreadsStep, ThreadStep, Instruction, Parking, Blocking, Select, Ending, HostStep

\* The monitors' types.
LEMMA MonitorsTypedKept ==
  ASSUME MonitorsTyped, PlacesTyped, ThreadsTyped, Placed, ThreadsStep
  PROVE  MonitorsTyped'
<1> USE NoneIsApart DEF MonitorsTyped, PlacesTyped, ThreadsTyped, Placed, Kinds, vars, waitVars,
                        barrierVars, monitorVars, placeVars, threadVars, guestVars
<1>1. ASSUME NEW t \in Threads, Boundary(t) \/ NativeWait(t) \/ Return(t) \/ Fail(t)
      PROVE  MonitorsTyped'
  BY <1>1 DEF Boundary, NativeWait, Return, Fail, Executes, Block, Park, Goto, Pausing
<1>2. ASSUME NEW t \in Threads, NEW m \in Monitors, Enter(t, m) PROVE MonitorsTyped'
  BY <1>2 DEF Enter, Executes, Block, Goto
<1>3. ASSUME NEW t \in Threads, NEW m \in Monitors, Exit(t, m) PROVE MonitorsTyped'
  <2>1. depth' \in [Monitors -> Nat]
    BY <1>3 DEF Exit
  <2>2. owner' \in [Monitors -> Threads \cup {None}]
    BY ZenonT(60), <1>3 DEF Exit
  <2> QED
    BY <1>3, <2>1, <2>2 DEF Exit
<1>4. ASSUME NEW t \in Threads, NEW m \in Monitors, NEW b \in BOOLEAN, Wait(t, m, b)
      PROVE  MonitorsTyped'
  <2>1. depth' = depth \/ depth' = [depth EXCEPT ![m] = 0]
    BY <1>4 DEF Wait
  <2>2. owner' \in [Monitors -> Threads \cup {None}]
    BY <1>4 DEF Wait
  <2>3. Append(waiters[m], t) \in Seq(Threads)
    OBVIOUS
  <2>4. waiters' \in [Monitors -> Seq(Threads)]
    BY <1>4, <2>3 DEF Wait
  <2>5. CASE depth' = depth
    BY <2>2, <2>4, <2>5
  <2>6. CASE depth' = [depth EXCEPT ![m] = 0]
    <3>1. depth' \in [Monitors -> Nat]
      BY <2>6
    <3> QED
      BY <2>2, <2>4, <3>1
  <2> QED
    BY <2>1, <2>5, <2>6
<1>5. ASSUME NEW t \in Threads, NEW m \in Monitors, NEW b \in BOOLEAN, Notify(t, m, b)
      PROVE  MonitorsTyped'
  BY <1>5 DEF Notify, Executes, Continue, Goto
<1>6. ASSUME NEW t \in Threads, Sleep(t) PROVE MonitorsTyped'
  BY <1>6 DEF Sleep, SleepOrJoin, Executes, Consume, Throw, Continue, Block, Goto
<1>7. ASSUME NEW t \in Threads, NEW u \in Threads, Join(t, u) PROVE MonitorsTyped'
  BY <1>7 DEF Join, SleepOrJoin, Executes, Consume, Throw, Continue, Block, Goto
<1>8. ASSUME NEW t \in Threads, NEW u \in Threads, Interrupt(t, u) PROVE MonitorsTyped'
  BY <1>8 DEF Interrupt, Executes, SetInterrupt, Continue, Goto
<1>9. ASSUME NEW t \in Threads, NEW u \in Threads, Start(t, u) PROVE MonitorsTyped'
  BY <1>9 DEF Start, Begin, Executes
<1>10. ASSUME NEW t \in Threads,
              LoadBarrier(t) \/ MarkParked(t) \/ TellParked(t) \/ LeavePark(t)
       PROVE  MonitorsTyped'
  BY <1>10 DEF LoadBarrier, MarkParked, Marked, TellParked, LeavePark, LetGo, Goto, Pausing
<1>11. ASSUME NEW t \in Threads, CaptureWake(t) \/ CheckBarrier(t) PROVE MonitorsTyped'
  BY <1>11 DEF CaptureWake, CheckBarrier, Park, Goto, Pausing, Entering
<1>12. ASSUME NEW t \in Threads, TryEnter(t) PROVE MonitorsTyped'
  <2>1. on[t] \in Monitors /\ depth[on[t]] \in Nat
    BY <1>12 DEF TryEnter
  <2>2. depth' \in [Monitors -> Nat]
    BY <1>12, <2>1 DEF TryEnter
  <2>3. owner' \in [Monitors -> Threads \cup {None}]
    <3>1. owner' = owner \/ owner' = [owner EXCEPT ![on[t]] = t]
      BY <1>12 DEF TryEnter
    <3> QED
      BY <2>1, <3>1
  <2> QED
    BY <1>12, <2>2, <2>3 DEF TryEnter
<1>13. ASSUME NEW t \in Threads,
              SelectChanged(t) \/ SelectWake(t) \/ SelectClosed(t) \/ SelectNotification(t)
       PROVE  MonitorsTyped'
  BY <1>13
     DEF SelectChanged, SelectWake, SelectClosed, SelectNotification, Selected, Park, Goto,
         Entering
<1>14. ASSUME NEW t \in Threads, SelectTime(t) \/ SelectDone(t) \/ SelectToken(t)
       PROVE  MonitorsTyped'
  BY <1>14 DEF SelectTime, SelectDone, SelectToken, Selected, Continue, Goto, Entering
<1>15. ASSUME NEW t \in Threads, TookToken(t) PROVE MonitorsTyped'
  BY <1>15 DEF TookToken, Consume, Throw, Continue, Goto
<1>16. ASSUME NEW t \in Threads, LeaveWaiters(t) PROVE MonitorsTyped'
  <2>1. Without(waiters[on[t]], t) \in Seq(Threads)
    BY <1>16, WithoutTyped DEF LeaveWaiters
  <2> QED
    BY <1>16, <2>1 DEF LeaveWaiters
<1>17. ASSUME NEW t \in Threads, KeepInterrupt(t) PROVE MonitorsTyped'
  BY <1>17 DEF KeepInterrupt, SetInterrupt, Goto
<1>18. ASSUME NEW t \in Threads, ReturnFromWait(t) PROVE MonitorsTyped'
  BY <1>18 DEF ReturnFromWait, NewWait, SavedDepth, Throw, Continue, Goto
<1>19. ASSUME NEW t \in Threads, Unwind(t) PROVE MonitorsTyped'
  BY <1>19 DEF Unwind, Goto, Told
<1>20. ASSUME NEW t \in Threads, EndThread(t) \/ Delist(t) PROVE MonitorsTyped'
  BY <1>20 DEF EndThread, Delist, Goto
<1>21. ASSUME PauseThreads \/ Look \/ LookAgain \/ Close PROVE MonitorsTyped'
  BY <1>21 DEF PauseThreads, Look, LookAgain, Ready, Close
<1>22. ASSUME GiveUp \/ Resume PROVE MonitorsTyped'
  BY <1>22 DEF GiveUp, Resume, ResumeThreads
<1>23. ASSUME NEW u \in Threads, HostStarts(u) PROVE MonitorsTyped'
  BY <1>23 DEF HostStarts, Begin, Goto
<1>24. CASE UNCHANGED vars
  BY <1>24
<1> QED
  BY <1>1, <1>2, <1>3, <1>4, <1>5, <1>6, <1>7, <1>8, <1>9, <1>10, <1>11, <1>12, <1>13, <1>14,
     <1>15, <1>16, <1>17, <1>18, <1>19, <1>20, <1>21, <1>22, <1>23, <1>24
     DEF ThreadsStep, ThreadStep, Instruction, Parking, Blocking, Select, Ending, HostStep

\* The places' types.
LEMMA PlacesTypedKept ==
  ASSUME PlacesTyped, Placed, ThreadsStep
  PROVE  PlacesTyped'
<1> USE NoneIsApart DEF PlacesTyped, Kinds, vars, waitVars, barrierVars, monitorVars, placeVars,
                        threadVars, guestVars
<1>1. ASSUME NEW t \in Threads, Boundary(t) \/ NativeWait(t) \/ Return(t) \/ Fail(t)
      PROVE  PlacesTyped'
  BY <1>1 DEF Boundary, NativeWait, Return, Fail, Executes, Block, Park, Goto, Pausing
<1>2. ASSUME NEW t \in Threads, NEW m \in Monitors, Enter(t, m) PROVE PlacesTyped'
  BY <1>2 DEF Enter, Executes, Block, Goto
<1>3. ASSUME NEW t \in Threads, NEW m \in Monitors, Exit(t, m) PROVE PlacesTyped'
  <2>1. changed' \in [Threads -> BOOLEAN]
    BY <1>3, ToldTyped DEF Exit
  <2> QED
    BY <1>3, <2>1 DEF Exit, Continue, Goto
<1>4. ASSUME NEW t \in Threads, NEW m \in Monitors, NEW b \in BOOLEAN, Wait(t, m, b)
      PROVE  PlacesTyped'
  <2>1. changed' \in [Threads -> BOOLEAN]
    BY <1>4, ToldTyped DEF Wait
  <2>2. Continue(t) \/ Block(t, "wait", m)
    BY <1>4 DEF Wait
  <2>3. UNCHANGED <<resumeAt, loaded, wakeClosed>>
    BY <1>4 DEF Wait
  <2> QED
    BY <2>1, <2>2, <2>3 DEF Continue, Block, Goto
<1>5. ASSUME NEW t \in Threads, NEW m \in Monitors, NEW b \in BOOLEAN, Notify(t, m, b)
      PROVE  PlacesTyped'
  BY <1>5 DEF Notify, Executes, Continue, Goto
<1>6. ASSUME NEW t \in Threads, Sleep(t) PROVE PlacesTyped'
  BY <1>6 DEF Sleep, SleepOrJoin, Executes, Consume, Throw, Continue, Block, Goto
<1>7. ASSUME NEW t \in Threads, NEW u \in Threads, Join(t, u) PROVE PlacesTyped'
  BY <1>7 DEF Join, SleepOrJoin, Executes, Consume, Throw, Continue, Block, Goto
<1>8. ASSUME NEW t \in Threads, NEW u \in Threads, Interrupt(t, u) PROVE PlacesTyped'
  BY <1>8 DEF Interrupt, Executes, SetInterrupt, Continue, Goto
<1>9. ASSUME NEW t \in Threads, NEW u \in Threads, Start(t, u) PROVE PlacesTyped'
  BY <1>9 DEF Start, Begin, Executes
<1>10. ASSUME NEW t \in Threads,
              LoadBarrier(t) \/ MarkParked(t) \/ TellParked(t) \/ LeavePark(t)
       PROVE  PlacesTyped'
  BY <1>10 DEF LoadBarrier, MarkParked, Marked, TellParked, LeavePark, LetGo, Goto, Pausing
<1>11. ASSUME NEW t \in Threads, CaptureWake(t) \/ CheckBarrier(t) PROVE PlacesTyped'
  BY <1>11 DEF CaptureWake, CheckBarrier, Park, Goto, Pausing, Entering
<1>12. ASSUME NEW t \in Threads, TryEnter(t) PROVE PlacesTyped'
  BY <1>12 DEF TryEnter, Continue, Goto
<1>13. ASSUME NEW t \in Threads,
              SelectChanged(t) \/ SelectWake(t) \/ SelectClosed(t) \/ SelectNotification(t)
       PROVE  PlacesTyped'
  BY ZenonT(60), <1>13
     DEF SelectChanged, SelectWake, SelectClosed, SelectNotification, Selected, Park, Goto,
         Entering
<1>14. ASSUME NEW t \in Threads, SelectTime(t) \/ SelectDone(t) \/ SelectToken(t)
       PROVE  PlacesTyped'
  BY ZenonT(60), <1>14 DEF SelectTime, SelectDone, SelectToken, Selected, Continue, Goto, Entering
<1>15. ASSUME NEW t \in Threads, TookToken(t) PROVE PlacesTyped'
  BY <1>15 DEF TookToken, Consume, Throw, Continue, Goto
<1>16. ASSUME NEW t \in Threads, LeaveWaiters(t) PROVE PlacesTyped'
  BY <1>16 DEF LeaveWaiters, KeepsInterrupt, Goto
<1>17. ASSUME NEW t \in Threads, KeepInterrupt(t) PROVE PlacesTyped'
  BY <1>17 DEF KeepInterrupt, SetInterrupt, Goto
<1>18. ASSUME NEW t \in Threads, ReturnFromWait(t) PROVE PlacesTyped'
  BY <1>18 DEF ReturnFromWait, NewWait, SavedDepth, Throw, Continue, Goto
<1>19. ASSUME NEW t \in Threads, Unwind(t) PROVE PlacesTyped'
  BY <1>19 DEF Unwind, Goto, Told
<1>20. ASSUME NEW t \in Threads, EndThread(t) \/ Delist(t) PROVE PlacesTyped'
  BY <1>20 DEF EndThread, Delist, Goto
<1>21. ASSUME PauseThreads PROVE PlacesTyped'
  <2>1. wakeClosed' \in [Threads -> BOOLEAN]
    BY <1>21 DEF PauseThreads
  <2> QED
    BY <1>21, <2>1 DEF PauseThreads
<1>22. ASSUME Look PROVE PlacesTyped'
  BY <1>22 DEF PauseThreads, Look, LookAgain, Ready, Close
<1>23. ASSUME LookAgain PROVE PlacesTyped'
  BY <1>23 DEF PauseThreads, Look, LookAgain, Ready, Close
<1>24. ASSUME Close PROVE PlacesTyped'
  BY <1>24 DEF PauseThreads, Look, LookAgain, Ready, Close
<1>25. ASSUME GiveUp \/ Resume PROVE PlacesTyped'
  BY <1>25 DEF GiveUp, Resume, ResumeThreads
<1>26. ASSUME NEW u \in Threads, HostStarts(u) PROVE PlacesTyped'
  BY <1>26 DEF HostStarts, Begin, Goto
<1>27. CASE UNCHANGED vars
  BY <1>27
<1> QED
  BY <1>1, <1>2, <1>3, <1>4, <1>5, <1>6, <1>7, <1>8, <1>9, <1>10, <1>11, <1>12, <1>13, <1>14,
     <1>15, <1>16, <1>17, <1>18, <1>19, <1>20, <1>21, <1>22, <1>23, <1>24, <1>25, <1>26, <1>27
     DEF ThreadsStep, ThreadStep, Instruction, Parking, Blocking, Select, Ending, HostStep

\* The types of what threads and their waits hold.
LEMMA ThreadsTypedKept ==
  ASSUME ThreadsTyped, MonitorsTyped, ThreadsStep
  PROVE  ThreadsTyped'
<1> USE NoneIsApart DEF ThreadsTyped, vars, waitVars, barrierVars, monitorVars, placeVars,
                        threadVars, guestVars
<1>1. ASSUME NEW t \in Threads, Boundary(t) \/ NativeWait(t) \/ Return(t) \/ Fail(t)
      PROVE  ThreadsTyped'
  BY <1>1 DEF Boundary, NativeWait, Return, Fail, Executes, Block, Park, Goto, Pausing
<1>2. ASSUME NEW t \in Threads, NEW m \in Monitors, Enter(t, m) PROVE ThreadsTyped'
  BY <1>2 DEF Enter, Executes, Block, Goto
<1>3. ASSUME NEW t \in Threads, NEW m \in Monitors, Exit(t, m) PROVE ThreadsTyped'
  BY <1>3 DEF Exit, Executes, Continue, Goto, Told
<1>4. ASSUME NEW t \in Threads, NEW m \in Monitors, NEW b \in BOOLEAN, Wait(t, m, b)
      PROVE  ThreadsTyped'
  <2>1. CASE flag[t]
    BY <1>4, <2>1 DEF Wait, Consume
  <2>2. CASE ~flag[t]
    <3>1. depth[m] \in Nat /\ NewWait(t, depth[m], b) /\ UNCHANGED <<flag, token, alive>>
      BY <1>4, <2>2 DEF Wait, MonitorsTyped
    <3> QED
      BY <3>1 DEF NewWait
  <2> QED
    BY <2>1, <2>2
<1>5. ASSUME NEW t \in Threads, NEW m \in Monitors, NEW b \in BOOLEAN, Notify(t, m, b)
      PROVE  ThreadsTyped'
  BY <1>5 DEF Notify, Executes, Continue, Goto
<1>6. ASSUME NEW t \in Threads, Sleep(t) PROVE ThreadsTyped'
  BY <1>6 DEF Sleep, SleepOrJoin, Executes, Consume, Throw, Continue, Block, Goto
<1>7. ASSUME NEW t \in Threads, NEW u \in Threads, Join(t, u) PROVE ThreadsTyped'
  BY <1>7 DEF Join, SleepOrJoin, Executes, Consume, Throw, Continue, Block, Goto
<1>8. ASSUME NEW t \in Threads, NEW u \in Threads, Interrupt(t, u) PROVE ThreadsTyped'
  BY <1>8 DEF Interrupt, Executes, SetInterrupt, Continue, Goto
<1>9. ASSUME NEW t \in Threads, NEW u \in Threads, Start(t, u) PROVE ThreadsTyped'
  BY <1>9 DEF Start, Begin, Executes
<1>10. ASSUME NEW t \in Threads,
              LoadBarrier(t) \/ MarkParked(t) \/ TellParked(t) \/ LeavePark(t)
       PROVE  ThreadsTyped'
  BY <1>10 DEF LoadBarrier, MarkParked, Marked, TellParked, LeavePark, LetGo, Goto, Pausing
<1>11. ASSUME NEW t \in Threads, CaptureWake(t) \/ CheckBarrier(t) PROVE ThreadsTyped'
  BY <1>11 DEF CaptureWake, CheckBarrier, Park, Goto, Pausing, Entering
<1>12. ASSUME NEW t \in Threads, TryEnter(t) PROVE ThreadsTyped'
  BY <1>12 DEF TryEnter, Continue, Goto
<1>13. ASSUME NEW t \in Threads,
              SelectChanged(t) \/ SelectWake(t) \/ SelectClosed(t) \/ SelectNotification(t)
       PROVE  ThreadsTyped'
  BY <1>13
     DEF SelectChanged, SelectWake, SelectClosed, SelectNotification, Selected, Park, Goto,
         Entering
<1>14. ASSUME NEW t \in Threads, SelectTime(t) \/ SelectDone(t) \/ SelectToken(t)
       PROVE  ThreadsTyped'
  BY <1>14 DEF SelectTime, SelectDone, SelectToken, Selected, Continue, Goto, Entering
<1>15. ASSUME NEW t \in Threads, TookToken(t) PROVE ThreadsTyped'
  BY <1>15 DEF TookToken, Consume, Throw, Continue, Goto
<1>16. ASSUME NEW t \in Threads, LeaveWaiters(t) PROVE ThreadsTyped'
  BY <1>16 DEF LeaveWaiters, KeepsInterrupt, Goto
<1>17. ASSUME NEW t \in Threads, KeepInterrupt(t) PROVE ThreadsTyped'
  BY <1>17 DEF KeepInterrupt, SetInterrupt, Goto
<1>18. ASSUME NEW t \in Threads, ReturnFromWait(t) PROVE ThreadsTyped'
  BY <1>18 DEF ReturnFromWait, NewWait, SavedDepth, Throw, Continue, Goto
<1>19. ASSUME NEW t \in Threads, Unwind(t) PROVE ThreadsTyped'
  BY <1>19 DEF Unwind, Goto, Told
<1>20. ASSUME NEW t \in Threads, EndThread(t) \/ Delist(t) PROVE ThreadsTyped'
  BY <1>20 DEF EndThread, Delist, Goto
<1>21. ASSUME PauseThreads \/ Look \/ LookAgain \/ Close PROVE ThreadsTyped'
  BY <1>21 DEF PauseThreads, Look, LookAgain, Ready, Close
<1>22. ASSUME GiveUp \/ Resume PROVE ThreadsTyped'
  BY <1>22 DEF GiveUp, Resume, ResumeThreads
<1>23. ASSUME NEW u \in Threads, HostStarts(u) PROVE ThreadsTyped'
  BY <1>23 DEF HostStarts, Begin, Goto
<1>24. CASE UNCHANGED vars
  BY <1>24
<1> QED
  BY <1>1, <1>2, <1>3, <1>4, <1>5, <1>6, <1>7, <1>8, <1>9, <1>10, <1>11, <1>12, <1>13, <1>14,
     <1>15, <1>16, <1>17, <1>18, <1>19, <1>20, <1>21, <1>22, <1>23, <1>24
     DEF ThreadsStep, ThreadStep, Instruction, Parking, Blocking, Select, Ending, HostStep

\* The types of what the guest sees.
LEMMA GuestTypedKept ==
  ASSUME GuestTyped, Placed, ThreadsStep
  PROVE  GuestTyped'
<1> USE NoneIsApart DEF GuestTyped, vars, waitVars, barrierVars, monitorVars, placeVars,
                        threadVars, guestVars
<1>1. ASSUME NEW t \in Threads, Boundary(t) \/ NativeWait(t) \/ Return(t) \/ Fail(t)
      PROVE  GuestTyped'
  BY <1>1 DEF Boundary, NativeWait, Return, Fail, Executes, Block, Park, Goto, Pausing
<1>2. ASSUME NEW t \in Threads, NEW m \in Monitors, Enter(t, m) PROVE GuestTyped'
  BY <1>2 DEF Enter, Executes, Block, Goto
<1>3. ASSUME NEW t \in Threads, NEW m \in Monitors, Exit(t, m) PROVE GuestTyped'
  BY <1>3 DEF Exit, Executes, Continue, Goto, Told
<1>4. ASSUME NEW t \in Threads, NEW m \in Monitors, NEW b \in BOOLEAN, Wait(t, m, b)
      PROVE  GuestTyped'
  <2>1. UNCHANGED nest /\ (Throw(t) \/ UNCHANGED <<owed, unanswered>>)
    BY <1>4 DEF Wait
  <2> QED
    BY <2>1, ThrowTyped
<1>5. ASSUME NEW t \in Threads, NEW m \in Monitors, NEW b \in BOOLEAN, Notify(t, m, b)
      PROVE  GuestTyped'
  BY <1>5 DEF Notify, Executes, Continue, Goto
<1>6. ASSUME NEW t \in Threads, Sleep(t) PROVE GuestTyped'
  <2>1. UNCHANGED nest /\ (Throw(t) \/ UNCHANGED <<owed, unanswered>>)
    BY <1>6 DEF Sleep, SleepOrJoin
  <2> QED
    BY <2>1, ThrowTyped
<1>7. ASSUME NEW t \in Threads, NEW u \in Threads, Join(t, u) PROVE GuestTyped'
  <2>1. UNCHANGED nest /\ (Throw(t) \/ UNCHANGED <<owed, unanswered>>)
    BY <1>7 DEF Join, SleepOrJoin
  <2> QED
    BY <2>1, ThrowTyped
<1>8. ASSUME NEW t \in Threads, NEW u \in Threads, Interrupt(t, u) PROVE GuestTyped'
  BY <1>8 DEF Interrupt, Executes, SetInterrupt, Continue, Goto
<1>9. ASSUME NEW t \in Threads, NEW u \in Threads, Start(t, u) PROVE GuestTyped'
  BY <1>9 DEF Start, Begin, Executes
<1>10. ASSUME NEW t \in Threads,
              LoadBarrier(t) \/ MarkParked(t) \/ TellParked(t) \/ LeavePark(t)
       PROVE  GuestTyped'
  BY <1>10 DEF LoadBarrier, MarkParked, Marked, TellParked, LeavePark, LetGo, Goto, Pausing
<1>11. ASSUME NEW t \in Threads, CaptureWake(t) \/ CheckBarrier(t) PROVE GuestTyped'
  BY <1>11 DEF CaptureWake, CheckBarrier, Park, Goto, Pausing, Entering
<1>12. ASSUME NEW t \in Threads, TryEnter(t) PROVE GuestTyped'
  <2> DEFINE m == on[t]
  <2>1. nest' = nest \/ nest' = [nest EXCEPT ![t] = [nest[t] EXCEPT ![m] = nest[t][m] + 1]]
    BY <1>12 DEF TryEnter
  <2>2. m \in Monitors
    BY <1>12 DEF TryEnter, Placed
  <2>3. nest[t] \in [Monitors -> Nat]
    OBVIOUS
  <2>4. [nest[t] EXCEPT ![m] = nest[t][m] + 1] \in [Monitors -> Nat]
    BY <2>2, <2>3
  <2>5. nest' \in [Threads -> [Monitors -> Nat]]
    BY <2>1, <2>4
  <2> QED
    BY <1>12, <2>5 DEF TryEnter
<1>13. ASSUME NEW t \in Threads,
              SelectChanged(t) \/ SelectWake(t) \/ SelectClosed(t) \/ SelectNotification(t)
       PROVE  GuestTyped'
  BY <1>13
     DEF SelectChanged, SelectWake, SelectClosed, SelectNotification, Selected, Park, Goto,
         Entering
<1>14. ASSUME NEW t \in Threads, SelectTime(t) \/ SelectDone(t) \/ SelectToken(t)
       PROVE  GuestTyped'
  BY <1>14 DEF SelectTime, SelectDone, SelectToken, Selected, Continue, Goto, Entering
<1>15. ASSUME NEW t \in Threads, TookToken(t) PROVE GuestTyped'
  <2>1. UNCHANGED nest /\ (Throw(t) \/ UNCHANGED <<owed, unanswered>>)
    BY <1>15 DEF TookToken
  <2> QED
    BY <2>1, ThrowTyped
<1>16. ASSUME NEW t \in Threads, LeaveWaiters(t) PROVE GuestTyped'
  BY <1>16 DEF LeaveWaiters, KeepsInterrupt, Goto
<1>17. ASSUME NEW t \in Threads, KeepInterrupt(t) PROVE GuestTyped'
  BY <1>17 DEF KeepInterrupt, SetInterrupt, Goto
<1>18. ASSUME NEW t \in Threads, ReturnFromWait(t) PROVE GuestTyped'
  <2>1. UNCHANGED nest /\ (Throw(t) \/ UNCHANGED <<owed, unanswered>>)
    BY <1>18 DEF ReturnFromWait
  <2> QED
    BY <2>1, ThrowTyped
<1>19. ASSUME NEW t \in Threads, Unwind(t) PROVE GuestTyped'
  BY <1>19 DEF Unwind, Goto, Told
<1>20. ASSUME NEW t \in Threads, EndThread(t) \/ Delist(t) PROVE GuestTyped'
  BY <1>20 DEF EndThread, Delist, Goto
<1>21. ASSUME PauseThreads \/ Look \/ LookAgain \/ Close PROVE GuestTyped'
  BY <1>21 DEF PauseThreads, Look, LookAgain, Ready, Close
<1>22. ASSUME GiveUp \/ Resume PROVE GuestTyped'
  BY <1>22 DEF GiveUp, Resume, ResumeThreads
<1>23. ASSUME NEW u \in Threads, HostStarts(u) PROVE GuestTyped'
  BY <1>23 DEF HostStarts, Begin, Goto
<1>24. CASE UNCHANGED vars
  BY <1>24
<1> QED
  BY <1>1, <1>2, <1>3, <1>4, <1>5, <1>6, <1>7, <1>8, <1>9, <1>10, <1>11, <1>12, <1>13, <1>14,
     <1>15, <1>16, <1>17, <1>18, <1>19, <1>20, <1>21, <1>22, <1>23, <1>24
     DEF ThreadsStep, ThreadStep, Instruction, Parking, Blocking, Select, Ending, HostStep

\* A place goes with the operation the thread is in.
LEMMA PlacedKept ==
  ASSUME PlacesTyped, Placed, ThreadsStep
  PROVE  Placed'
<1> USE NoneIsApart DEF PlacesTyped, Placed, Blocked, InPark, Kinds, vars, waitVars,
                        barrierVars, monitorVars, placeVars, threadVars, guestVars
<1>1. ASSUME NEW t \in Threads, Boundary(t) \/ NativeWait(t) \/ Return(t) \/ Fail(t)
      PROVE  Placed'
  BY <1>1 DEF Boundary, NativeWait, Return, Fail, Executes, Block, Park, Goto, Pausing
<1>2. ASSUME NEW t \in Threads, NEW m \in Monitors, Enter(t, m) PROVE Placed'
  BY <1>2 DEF Enter, Executes, Block, Goto
<1>3. ASSUME NEW t \in Threads, NEW m \in Monitors, Exit(t, m) PROVE Placed'
  BY <1>3 DEF Exit, Executes, Continue, Goto, Told
<1>4. ASSUME NEW t \in Threads, NEW m \in Monitors, NEW b \in BOOLEAN, Wait(t, m, b)
      PROVE  Placed'
  BY <1>4 DEF Wait, NewWait, Executes, Consume, Throw, Continue, Block, Goto, Told
<1>5. ASSUME NEW t \in Threads, NEW m \in Monitors, NEW b \in BOOLEAN, Notify(t, m, b)
      PROVE  Placed'
  BY <1>5 DEF Notify, Executes, Continue, Goto
<1>6. ASSUME NEW t \in Threads, Sleep(t) PROVE Placed'
  BY <1>6 DEF Sleep, SleepOrJoin, Executes, Consume, Throw, Continue, Block, Goto
<1>7. ASSUME NEW t \in Threads, NEW u \in Threads, Join(t, u) PROVE Placed'
  BY <1>7 DEF Join, SleepOrJoin, Executes, Consume, Throw, Continue, Block, Goto
<1>8. ASSUME NEW t \in Threads, NEW u \in Threads, Interrupt(t, u) PROVE Placed'
  BY <1>8 DEF Interrupt, Executes, SetInterrupt, Continue, Goto
<1>9. ASSUME NEW t \in Threads, NEW u \in Threads, Start(t, u) PROVE Placed'
  BY <1>9 DEF Start, Begin, Executes
<1>10. ASSUME NEW t \in Threads,
              LoadBarrier(t) \/ MarkParked(t) \/ TellParked(t) \/ LeavePark(t)
       PROVE  Placed'
  BY <1>10 DEF LoadBarrier, MarkParked, Marked, TellParked, LeavePark, LetGo, Goto, Pausing
<1>11. ASSUME NEW t \in Threads, CaptureWake(t) \/ CheckBarrier(t) PROVE Placed'
  BY <1>11 DEF CaptureWake, CheckBarrier, Park, Goto, Pausing, Entering
<1>12. ASSUME NEW t \in Threads, TryEnter(t) PROVE Placed'
  BY <1>12 DEF TryEnter, Continue, Goto
<1>13. ASSUME NEW t \in Threads,
              SelectChanged(t) \/ SelectWake(t) \/ SelectClosed(t) \/ SelectNotification(t)
       PROVE  Placed'
  BY <1>13
     DEF SelectChanged, SelectWake, SelectClosed, SelectNotification, Selected, Park, Goto,
         Entering
<1>14. ASSUME NEW t \in Threads, SelectTime(t) \/ SelectDone(t) \/ SelectToken(t)
       PROVE  Placed'
  BY <1>14 DEF SelectTime, SelectDone, SelectToken, Selected, Continue, Goto, Entering
<1>15. ASSUME NEW t \in Threads, TookToken(t) PROVE Placed'
  BY <1>15 DEF TookToken, Consume, Throw, Continue, Goto
<1>16. ASSUME NEW t \in Threads, LeaveWaiters(t) PROVE Placed'
  BY <1>16 DEF LeaveWaiters, KeepsInterrupt, Goto
<1>17. ASSUME NEW t \in Threads, KeepInterrupt(t) PROVE Placed'
  BY <1>17 DEF KeepInterrupt, SetInterrupt, Goto
<1>18. ASSUME NEW t \in Threads, ReturnFromWait(t) PROVE Placed'
  BY <1>18 DEF ReturnFromWait, NewWait, SavedDepth, Throw, Continue, Goto
<1>19. ASSUME NEW t \in Threads, Unwind(t) PROVE Placed'
  BY <1>19 DEF Unwind, Goto, Told
<1>20. ASSUME NEW t \in Threads, EndThread(t) \/ Delist(t) PROVE Placed'
  BY <1>20 DEF EndThread, Delist, Goto
<1>21. ASSUME PauseThreads \/ Look \/ LookAgain \/ Close PROVE Placed'
  BY <1>21 DEF PauseThreads, Look, LookAgain, Ready, Close
<1>22. ASSUME GiveUp \/ Resume PROVE Placed'
  BY <1>22 DEF GiveUp, Resume, ResumeThreads
<1>23. ASSUME NEW u \in Threads, HostStarts(u) PROVE Placed'
  BY <1>23 DEF HostStarts, Begin, Goto
<1>24. CASE UNCHANGED vars
  BY <1>24
<1> QED
  BY SMTT(60), <1>1, <1>2, <1>3, <1>4, <1>5, <1>6, <1>7, <1>8, <1>9, <1>10, <1>11, <1>12, <1>13, <1>14,
     <1>15, <1>16, <1>17, <1>18, <1>19, <1>20, <1>21, <1>22, <1>23, <1>24
     DEF ThreadsStep, ThreadStep, Instruction, Parking, Blocking, Select, Ending, HostStep

\* A monitor's owner is as deep as its guest entered it, or as the wait saved.
LEMMA OwnedKept ==
  ASSUME MonitorsTyped, PlacesTyped, ThreadsTyped, GuestTyped, Placed, Owned, ThreadsStep
  PROVE  Owned'
<1> USE NoneIsApart DEF MonitorsTyped, PlacesTyped, ThreadsTyped, GuestTyped, Placed, Owned,
                        OwnedAt, Released, Kinds, Blocked, InPark, vars, waitVars, barrierVars,
                        monitorVars, placeVars, threadVars, guestVars
<1>1. ASSUME NEW t \in Threads, Boundary(t) \/ NativeWait(t) \/ Return(t) \/ Fail(t)
      PROVE  Owned'
  BY <1>1 DEF Boundary, NativeWait, Return, Fail, Executes, Block, Park, Goto, Pausing
<1>2. ASSUME NEW t \in Threads, NEW m \in Monitors, Enter(t, m) PROVE Owned'
  BY <1>2 DEF Enter, Executes, Block, Goto
<1>3. ASSUME NEW t \in Threads, NEW m \in Monitors, Exit(t, m) PROVE Owned'
  <2> SUFFICES ASSUME NEW v \in Threads, NEW n \in Monitors
               PROVE  (owner'[n] = None <=> depth'[n] = 0) /\ OwnedAt(v, n)'
    BY DEF Owned
  <2>1. /\ kind[t] = None /\ on[t] = None /\ pc[t] = "step"
        /\ owner[m] = t /\ depth[m] = nest[t][m] /\ depth[m] > 0
    BY <1>3 DEF Exit, Executes
  <2>2. \A x \in Threads, y \in Monitors :
          nest'[x][y] = IF x = t /\ y = m THEN nest[t][m] - 1 ELSE nest[x][y]
    <3>1. nest' = [nest EXCEPT ![t] = [nest[t] EXCEPT ![m] = nest[t][m] - 1]]
      BY <1>3 DEF Exit
    <3>2. /\ nest'[t] = [nest[t] EXCEPT ![m] = nest[t][m] - 1]
         /\ \A x \in Threads : x # t => nest'[x] = nest[x]
      BY <3>1
    <3>3. nest[t] \in [Monitors -> Nat]
      OBVIOUS
    <3>4. \A y \in Monitors : nest'[t][y] = IF y = m THEN nest[t][m] - 1 ELSE nest[t][y]
      BY <3>2, <3>3
    <3> SUFFICES ASSUME NEW x \in Threads, NEW y \in Monitors
                 PROVE  nest'[x][y] = IF x = t /\ y = m THEN nest[t][m] - 1 ELSE nest[x][y]
      OBVIOUS
    <3>5. CASE x = t
      BY <3>4, <3>5
    <3>6. CASE x # t
      BY <3>2, <3>6
    <3> QED
      BY <3>5, <3>6
  <2>3. \A y \in Monitors :
          /\ depth'[y] = IF y = m THEN depth[m] - 1 ELSE depth[y]
          /\ owner'[y] = IF y = m /\ depth[m] = 1 THEN None ELSE owner[y]
    BY <1>3, SMTT(30) DEF Exit
  <2>4. Continue(t) /\ UNCHANGED savedDepth
    BY <1>3 DEF Exit
  <2>5. /\ \A x \in Threads : x # t => pc'[x] = pc[x] /\ kind'[x] = kind[x] /\ on'[x] = on[x]
        /\ pc'[t] = "boundary" /\ kind'[t] = None
    BY <2>4 DEF Continue, Goto
  <2>6. OwnedAt(v, n) /\ OwnedAt(t, m) /\ (owner[n] = None <=> depth[n] = 0)
    BY DEF Owned
  <2>7. nest[v][n] \in Nat /\ depth[n] \in Nat
    OBVIOUS
  <2> HIDE DEF Owned
  <2>8. CASE v = t /\ n = m
    BY <2>1, <2>2, <2>3, <2>5, <2>6, <2>7, <2>8
  <2>9. CASE v = t /\ n # m
    BY <2>1, <2>2, <2>3, <2>4, <2>5, <2>6, <2>9, SMTT(30)
  <2>10. CASE v # t /\ n = m
    BY <2>1, <2>2, <2>3, <2>4, <2>5, <2>6, <2>10
  <2>11. CASE v # t /\ n # m
    <3>1. owner'[n] = owner[n] /\ depth'[n] = depth[n] /\ nest'[v][n] = nest[v][n]
      BY <2>2, <2>3, <2>11
    <3> QED
      BY <2>4, <2>5, <2>6, <2>11, <3>1, SMTT(30)
  <2> QED
    BY <2>8, <2>9, <2>10, <2>11
<1>4. ASSUME NEW t \in Threads, NEW m \in Monitors, NEW b \in BOOLEAN, Wait(t, m, b)
      PROVE  Owned'
  <2>0. /\ kind[t] = None /\ on[t] = None /\ pc[t] = "step"
        /\ owner[m] = t /\ depth[m] = nest[t][m] /\ depth[m] > 0 /\ UNCHANGED nest
    BY <1>4 DEF Wait, Executes
  <2>1. CASE flag[t]
    <3>1. Continue(t) /\ UNCHANGED <<owner, depth, savedDepth>>
      BY <1>4, <2>1 DEF Wait
    <3> QED
      BY <2>0, <3>1 DEF Continue, Goto
  <2>2. CASE ~flag[t]
    <3>1. \A n \in Monitors :
            /\ depth'[n] = IF n = m THEN 0 ELSE depth[n]
            /\ owner'[n] = IF n = m THEN None ELSE owner[n]
      BY <1>4, <2>2 DEF Wait
    <3>2. Block(t, "wait", m) /\ savedDepth' = [savedDepth EXCEPT ![t] = depth[m]]
      BY <1>4, <2>2 DEF Wait, NewWait
    <3> QED
      BY <2>0, <3>1, <3>2, SMTT(30) DEF Block, Goto
  <2> QED
    BY <2>1, <2>2
<1>5. ASSUME NEW t \in Threads, NEW m \in Monitors, NEW b \in BOOLEAN, Notify(t, m, b)
      PROVE  Owned'
  BY <1>5 DEF Notify, Executes, Continue, Goto
<1>6. ASSUME NEW t \in Threads, Sleep(t) PROVE Owned'
  BY <1>6 DEF Sleep, SleepOrJoin, Executes, Consume, Throw, Continue, Block, Goto
<1>7. ASSUME NEW t \in Threads, NEW u \in Threads, Join(t, u) PROVE Owned'
  <2>1. CASE flag[t]
    BY <1>7, <2>1 DEF Join, SleepOrJoin, Executes, Consume, Throw, Continue, Block, Goto
  <2>2. CASE ~flag[t]
    BY <1>7, <2>2 DEF Join, SleepOrJoin, Executes, Consume, Throw, Continue, Block, Goto
  <2> QED
    BY <2>1, <2>2
<1>8. ASSUME NEW t \in Threads, NEW u \in Threads, Interrupt(t, u) PROVE Owned'
  BY <1>8 DEF Interrupt, Executes, SetInterrupt, Continue, Goto
<1>9. ASSUME NEW t \in Threads, NEW u \in Threads, Start(t, u) PROVE Owned'
  BY <1>9 DEF Start, Begin, Executes
<1>10. ASSUME NEW t \in Threads,
              LoadBarrier(t) \/ MarkParked(t) \/ TellParked(t) \/ LeavePark(t)
       PROVE  Owned'
  BY <1>10 DEF LoadBarrier, MarkParked, Marked, TellParked, LeavePark, LetGo, Goto, Pausing
<1>11. ASSUME NEW t \in Threads, CaptureWake(t) \/ CheckBarrier(t) PROVE Owned'
  BY <1>11 DEF CaptureWake, CheckBarrier, Park, Goto, Pausing, Entering
<1>12. ASSUME NEW t \in Threads, TryEnter(t) PROVE Owned'
  <2> SUFFICES ASSUME NEW v \in Threads, NEW n \in Monitors
               PROVE  (owner'[n] = None <=> depth'[n] = 0) /\ OwnedAt(v, n)'
    BY DEF Owned
  <2> DEFINE m == on[t]
  <2>0. /\ pc[t] = "try" /\ kind[t] \in {"enter", "again"} /\ m \in Monitors
        /\ UNCHANGED savedDepth
    BY <1>12 DEF TryEnter
  <2>1. CASE owner[m] \notin {None, t}
    <3>1. Goto(t, "select") /\ UNCHANGED <<owner, depth, kind, on, nest>>
      BY <1>12, <2>1 DEF TryEnter
    <3> QED
      BY <2>0, <3>1 DEF Goto
  <2>2. CASE owner[m] \in {None, t} /\ kind[t] = "enter"
    <3>1. \A y \in Monitors :
            /\ depth'[y] = IF y = m THEN depth[m] + 1 ELSE depth[y]
            /\ owner'[y] = IF y = m THEN t ELSE owner[y]
      BY <1>12, <2>2, SMTT(30) DEF TryEnter
    <3>2. \A x \in Threads, y \in Monitors :
            nest'[x][y] = IF x = t /\ y = m THEN nest[t][m] + 1 ELSE nest[x][y]
      <4>1. nest' = [nest EXCEPT ![t] = [nest[t] EXCEPT ![m] = nest[t][m] + 1]]
        BY <1>12, <2>2 DEF TryEnter
      <4>2. /\ nest'[t] = [nest[t] EXCEPT ![m] = nest[t][m] + 1]
           /\ \A x \in Threads : x # t => nest'[x] = nest[x]
        BY <4>1
      <4>3. nest[t] \in [Monitors -> Nat]
        OBVIOUS
      <4>4. \A y \in Monitors : nest'[t][y] = IF y = m THEN nest[t][m] + 1 ELSE nest[t][y]
        BY <4>2, <4>3
      <4> SUFFICES ASSUME NEW x \in Threads, NEW y \in Monitors
                   PROVE  nest'[x][y] = IF x = t /\ y = m THEN nest[t][m] + 1 ELSE nest[x][y]
        OBVIOUS
      <4>5. CASE x = t
        BY <4>4, <4>5
      <4>6. CASE x # t
        BY <4>2, <4>6
      <4> QED
        BY <4>5, <4>6
    <3>3. Continue(t)
      BY <1>12, <2>2 DEF TryEnter
    <3>4. depth[m] = nest[t][m]
      <4>1. ~Released(t, m)
        BY <2>2 DEF Released
      <4>2. CASE owner[m] = t
        BY <2>0, <4>2 DEF Owned
      <4>3. CASE owner[m] = None
        BY <2>0, <4>1, <4>3 DEF Owned
      <4> QED
        BY <2>2, <4>2, <4>3
    <3>5. /\ \A x \in Threads : x # t => pc'[x] = pc[x] /\ kind'[x] = kind[x] /\ on'[x] = on[x]
          /\ pc'[t] = "boundary" /\ kind'[t] = None
      BY <3>3 DEF Continue, Goto
    <3>6. CASE v = t /\ n = m
      BY <2>0, <2>2, <3>1, <3>2, <3>4, <3>5, <3>6
    <3>7. CASE v = t /\ n # m
      <4>1. owner'[n] = owner[n] /\ depth'[n] = depth[n] /\ nest'[v][n] = nest[v][n]
        BY <3>1, <3>2, <3>7
      <4>2. OwnedAt(v, n) /\ (owner[n] = None <=> depth[n] = 0)
        BY DEF Owned
      <4> QED
        BY <2>0, <2>2, <3>5, <3>7, <4>1, <4>2
    <3>8. CASE v # t /\ n = m
      BY <2>0, <2>2, <3>1, <3>2, <3>5, <3>8
    <3>9. CASE v # t /\ n # m
      <4>1. owner'[n] = owner[n] /\ depth'[n] = depth[n] /\ nest'[v][n] = nest[v][n]
        BY <3>1, <3>2, <3>9
      <4>2. OwnedAt(v, n) /\ (owner[n] = None <=> depth[n] = 0)
        BY DEF Owned
      <4> QED
        BY <2>0, <3>5, <3>9, <4>1, <4>2, SMTT(30)
    <3> QED
      BY <3>6, <3>7, <3>8, <3>9
  <2>3. CASE owner[m] \in {None, t} /\ kind[t] = "again"
    <3>1. \A y \in Monitors :
            /\ depth'[y] = IF y = m THEN depth[m] + 1 ELSE depth[y]
            /\ owner'[y] = IF y = m THEN t ELSE owner[y]
      BY <1>12, <2>3 DEF TryEnter
    <3>2. Goto(t, "redepth") /\ UNCHANGED <<kind, on, nest>>
      BY <1>12, <2>3 DEF TryEnter
    <3>3. owner[m] = None /\ depth[m] = 0
      BY <2>0, <2>3
    <3>5. /\ \A x \in Threads : x # t => pc'[x] = pc[x] /\ kind'[x] = kind[x] /\ on'[x] = on[x]
          /\ pc'[t] = "redepth" /\ kind'[t] = "again" /\ on'[t] = m
      BY <2>3, <3>2 DEF Goto
    <3>6. CASE v = t /\ n = m
      BY <2>0, <2>3, <3>1, <3>2, <3>3, <3>5, <3>6
    <3>7. CASE v = t /\ n # m
      <4>1. owner'[n] = owner[n] /\ depth'[n] = depth[n] /\ nest'[v][n] = nest[v][n]
        BY <3>1, <3>2, <3>7
      <4>2. OwnedAt(v, n) /\ (owner[n] = None <=> depth[n] = 0)
        BY DEF Owned
      <4> QED
        BY <2>0, <2>3, <3>5, <3>7, <4>1, <4>2
    <3>8. CASE v # t /\ n = m
      BY <2>0, <2>3, <3>1, <3>2, <3>3, <3>5, <3>8
    <3>9. CASE v # t /\ n # m
      <4>1. owner'[n] = owner[n] /\ depth'[n] = depth[n] /\ nest'[v][n] = nest[v][n]
        BY <3>1, <3>2, <3>9
      <4>2. OwnedAt(v, n) /\ (owner[n] = None <=> depth[n] = 0)
        BY DEF Owned
      <4> QED
        BY <2>0, <3>5, <3>9, <4>1, <4>2, SMTT(30)
    <3> QED
      BY <3>6, <3>7, <3>8, <3>9
  <2> QED
    BY <2>0, <2>1, <2>2, <2>3
<1>13. ASSUME NEW t \in Threads,
              SelectChanged(t) \/ SelectWake(t) \/ SelectClosed(t) \/ SelectNotification(t)
       PROVE  Owned'
  BY <1>13, SMTT(30)
     DEF SelectChanged, SelectWake, SelectClosed, SelectNotification, Selected, Park, Goto,
         Entering
<1>14. ASSUME NEW t \in Threads, SelectTime(t) PROVE Owned'
  <2>1. UNCHANGED <<owner, depth, nest, savedDepth>> /\ pc[t] = "select"
    BY <1>14 DEF SelectTime, Selected
  <2>2. CASE kind[t] = "wait" /\ Goto(t, "leave") /\ UNCHANGED <<kind, on>>
    BY <2>1, <2>2 DEF Goto
  <2>3. CASE kind[t] \in {"sleep", "native"} /\ Continue(t)
    BY <2>1, <2>3 DEF Continue, Goto
  <2> QED
    BY <1>14, <2>2, <2>3 DEF SelectTime
<1>15. ASSUME NEW t \in Threads, SelectDone(t) PROVE Owned'
  BY <1>15 DEF SelectTime, SelectDone, SelectToken, Selected, Continue, Goto, Entering
<1>16. ASSUME NEW t \in Threads, SelectToken(t) PROVE Owned'
  <2>1. UNCHANGED <<owner, depth, nest, savedDepth>> /\ pc[t] = "select"
    BY <1>16 DEF SelectToken, Selected
  <2>2. CASE kind[t] = "native" /\ Continue(t)
    BY <2>1, <2>2 DEF Continue, Goto
  <2>3. CASE kind[t] # "native" /\ Goto(t, "took") /\ UNCHANGED <<kind, on>>
    BY <2>1, <2>3 DEF Goto
  <2> QED
    BY <1>16, <2>2, <2>3 DEF SelectToken
<1>17. ASSUME NEW t \in Threads, TookToken(t) PROVE Owned'
  BY <1>17, SMTT(30) DEF TookToken, Consume, Throw, Continue, Goto
<1>18. ASSUME NEW t \in Threads, LeaveWaiters(t) PROVE Owned'
  BY <1>18 DEF LeaveWaiters, KeepsInterrupt, Goto
<1>19. ASSUME NEW t \in Threads, KeepInterrupt(t) PROVE Owned'
  BY <1>19 DEF KeepInterrupt, SetInterrupt, Goto
<1>20. ASSUME NEW t \in Threads, ReturnFromWait(t) PROVE Owned'
  BY <1>20 DEF ReturnFromWait, NewWait, SavedDepth, Throw, Continue, Goto
<1>21. ASSUME NEW t \in Threads, Unwind(t) PROVE Owned'
  BY <1>21 DEF Unwind, Goto, Told
<1>22. ASSUME NEW t \in Threads, EndThread(t) \/ Delist(t) PROVE Owned'
  BY <1>22 DEF EndThread, Delist, Goto
<1>23. ASSUME PauseThreads \/ Look \/ LookAgain \/ Close PROVE Owned'
  BY <1>23 DEF PauseThreads, Look, LookAgain, Ready, Close
<1>24. ASSUME GiveUp \/ Resume PROVE Owned'
  BY <1>24 DEF GiveUp, Resume, ResumeThreads
<1>25. ASSUME NEW u \in Threads, HostStarts(u) PROVE Owned'
  BY <1>25 DEF HostStarts, Begin, Goto
<1>26. CASE UNCHANGED vars
  BY <1>26
<1> QED
  BY SMTT(60), <1>1, <1>2, <1>3, <1>4, <1>5, <1>6, <1>7, <1>8, <1>9, <1>10, <1>11, <1>12, <1>13, <1>14,
     <1>15, <1>16, <1>17, <1>18, <1>19, <1>20, <1>21, <1>22, <1>23, <1>24, <1>25, <1>26
     DEF ThreadsStep, ThreadStep, Instruction, Parking, Blocking, Select, Ending, HostStep

\* Whoever frees a monitor closes the channel its sleepers captured.
LEMMA NobodySleepsAtAFreeMonitorKept ==
  ASSUME MonitorsTyped, PlacesTyped, Placed, NobodySleepsAtAFreeMonitor, ThreadsStep
  PROVE  NobodySleepsAtAFreeMonitor'
<1> USE NoneIsApart DEF MonitorsTyped, PlacesTyped, Placed, NobodySleepsAtAFreeMonitor,
                        Entering, Told, Kinds, Blocked, InPark, vars, waitVars, barrierVars,
                        monitorVars, placeVars, threadVars, guestVars
<1>1. ASSUME NEW t \in Threads, Boundary(t) \/ NativeWait(t) \/ Return(t) \/ Fail(t)
      PROVE  NobodySleepsAtAFreeMonitor'
  BY <1>1 DEF Boundary, NativeWait, Return, Fail, Executes, Block, Park, Goto, Pausing
<1>2. ASSUME NEW t \in Threads, NEW m \in Monitors, Enter(t, m)
      PROVE  NobodySleepsAtAFreeMonitor'
  BY <1>2 DEF Enter, Executes, Block, Goto
<1>3. ASSUME NEW t \in Threads, NEW m \in Monitors, Exit(t, m)
      PROVE  NobodySleepsAtAFreeMonitor'
  BY <1>3 DEF Exit, Executes, Continue, Goto
<1>4. ASSUME NEW t \in Threads, NEW m \in Monitors, NEW b \in BOOLEAN, Wait(t, m, b)
      PROVE  NobodySleepsAtAFreeMonitor'
  <2>1. CASE flag[t]
    <3>1. Continue(t) /\ UNCHANGED <<owner, changed>>
      BY <1>4, <2>1 DEF Wait
    <3> QED
      BY <3>1 DEF Continue, Goto
  <2>2. CASE ~flag[t]
    <3>1. /\ owner' = [owner EXCEPT ![m] = None] /\ changed' = Told(m)
          /\ Block(t, "wait", m)
      BY <1>4, <2>2 DEF Wait
    <3> QED
      BY <3>1 DEF Block, Goto
  <2> QED
    BY <2>1, <2>2
<1>5. ASSUME NEW t \in Threads, NEW m \in Monitors, NEW b \in BOOLEAN, Notify(t, m, b)
      PROVE  NobodySleepsAtAFreeMonitor'
  BY <1>5 DEF Notify, Executes, Continue, Goto
<1>6. ASSUME NEW t \in Threads, Sleep(t) PROVE NobodySleepsAtAFreeMonitor'
  <2> SUFFICES ASSUME NEW v \in Threads, pc'[v] = "select", Entering(v)', owner'[on'[v]] = None
               PROVE  changed'[v]
    OBVIOUS
  <2>1. (Continue(t) \/ Block(t, "sleep", None)) /\ UNCHANGED <<owner, changed>>
    BY <1>6 DEF Sleep, SleepOrJoin
  <2>2. v # t /\ pc[v] = "select" /\ Entering(v) /\ on'[v] = on[v]
    BY <2>1 DEF Continue, Block, Goto
  <2> QED
    BY <2>1, <2>2
<1>7. ASSUME NEW t \in Threads, NEW u \in Threads, Join(t, u)
      PROVE  NobodySleepsAtAFreeMonitor'
  <2> SUFFICES ASSUME NEW v \in Threads, pc'[v] = "select", Entering(v)', owner'[on'[v]] = None
               PROVE  changed'[v]
    OBVIOUS
  <2>1. (Continue(t) \/ Block(t, "join", u)) /\ UNCHANGED <<owner, changed>>
    BY <1>7 DEF Join, SleepOrJoin
  <2>2. v # t /\ pc[v] = "select" /\ Entering(v) /\ on'[v] = on[v]
    BY <2>1 DEF Continue, Block, Goto
  <2> QED
    BY <2>1, <2>2
<1>8. ASSUME NEW t \in Threads, NEW u \in Threads, Interrupt(t, u)
      PROVE  NobodySleepsAtAFreeMonitor'
  BY <1>8 DEF Interrupt, Executes, SetInterrupt, Continue, Goto
<1>9. ASSUME NEW t \in Threads, NEW u \in Threads, Start(t, u)
      PROVE  NobodySleepsAtAFreeMonitor'
  BY <1>9 DEF Start, Begin, Executes
<1>10. ASSUME NEW t \in Threads,
              LoadBarrier(t) \/ MarkParked(t) \/ TellParked(t) \/ LeavePark(t)
       PROVE  NobodySleepsAtAFreeMonitor'
  BY <1>10 DEF LoadBarrier, MarkParked, Marked, TellParked, LeavePark, LetGo, Goto, Pausing
<1>11. ASSUME NEW t \in Threads, CaptureWake(t) \/ CheckBarrier(t)
       PROVE  NobodySleepsAtAFreeMonitor'
  BY <1>11 DEF CaptureWake, CheckBarrier, Park, Goto, Pausing
<1>12. ASSUME NEW t \in Threads, TryEnter(t) PROVE NobodySleepsAtAFreeMonitor'
  <2> SUFFICES ASSUME NEW v \in Threads, pc'[v] = "select", Entering(v)', owner'[on'[v]] = None
               PROVE  changed'[v]
    OBVIOUS
  <2>1. pc[t] = "try" /\ on[t] \in Monitors
    BY <1>12 DEF TryEnter
  <2>2. CASE owner[on[t]] \in {None, t}
    <3>1. /\ owner' = [owner EXCEPT ![on[t]] = t] /\ UNCHANGED changed
          /\ Continue(t) \/ (Goto(t, "redepth") /\ UNCHANGED <<kind, on>>)
      BY <1>12, <2>2 DEF TryEnter
    <3>2. v # t /\ pc[v] = "select" /\ Entering(v) /\ on'[v] = on[v]
      BY <3>1 DEF Continue, Goto
    <3>3. owner[on[v]] = None
      BY <2>1, <3>1, <3>2
    <3> QED
      BY <3>1, <3>2, <3>3
  <2>3. CASE owner[on[t]] \notin {None, t}
    <3>1. /\ Goto(t, "select") /\ changed' = [changed EXCEPT ![t] = FALSE]
          /\ UNCHANGED <<owner, kind, on>>
      BY <1>12, <2>3 DEF TryEnter
    <3> QED
      BY <2>1, <2>3, <3>1 DEF Goto
  <2> QED
    BY <2>2, <2>3
<1>13. ASSUME NEW t \in Threads, SelectChanged(t) PROVE NobodySleepsAtAFreeMonitor'
  BY <1>13 DEF SelectChanged, SelectWake, SelectClosed, SelectNotification, Selected, Park, Goto
<1>14. ASSUME NEW t \in Threads, SelectWake(t) PROVE NobodySleepsAtAFreeMonitor'
  BY <1>14 DEF SelectChanged, SelectWake, SelectClosed, SelectNotification, Selected, Park, Goto
<1>15. ASSUME NEW t \in Threads, SelectClosed(t) PROVE NobodySleepsAtAFreeMonitor'
  BY <1>15 DEF SelectChanged, SelectWake, SelectClosed, SelectNotification, Selected, Park, Goto
<1>16. ASSUME NEW t \in Threads, SelectNotification(t) PROVE NobodySleepsAtAFreeMonitor'
  BY <1>16 DEF SelectChanged, SelectWake, SelectClosed, SelectNotification, Selected, Park, Goto
<1>17. ASSUME NEW t \in Threads, SelectTime(t) \/ SelectDone(t) \/ SelectToken(t)
       PROVE  NobodySleepsAtAFreeMonitor'
  BY <1>17 DEF SelectTime, SelectDone, SelectToken, Selected, Continue, Goto
<1>18. ASSUME NEW t \in Threads, TookToken(t) PROVE NobodySleepsAtAFreeMonitor'
  BY <1>18 DEF TookToken, Consume, Throw, Continue, Goto
<1>19. ASSUME NEW t \in Threads, LeaveWaiters(t) PROVE NobodySleepsAtAFreeMonitor'
  BY <1>19 DEF LeaveWaiters, KeepsInterrupt, Goto
<1>20. ASSUME NEW t \in Threads, KeepInterrupt(t) PROVE NobodySleepsAtAFreeMonitor'
  BY <1>20 DEF KeepInterrupt, SetInterrupt, Goto
<1>21. ASSUME NEW t \in Threads, ReturnFromWait(t) PROVE NobodySleepsAtAFreeMonitor'
  BY <1>21 DEF ReturnFromWait, NewWait, SavedDepth, Throw, Continue, Goto
<1>22. ASSUME NEW t \in Threads, Unwind(t) PROVE NobodySleepsAtAFreeMonitor'
  <2>1. /\ Goto(t, "ending") /\ kind' = [kind EXCEPT ![t] = None] /\ on' = [on EXCEPT ![t] = None]
    BY <1>22 DEF Unwind
  <2>2. PICK left \in [{m \in Monitors : owner[m] = t} -> 0..program.depth] :
          LET over == {m \in DOMAIN left : left[m] = 0}
          IN /\ owner' = [m \in Monitors |-> IF m \in over THEN None ELSE owner[m]]
             /\ changed' = [u \in Threads |-> changed[u] \/ \E m \in over : Told(m)[u]]
    BY <1>22 DEF Unwind
  <2> DEFINE over == {m \in DOMAIN left : left[m] = 0}
  <2>3. over \subseteq Monitors
    OBVIOUS
  <2> SUFFICES ASSUME NEW u \in Threads, pc'[u] = "select", Entering(u)', owner'[on'[u]] = None
               PROVE  changed'[u]
    OBVIOUS
  <2>4. /\ u # t /\ pc[u] = "select" /\ kind[u] \in {"enter", "again"} /\ on[u] \in Monitors
        /\ on'[u] = on[u]
    BY <2>1 DEF Goto
  <2>5. CASE on[u] \in over
    BY <2>2, <2>4, <2>5 DEF Told
  <2>6. CASE on[u] \notin over
    <3>1. owner[on[u]] = None
      BY <2>2, <2>4, <2>6
    <3> QED
      BY <2>2, <2>4, <3>1
  <2> QED
    BY <2>5, <2>6
<1>23. ASSUME NEW t \in Threads, EndThread(t) \/ Delist(t)
       PROVE  NobodySleepsAtAFreeMonitor'
  BY <1>23 DEF EndThread, Delist, Goto
<1>24. ASSUME PauseThreads \/ Look \/ LookAgain \/ Close PROVE NobodySleepsAtAFreeMonitor'
  BY <1>24 DEF PauseThreads, Look, LookAgain, Ready, Close
<1>25. ASSUME GiveUp \/ Resume PROVE NobodySleepsAtAFreeMonitor'
  BY <1>25 DEF GiveUp, Resume, ResumeThreads
<1>26. ASSUME NEW u \in Threads, HostStarts(u) PROVE NobodySleepsAtAFreeMonitor'
  BY <1>26 DEF HostStarts, Begin, Goto
<1>27. CASE UNCHANGED vars
  BY <1>27
<1> QED
  BY <1>1, <1>2, <1>3, <1>4, <1>5, <1>6, <1>7, <1>8, <1>9, <1>10, <1>11, <1>12, <1>13, <1>14,
     <1>15, <1>16, <1>17, <1>18, <1>19, <1>20, <1>21, <1>22, <1>23, <1>24, <1>25, <1>26, <1>27
     DEF ThreadsStep, ThreadStep, Instruction, Parking, Blocking, Select, Ending, HostStep

\* A wait that is over knows why.
LEMMA ReasonedKept ==
  ASSUME MonitorsTyped, PlacesTyped, ThreadsTyped, Placed, Queued, Reasoned, ThreadsStep
  PROVE  Reasoned'
<1> USE NoneIsApart DEF PlacesTyped, ThreadsTyped, Placed, Reasoned, Kinds, Blocked, InPark,
                        Dead, vars, waitVars, barrierVars, monitorVars, placeVars, threadVars,
                        guestVars
<1>1. ASSUME NEW t \in Threads, Boundary(t) \/ NativeWait(t) \/ Return(t) \/ Fail(t)
      PROVE  Reasoned'
  BY <1>1 DEF Boundary, NativeWait, Return, Fail, Executes, Block, Park, Goto, Pausing
<1>2. ASSUME NEW t \in Threads, NEW m \in Monitors, Enter(t, m) PROVE Reasoned'
  BY <1>2 DEF Enter, Executes, Block, Goto
<1>3. ASSUME NEW t \in Threads, NEW m \in Monitors, Exit(t, m) PROVE Reasoned'
  BY <1>3 DEF Exit, Executes, Continue, Goto, Told
<1>4. ASSUME NEW t \in Threads, NEW m \in Monitors, NEW b \in BOOLEAN, Wait(t, m, b)
      PROVE  Reasoned'
  <2>0. pc[t] = "step" /\ kind[t] = None
    BY <1>4 DEF Wait, Executes
  <2>1. CASE flag[t]
    <3>1. Continue(t) /\ UNCHANGED waitVars
      BY <1>4, <2>1 DEF Wait
    <3> QED
      BY <2>0, <3>1 DEF Continue, Goto
  <2>2. CASE ~flag[t]
    <3>1. Block(t, "wait", m) /\ NewWait(t, depth[m], b)
      BY <1>4, <2>2 DEF Wait
    <3> QED
      BY <2>0, <3>1 DEF Block, Goto, NewWait
  <2> QED
    BY <2>1, <2>2
<1>5. ASSUME NEW t \in Threads, NEW m \in Monitors, NEW b \in BOOLEAN, Notify(t, m, b)
      PROVE  Reasoned'
  <2>1. pc[t] = "step" /\ kind[t] = None /\ Continue(t) /\ UNCHANGED <<timed, interrupted>>
    BY <1>5 DEF Notify, Executes
  <2>2. PICK n \in 0..Len(waiters[m]) :
          \A u \in Threads : notified'[u] = (notified[u] \/ \E i \in 1..n : waiters[m][i] = u)
    <3>1. Chooses(m)
      BY <1>5, NotifyChooses
    <3> QED
      BY <3>1 DEF Chooses
  <2>3. ASSUME NEW u \in Threads, notified'[u], ~notified[u]
        PROVE  kind[u] = "wait" \/ pc[u] \in Dead
    <3>1. Lists(m)
      BY ListedFacts
    <3>2. \E i \in 1..n : waiters[m][i] = u
      BY <2>2, <2>3
    <3> QED
      BY <3>1, <3>2 DEF Lists, ListedAt
  <2> QED
    BY <2>1, <2>2, <2>3 DEF Continue, Goto
<1>6. ASSUME NEW t \in Threads, Sleep(t) PROVE Reasoned'
  BY <1>6 DEF Sleep, SleepOrJoin, Executes, Consume, Throw, Continue, Block, Goto
<1>7. ASSUME NEW t \in Threads, NEW u \in Threads, Join(t, u) PROVE Reasoned'
  BY <1>7 DEF Join, SleepOrJoin, Executes, Consume, Throw, Continue, Block, Goto
<1>8. ASSUME NEW t \in Threads, NEW u \in Threads, Interrupt(t, u) PROVE Reasoned'
  BY <1>8 DEF Interrupt, Executes, SetInterrupt, Continue, Goto
<1>9. ASSUME NEW t \in Threads, NEW u \in Threads, Start(t, u) PROVE Reasoned'
  BY <1>9 DEF Start, Begin, Executes
<1>10. ASSUME NEW t \in Threads,
              LoadBarrier(t) \/ MarkParked(t) \/ TellParked(t) \/ LeavePark(t)
       PROVE  Reasoned'
  BY <1>10 DEF LoadBarrier, MarkParked, Marked, TellParked, LeavePark, LetGo, Goto, Pausing
<1>11. ASSUME NEW t \in Threads, CaptureWake(t) \/ CheckBarrier(t) PROVE Reasoned'
  BY <1>11 DEF CaptureWake, CheckBarrier, Park, Goto, Pausing, Entering
<1>12. ASSUME NEW t \in Threads, TryEnter(t) PROVE Reasoned'
  BY <1>12 DEF TryEnter, Continue, Goto
<1>13. ASSUME NEW t \in Threads,
              SelectChanged(t) \/ SelectWake(t) \/ SelectClosed(t) \/ SelectNotification(t)
       PROVE  Reasoned'
  BY <1>13
     DEF SelectChanged, SelectWake, SelectClosed, SelectNotification, Selected, Park, Goto,
         Entering
<1>14. ASSUME NEW t \in Threads, SelectTime(t) \/ SelectDone(t) \/ SelectToken(t)
       PROVE  Reasoned'
  BY <1>14 DEF SelectTime, SelectDone, SelectToken, Selected, Continue, Goto, Entering
<1>15. ASSUME NEW t \in Threads, TookToken(t) PROVE Reasoned'
  BY <1>15 DEF TookToken, Consume, Throw, Continue, Goto
<1>16. ASSUME NEW t \in Threads, LeaveWaiters(t) PROVE Reasoned'
  BY <1>16 DEF LeaveWaiters, KeepsInterrupt, Goto
<1>17. ASSUME NEW t \in Threads, KeepInterrupt(t) PROVE Reasoned'
  BY <1>17 DEF KeepInterrupt, SetInterrupt, Goto
<1>18. ASSUME NEW t \in Threads, ReturnFromWait(t) PROVE Reasoned'
  BY <1>18 DEF ReturnFromWait, NewWait, SavedDepth, Throw, Continue, Goto
<1>19. ASSUME NEW t \in Threads, Unwind(t) PROVE Reasoned'
  BY <1>19 DEF Unwind, Goto, Told
<1>20. ASSUME NEW t \in Threads, EndThread(t) \/ Delist(t) PROVE Reasoned'
  BY <1>20 DEF EndThread, Delist, Goto
<1>21. ASSUME PauseThreads \/ Look \/ LookAgain \/ Close PROVE Reasoned'
  BY <1>21 DEF PauseThreads, Look, LookAgain, Ready, Close
<1>22. ASSUME GiveUp \/ Resume PROVE Reasoned'
  BY <1>22 DEF GiveUp, Resume, ResumeThreads
<1>23. ASSUME NEW u \in Threads, HostStarts(u) PROVE Reasoned'
  BY <1>23 DEF HostStarts, Begin, Goto
<1>24. CASE UNCHANGED vars
  BY <1>24
<1> QED
  BY SMTT(60), <1>1, <1>2, <1>3, <1>4, <1>5, <1>6, <1>7, <1>8, <1>9, <1>10, <1>11, <1>12, <1>13, <1>14,
     <1>15, <1>16, <1>17, <1>18, <1>19, <1>20, <1>21, <1>22, <1>23, <1>24
     DEF ThreadsStep, ThreadStep, Instruction, Parking, Blocking, Select, Ending, HostStep

\* The wait sets stay exact.
LEMMA QueuedKept ==
  ASSUME MonitorsTyped, PlacesTyped, ThreadsTyped, Placed, Queued, ThreadsStep
  PROVE  Queued'
<1> USE NoneIsApart DEF PlacesTyped, ThreadsTyped, Placed, Kinds, Blocked, InPark, Dead,
                        ListedStay, vars, waitVars, barrierVars, monitorVars, placeVars,
                        threadVars, guestVars
<1>1. ASSUME NEW t \in Threads, Boundary(t) \/ NativeWait(t) \/ Return(t) \/ Fail(t)
      PROVE  Queued'
  <2>1. ListedStay /\ UNCHANGED waiters
    BY <1>1 DEF Boundary, NativeWait, Return, Fail, Executes, Block, Park, Goto, Pausing
  <2> QED
    BY <2>1, ListedStayQueued
<1>2. ASSUME NEW t \in Threads, NEW m \in Monitors, Enter(t, m) PROVE Queued'
  <2>1. ListedStay /\ UNCHANGED waiters
    BY <1>2 DEF Enter, Executes, Block, Goto
  <2> QED
    BY <2>1, ListedStayQueued
<1>3. ASSUME NEW t \in Threads, NEW m \in Monitors, Exit(t, m) PROVE Queued'
  <2>1. ListedStay /\ UNCHANGED waiters
    BY <1>3 DEF Exit, Executes, Continue, Goto, Told
  <2> QED
    BY <2>1, ListedStayQueued
<1>4. ASSUME NEW t \in Threads, NEW m \in Monitors, NEW b \in BOOLEAN, Wait(t, m, b)
      PROVE  Queued'
  BY <1>4, WaitKeepsQueued
<1>5. ASSUME NEW t \in Threads, NEW m \in Monitors, NEW b \in BOOLEAN, Notify(t, m, b)
      PROVE  Queued'
  BY <1>5, NotifyKeepsQueued
<1>6. ASSUME NEW t \in Threads, Sleep(t) PROVE Queued'
  <2>1. ListedStay /\ UNCHANGED waiters
    BY <1>6 DEF Sleep, SleepOrJoin, Executes, Consume, Throw, Continue, Block, Goto
  <2> QED
    BY <2>1, ListedStayQueued
<1>7. ASSUME NEW t \in Threads, NEW u \in Threads, Join(t, u) PROVE Queued'
  <2>1. ListedStay /\ UNCHANGED waiters
    BY <1>7 DEF Join, SleepOrJoin, Executes, Consume, Throw, Continue, Block, Goto
  <2> QED
    BY <2>1, ListedStayQueued
<1>8. ASSUME NEW t \in Threads, NEW u \in Threads, Interrupt(t, u) PROVE Queued'
  <2>1. ListedStay /\ UNCHANGED waiters
    BY <1>8 DEF Interrupt, Executes, SetInterrupt, Continue, Goto
  <2> QED
    BY <2>1, ListedStayQueued
<1>9. ASSUME NEW t \in Threads, NEW u \in Threads, Start(t, u) PROVE Queued'
  <2>1. ListedStay /\ UNCHANGED waiters
    BY <1>9 DEF Start, Begin, Executes
  <2> QED
    BY <2>1, ListedStayQueued
<1>10. ASSUME NEW t \in Threads,
              LoadBarrier(t) \/ MarkParked(t) \/ TellParked(t) \/ LeavePark(t)
       PROVE  Queued'
  <2>1. ListedStay /\ UNCHANGED waiters
    BY <1>10 DEF LoadBarrier, MarkParked, Marked, TellParked, LeavePark, LetGo, Goto, Pausing
  <2> QED
    BY <2>1, ListedStayQueued
<1>11. ASSUME NEW t \in Threads, CaptureWake(t) \/ CheckBarrier(t) PROVE Queued'
  <2>1. ListedStay /\ UNCHANGED waiters
    BY <1>11 DEF CaptureWake, CheckBarrier, Park, Goto, Pausing, Entering
  <2> QED
    BY <2>1, ListedStayQueued
<1>12. ASSUME NEW t \in Threads, TryEnter(t) PROVE Queued'
  <2>1. ListedStay /\ UNCHANGED waiters
    BY <1>12 DEF TryEnter, Continue, Goto
  <2> QED
    BY <2>1, ListedStayQueued
<1>13. ASSUME NEW t \in Threads,
              SelectChanged(t) \/ SelectWake(t) \/ SelectClosed(t) \/ SelectNotification(t)
       PROVE  Queued'
  <2>1. ListedStay /\ UNCHANGED waiters
    BY <1>13
       DEF SelectChanged, SelectWake, SelectClosed, SelectNotification, Selected, Park, Goto,
           Entering
  <2> QED
    BY <2>1, ListedStayQueued
<1>14. ASSUME NEW t \in Threads, SelectTime(t) \/ SelectDone(t) \/ SelectToken(t)
       PROVE  Queued'
  <2>1. ListedStay /\ UNCHANGED waiters
    BY <1>14 DEF SelectTime, SelectDone, SelectToken, Selected, Continue, Goto, Entering
  <2> QED
    BY <2>1, ListedStayQueued
<1>15. ASSUME NEW t \in Threads, TookToken(t) PROVE Queued'
  <2>1. ListedStay /\ UNCHANGED waiters
    BY <1>15 DEF TookToken, Consume, Throw, Continue, Goto
  <2> QED
    BY <2>1, ListedStayQueued
<1>16. ASSUME NEW t \in Threads, LeaveWaiters(t) PROVE Queued'
  BY <1>16, LeaveWaitersKeepsQueued
<1>17. ASSUME NEW t \in Threads, KeepInterrupt(t) PROVE Queued'
  <2>1. ListedStay /\ UNCHANGED waiters
    BY <1>17 DEF KeepInterrupt, SetInterrupt, Goto
  <2> QED
    BY <2>1, ListedStayQueued
<1>18. ASSUME NEW t \in Threads, ReturnFromWait(t) PROVE Queued'
  <2>1. ListedStay /\ UNCHANGED waiters
    BY <1>18 DEF ReturnFromWait, NewWait, SavedDepth, Throw, Continue, Goto
  <2> QED
    BY <2>1, ListedStayQueued
<1>19. ASSUME NEW t \in Threads, Unwind(t) PROVE Queued'
  <2>1. ListedStay /\ UNCHANGED waiters
    BY <1>19 DEF Unwind, Goto, Told
  <2> QED
    BY <2>1, ListedStayQueued
<1>20. ASSUME NEW t \in Threads, EndThread(t) \/ Delist(t) PROVE Queued'
  <2>1. ListedStay /\ UNCHANGED waiters
    BY <1>20 DEF EndThread, Delist, Goto
  <2> QED
    BY <2>1, ListedStayQueued
<1>21. ASSUME PauseThreads \/ Look \/ LookAgain \/ Close PROVE Queued'
  <2>1. ListedStay /\ UNCHANGED waiters
    BY <1>21 DEF PauseThreads, Look, LookAgain, Ready, Close
  <2> QED
    BY <2>1, ListedStayQueued
<1>22. ASSUME GiveUp \/ Resume PROVE Queued'
  <2>1. ListedStay /\ UNCHANGED waiters
    BY <1>22 DEF GiveUp, Resume, ResumeThreads
  <2> QED
    BY <2>1, ListedStayQueued
<1>23. ASSUME NEW u \in Threads, HostStarts(u) PROVE Queued'
  <2>1. ListedStay /\ UNCHANGED waiters
    BY <1>23 DEF HostStarts, Begin, Goto
  <2> QED
    BY <2>1, ListedStayQueued
<1>24. CASE UNCHANGED vars
  <2>1. ListedStay /\ UNCHANGED waiters
    BY <1>24
  <2> QED
    BY <2>1, ListedStayQueued
<1> QED
  BY <1>1, <1>2, <1>3, <1>4, <1>5, <1>6, <1>7, <1>8, <1>9, <1>10, <1>11, <1>12, <1>13, <1>14,
     <1>15, <1>16, <1>17, <1>18, <1>19, <1>20, <1>21, <1>22, <1>23, <1>24
     DEF ThreadsStep, ThreadStep, Instruction, Parking, Blocking, Select, Ending, HostStep

\* What a thread holds of interrupts is owed to it.
LEMMA AnsweredKept ==
  ASSUME PlacesTyped, ThreadsTyped, GuestTyped, Placed, Reasoned, Answered, ThreadsStep
  PROVE  Answered'
<1> USE NoneIsApart DEF PlacesTyped, ThreadsTyped, GuestTyped, Placed, Reasoned, Answered, Due,
                        Again, Kinds, Blocked, InPark, Dead, vars, waitVars, barrierVars,
                        monitorVars, placeVars, threadVars, guestVars
<1>1. ASSUME NEW t \in Threads, Boundary(t) \/ NativeWait(t) \/ Return(t) \/ Fail(t)
      PROVE  Answered'
  BY <1>1 DEF Boundary, NativeWait, Return, Fail, Executes, Block, Park, Goto, Pausing
<1>2. ASSUME NEW t \in Threads, NEW m \in Monitors, Enter(t, m) PROVE Answered'
  BY <1>2 DEF Enter, Executes, Block, Goto
<1>3. ASSUME NEW t \in Threads, NEW m \in Monitors, Exit(t, m) PROVE Answered'
  BY <1>3 DEF Exit, Executes, Continue, Goto, Told
<1>4. ASSUME NEW t \in Threads, NEW m \in Monitors, NEW b \in BOOLEAN, Wait(t, m, b)
      PROVE  Answered'
  <2>0. pc[t] = "step" /\ kind[t] = None
    BY <1>4 DEF Wait, Executes
  <2>1. CASE flag[t]
    <3>1. Consume(t) /\ Throw(t) /\ Continue(t) /\ UNCHANGED interrupted
      BY <1>4, <2>1 DEF Wait
    <3>2. ThrownAtOnce(t)
      BY <2>1, <3>1, ThrowsAtOnce
    <3>3. ~interrupted[t] /\ owed[t] >= 1
      BY <2>0, <2>1
    <3>4. UNCHANGED interrupted /\ pc[t] = "step"
      BY <2>0, <3>1
    <3> HIDE DEF PlacesTyped, Placed, Reasoned, Blocked, InPark, Dead
    <3> SUFFICES ASSUME NEW v \in Threads
                 PROVE  /\ owed'[v] >= Due(v)'
                        /\ unanswered'[v] => flag'[v] \/ interrupted'[v] \/ pc'[v] = "keep"
                        /\ pc'[v] = "took" /\ token'[v] => flag'[v]
      BY DEF Answered
    <3> QED
      BY <3>2, <3>3, <3>4 DEF ThrownAtOnce
  <2>2. CASE ~flag[t]
    <3>1. /\ Block(t, "wait", m) /\ UNCHANGED <<flag, token, owed, unanswered>>
          /\ interrupted' = [interrupted EXCEPT ![t] = FALSE]
      BY <1>4, <2>2 DEF Wait, NewWait
    <3>2. \A v \in Threads : interrupted'[v] = interrupted[v]
      <4>1. ~interrupted[t]
        BY <2>0
      <4>2. interrupted \in [Threads -> BOOLEAN]
        OBVIOUS
      <4>3. interrupted[t] = FALSE
        BY <4>1, <4>2
      <4> HIDE DEF PlacesTyped, ThreadsTyped, GuestTyped, Placed, Reasoned, Answered
      <4> QED
        BY <3>1, <4>2, <4>3
    <3>3. (\A v \in Threads : v # t => pc'[v] = pc[v]) /\ pc'[t] = "capture"
      BY <3>1 DEF Block, Goto
    <3> SUFFICES ASSUME NEW v \in Threads
                 PROVE  /\ owed'[v] >= Due(v)'
                        /\ unanswered'[v] => flag'[v] \/ interrupted'[v] \/ pc'[v] = "keep"
                        /\ pc'[v] = "took" /\ token'[v] => flag'[v]
      BY DEF Answered
    <3> HIDE DEF PlacesTyped, Placed, Reasoned, Blocked, InPark, Dead
    <3> QED
      BY <2>0, <3>1, <3>2, <3>3
  <2> QED
    BY <2>1, <2>2
<1>5. ASSUME NEW t \in Threads, NEW m \in Monitors, NEW b \in BOOLEAN, Notify(t, m, b)
      PROVE  Answered'
  BY <1>5 DEF Notify, Executes, Continue, Goto
<1>6. ASSUME NEW t \in Threads, Sleep(t) PROVE Answered'
  <2>0. pc[t] = "step" /\ kind[t] = None /\ UNCHANGED <<interrupted>>
    BY <1>6 DEF Sleep, SleepOrJoin, Executes
  <2>1. CASE flag[t]
    <3>1. Consume(t) /\ Throw(t) /\ Continue(t)
      BY <1>6, <2>1 DEF Sleep, SleepOrJoin
    <3>2. ThrownAtOnce(t)
      BY <2>1, <3>1, ThrowsAtOnce
    <3>3. ~interrupted[t] /\ owed[t] >= 1
      BY <2>0, <2>1
    <3>4. UNCHANGED interrupted /\ pc[t] = "step"
      BY <2>0, <3>1
    <3> HIDE DEF PlacesTyped, Placed, Reasoned, Blocked, InPark, Dead
    <3> SUFFICES ASSUME NEW v \in Threads
                 PROVE  /\ owed'[v] >= Due(v)'
                        /\ unanswered'[v] => flag'[v] \/ interrupted'[v] \/ pc'[v] = "keep"
                        /\ pc'[v] = "took" /\ token'[v] => flag'[v]
      BY DEF Answered
    <3> QED
      BY <3>2, <3>3, <3>4 DEF ThrownAtOnce
  <2>2. CASE ~flag[t]
    <3>1. Block(t, "sleep", None) /\ UNCHANGED <<flag, token, owed, unanswered>>
      BY <1>6, <2>2 DEF Sleep, SleepOrJoin
    <3> QED
      BY <2>0, <2>2, <3>1 DEF Block, Goto
  <2> QED
    BY <2>1, <2>2
<1>7. ASSUME NEW t \in Threads, NEW u \in Threads, Join(t, u) PROVE Answered'
  <2>0. pc[t] = "step" /\ kind[t] = None /\ UNCHANGED <<interrupted>>
    BY <1>7 DEF Join, SleepOrJoin, Executes
  <2>1. CASE flag[t]
    <3>1. Consume(t) /\ Throw(t) /\ Continue(t)
      BY <1>7, <2>1 DEF Join, SleepOrJoin
    <3>2. ThrownAtOnce(t)
      BY <2>1, <3>1, ThrowsAtOnce
    <3>3. ~interrupted[t] /\ owed[t] >= 1
      BY <2>0, <2>1
    <3>4. UNCHANGED interrupted /\ pc[t] = "step"
      BY <2>0, <3>1
    <3> HIDE DEF PlacesTyped, Placed, Reasoned, Blocked, InPark, Dead
    <3> SUFFICES ASSUME NEW v \in Threads
                 PROVE  /\ owed'[v] >= Due(v)'
                        /\ unanswered'[v] => flag'[v] \/ interrupted'[v] \/ pc'[v] = "keep"
                        /\ pc'[v] = "took" /\ token'[v] => flag'[v]
      BY DEF Answered
    <3> QED
      BY <3>2, <3>3, <3>4 DEF ThrownAtOnce
  <2>2. CASE ~flag[t]
    <3>1. Block(t, "join", u) /\ UNCHANGED <<flag, token, owed, unanswered>>
      BY <1>7, <2>2 DEF Join, SleepOrJoin
    <3> QED
      BY <2>0, <2>2, <3>1 DEF Block, Goto
  <2> QED
    BY <2>1, <2>2
<1>8. ASSUME NEW t \in Threads, NEW u \in Threads, Interrupt(t, u) PROVE Answered'
  BY <1>8 DEF Interrupt, Executes, SetInterrupt, Continue, Goto
<1>9. ASSUME NEW t \in Threads, NEW u \in Threads, Start(t, u) PROVE Answered'
  BY <1>9 DEF Start, Begin, Executes
<1>10. ASSUME NEW t \in Threads,
              LoadBarrier(t) \/ MarkParked(t) \/ TellParked(t) \/ LeavePark(t)
       PROVE  Answered'
  BY <1>10, SMTT(30)
     DEF LoadBarrier, MarkParked, Marked, TellParked, LeavePark, LetGo, Goto, Pausing
<1>11. ASSUME NEW t \in Threads, CaptureWake(t) \/ CheckBarrier(t) PROVE Answered'
  BY <1>11 DEF CaptureWake, CheckBarrier, Park, Goto, Pausing, Entering
<1>12. ASSUME NEW t \in Threads, TryEnter(t) PROVE Answered'
  BY <1>12 DEF TryEnter, Continue, Goto
<1>13. ASSUME NEW t \in Threads,
              SelectChanged(t) \/ SelectWake(t) \/ SelectClosed(t) \/ SelectNotification(t)
       PROVE  Answered'
  BY <1>13
     DEF SelectChanged, SelectWake, SelectClosed, SelectNotification, Selected, Park, Goto,
         Entering
<1>14. ASSUME NEW t \in Threads, SelectTime(t) \/ SelectDone(t) \/ SelectToken(t)
       PROVE  Answered'
  BY <1>14 DEF SelectTime, SelectDone, SelectToken, Selected, Continue, Goto, Entering
<1>15. ASSUME NEW t \in Threads, TookToken(t) PROVE Answered'
  BY <1>15 DEF TookToken, Consume, Throw, Continue, Goto
<1>16. ASSUME NEW t \in Threads, LeaveWaiters(t) PROVE Answered'
  BY <1>16 DEF LeaveWaiters, KeepsInterrupt, Goto
<1>17. ASSUME NEW t \in Threads, KeepInterrupt(t) PROVE Answered'
  BY <1>17 DEF KeepInterrupt, SetInterrupt, Goto
<1>18. ASSUME NEW t \in Threads, ReturnFromWait(t) PROVE Answered'
  BY <1>18 DEF ReturnFromWait, NewWait, SavedDepth, Throw, Continue, Goto
<1>19. ASSUME NEW t \in Threads, Unwind(t) PROVE Answered'
  BY <1>19 DEF Unwind, Goto, Told
<1>20. ASSUME NEW t \in Threads, EndThread(t) \/ Delist(t) PROVE Answered'
  BY <1>20 DEF EndThread, Delist, Goto
<1>21. ASSUME PauseThreads \/ Look \/ LookAgain \/ Close PROVE Answered'
  BY <1>21 DEF PauseThreads, Look, LookAgain, Ready, Close
<1>22. ASSUME GiveUp \/ Resume PROVE Answered'
  BY <1>22 DEF GiveUp, Resume, ResumeThreads
<1>23. ASSUME NEW u \in Threads, HostStarts(u) PROVE Answered'
  BY <1>23 DEF HostStarts, Begin, Goto
<1>24. CASE UNCHANGED vars
  BY <1>24
<1> QED
  BY SMTT(60), <1>1, <1>2, <1>3, <1>4, <1>5, <1>6, <1>7, <1>8, <1>9, <1>10, <1>11, <1>12, <1>13, <1>14,
     <1>15, <1>16, <1>17, <1>18, <1>19, <1>20, <1>21, <1>22, <1>23, <1>24
     DEF ThreadsStep, ThreadStep, Instruction, Parking, Blocking, Select, Ending, HostStep

\* A parked thread is marked on the barrier that holds it.
LEMMA BarredKept ==
  ASSUME BarrierTyped, PlacesTyped, Placed, Barred, ThreadsStep
  PROVE  Barred'
<1> USE NoneIsApart DEF BarrierTyped, PlacesTyped, Barred, Pausing, Placed, Blocked, InPark,
                        Dead, vars, waitVars, barrierVars, monitorVars, placeVars, threadVars,
                        guestVars
<1>1. ASSUME NEW t \in Threads, Boundary(t) \/ NativeWait(t) \/ Return(t) \/ Fail(t)
      PROVE  Barred'
  BY <1>1 DEF Boundary, NativeWait, Return, Fail, Executes, Block, Park, Goto
<1>2. ASSUME NEW t \in Threads, NEW m \in Monitors, Enter(t, m) PROVE Barred'
  BY <1>2 DEF Enter, Executes, Block, Goto
<1>3. ASSUME NEW t \in Threads, NEW m \in Monitors, Exit(t, m) PROVE Barred'
  BY <1>3 DEF Exit, Executes, Continue, Goto, Told
<1>4. ASSUME NEW t \in Threads, NEW m \in Monitors, NEW b \in BOOLEAN, Wait(t, m, b)
      PROVE  Barred'
  BY <1>4 DEF Wait, NewWait, Executes, Consume, Throw, Continue, Block, Goto, Told
<1>5. ASSUME NEW t \in Threads, NEW m \in Monitors, NEW b \in BOOLEAN, Notify(t, m, b)
      PROVE  Barred'
  BY <1>5 DEF Notify, Executes, Continue, Goto
<1>6. ASSUME NEW t \in Threads, Sleep(t) PROVE Barred'
  BY <1>6 DEF Sleep, SleepOrJoin, Executes, Consume, Throw, Continue, Block, Goto
<1>7. ASSUME NEW t \in Threads, NEW u \in Threads, Join(t, u) PROVE Barred'
  BY <1>7 DEF Join, SleepOrJoin, Executes, Consume, Throw, Continue, Block, Goto
<1>8. ASSUME NEW t \in Threads, NEW u \in Threads, Interrupt(t, u) PROVE Barred'
  BY <1>8 DEF Interrupt, Executes, SetInterrupt, Continue, Goto
<1>9. ASSUME NEW t \in Threads, NEW u \in Threads, Start(t, u) PROVE Barred'
  BY <1>9 DEF Start, Begin, Executes
<1>10. ASSUME NEW t \in Threads,
              LoadBarrier(t) \/ MarkParked(t) \/ TellParked(t) \/ LeavePark(t)
       PROVE  Barred'
  BY <1>10 DEF LoadBarrier, MarkParked, Marked, TellParked, LeavePark, LetGo, Goto
<1>11. ASSUME NEW t \in Threads, CaptureWake(t) \/ CheckBarrier(t) PROVE Barred'
  BY <1>11 DEF CaptureWake, CheckBarrier, Park, Goto, Entering
<1>12. ASSUME NEW t \in Threads, TryEnter(t) PROVE Barred'
  BY <1>12 DEF TryEnter, Continue, Goto
<1>13. ASSUME NEW t \in Threads,
              SelectChanged(t) \/ SelectWake(t) \/ SelectClosed(t) \/ SelectNotification(t)
       PROVE  Barred'
  BY <1>13
     DEF SelectChanged, SelectWake, SelectClosed, SelectNotification, Selected, Park, Goto,
         Entering
<1>14. ASSUME NEW t \in Threads, SelectTime(t) \/ SelectDone(t) \/ SelectToken(t)
       PROVE  Barred'
  BY <1>14 DEF SelectTime, SelectDone, SelectToken, Selected, Continue, Goto, Entering
<1>15. ASSUME NEW t \in Threads, TookToken(t) PROVE Barred'
  BY <1>15 DEF TookToken, Consume, Throw, Continue, Goto
<1>16. ASSUME NEW t \in Threads, LeaveWaiters(t) PROVE Barred'
  BY <1>16 DEF LeaveWaiters, KeepsInterrupt, Goto
<1>17. ASSUME NEW t \in Threads, KeepInterrupt(t) PROVE Barred'
  BY <1>17 DEF KeepInterrupt, SetInterrupt, Goto
<1>18. ASSUME NEW t \in Threads, ReturnFromWait(t) PROVE Barred'
  BY <1>18 DEF ReturnFromWait, NewWait, SavedDepth, Throw, Continue, Goto
<1>19. ASSUME NEW t \in Threads, Unwind(t) PROVE Barred'
  BY <1>19 DEF Unwind, Goto, Told
<1>20. ASSUME NEW t \in Threads, EndThread(t) \/ Delist(t) PROVE Barred'
  BY <1>20 DEF EndThread, Delist, Goto
<1>21. ASSUME PauseThreads \/ Look \/ LookAgain \/ Close PROVE Barred'
  BY <1>21 DEF PauseThreads, Look, LookAgain, Ready, Close
<1>22. ASSUME GiveUp \/ Resume PROVE Barred'
  BY <1>22 DEF GiveUp, Resume, ResumeThreads
<1>23. ASSUME NEW u \in Threads, HostStarts(u) PROVE Barred'
  BY <1>23 DEF HostStarts, Begin, Goto
<1>24. CASE UNCHANGED vars
  BY <1>24
<1> QED
  BY <1>1, <1>2, <1>3, <1>4, <1>5, <1>6, <1>7, <1>8, <1>9, <1>10, <1>11, <1>12, <1>13, <1>14,
     <1>15, <1>16, <1>17, <1>18, <1>19, <1>20, <1>21, <1>22, <1>23, <1>24
     DEF ThreadsStep, ThreadStep, Instruction, Parking, Blocking, Select, Ending, HostStep

\* No other step moves a thread out of the return from its wait.
LEMMA ReturnsOnlyKept ==
  ASSUME PlacesTyped, Placed, ThreadsStep
  PROVE  ReturnsOnly
<1> USE NoneIsApart DEF PlacesTyped, ReturnsOnly, vars, waitVars, barrierVars, monitorVars,
                        placeVars, threadVars, guestVars
<1>1. ASSUME NEW t \in Threads, Boundary(t) \/ NativeWait(t) \/ Return(t) \/ Fail(t)
      PROVE  ReturnsOnly
  BY <1>1 DEF Boundary, NativeWait, Return, Fail, Executes, Block, Park, Goto, Pausing
<1>2. ASSUME NEW t \in Threads, NEW m \in Monitors, Enter(t, m) PROVE ReturnsOnly
  BY <1>2 DEF Enter, Executes, Block, Goto
<1>3. ASSUME NEW t \in Threads, NEW m \in Monitors, Exit(t, m) PROVE ReturnsOnly
  BY <1>3 DEF Exit, Executes, Continue, Goto, Told
<1>4. ASSUME NEW t \in Threads, NEW m \in Monitors, NEW b \in BOOLEAN, Wait(t, m, b)
      PROVE  ReturnsOnly
  BY <1>4 DEF Wait, NewWait, Executes, Consume, Throw, Continue, Block, Goto, Told
<1>5. ASSUME NEW t \in Threads, NEW m \in Monitors, NEW b \in BOOLEAN, Notify(t, m, b)
      PROVE  ReturnsOnly
  BY <1>5 DEF Notify, Executes, Continue, Goto
<1>6. ASSUME NEW t \in Threads, Sleep(t) PROVE ReturnsOnly
  BY <1>6 DEF Sleep, SleepOrJoin, Executes, Consume, Throw, Continue, Block, Goto
<1>7. ASSUME NEW t \in Threads, NEW u \in Threads, Join(t, u) PROVE ReturnsOnly
  BY <1>7 DEF Join, SleepOrJoin, Executes, Consume, Throw, Continue, Block, Goto
<1>8. ASSUME NEW t \in Threads, NEW u \in Threads, Interrupt(t, u) PROVE ReturnsOnly
  BY <1>8 DEF Interrupt, Executes, SetInterrupt, Continue, Goto
<1>9. ASSUME NEW t \in Threads, NEW u \in Threads, Start(t, u) PROVE ReturnsOnly
  BY <1>9 DEF Start, Begin, Executes
<1>10. ASSUME NEW t \in Threads,
              LoadBarrier(t) \/ MarkParked(t) \/ TellParked(t) \/ LeavePark(t)
       PROVE  ReturnsOnly
  BY <1>10 DEF LoadBarrier, MarkParked, Marked, TellParked, LeavePark, LetGo, Goto, Pausing
<1>11. ASSUME NEW t \in Threads, CaptureWake(t) \/ CheckBarrier(t) PROVE ReturnsOnly
  BY <1>11 DEF CaptureWake, CheckBarrier, Park, Goto, Pausing, Entering
<1>12. ASSUME NEW t \in Threads, TryEnter(t) PROVE ReturnsOnly
  BY <1>12 DEF TryEnter, Continue, Goto
<1>13. ASSUME NEW t \in Threads,
              SelectChanged(t) \/ SelectWake(t) \/ SelectClosed(t) \/ SelectNotification(t)
       PROVE  ReturnsOnly
  BY <1>13
     DEF SelectChanged, SelectWake, SelectClosed, SelectNotification, Selected, Park, Goto,
         Entering
<1>14. ASSUME NEW t \in Threads, SelectTime(t) \/ SelectDone(t) \/ SelectToken(t)
       PROVE  ReturnsOnly
  BY <1>14 DEF SelectTime, SelectDone, SelectToken, Selected, Continue, Goto, Entering
<1>15. ASSUME NEW t \in Threads, TookToken(t) PROVE ReturnsOnly
  BY <1>15 DEF TookToken, Consume, Throw, Continue, Goto
<1>16. ASSUME NEW t \in Threads, LeaveWaiters(t) PROVE ReturnsOnly
  BY <1>16 DEF LeaveWaiters, KeepsInterrupt, Goto
<1>17. ASSUME NEW t \in Threads, KeepInterrupt(t) PROVE ReturnsOnly
  BY <1>17 DEF KeepInterrupt, SetInterrupt, Goto
<1>18. ASSUME NEW t \in Threads, ReturnFromWait(t) PROVE ReturnsOnly
  BY <1>18 DEF ReturnFromWait, NewWait, SavedDepth, Throw, Continue, Goto
<1>19. ASSUME NEW t \in Threads, Unwind(t) PROVE ReturnsOnly
  BY <1>19 DEF Unwind, Goto, Told
<1>20. ASSUME NEW t \in Threads, EndThread(t) \/ Delist(t) PROVE ReturnsOnly
  BY <1>20 DEF EndThread, Delist, Goto
<1>21. ASSUME PauseThreads \/ Look \/ LookAgain \/ Close PROVE ReturnsOnly
  BY <1>21 DEF PauseThreads, Look, LookAgain, Ready, Close
<1>22. ASSUME GiveUp \/ Resume PROVE ReturnsOnly
  BY <1>22 DEF GiveUp, Resume, ResumeThreads
<1>23. ASSUME NEW u \in Threads, HostStarts(u) PROVE ReturnsOnly
  BY <1>23 DEF HostStarts, Begin, Goto
<1>24. CASE UNCHANGED vars
  BY <1>24
<1> QED
  BY <1>1, <1>2, <1>3, <1>4, <1>5, <1>6, <1>7, <1>8, <1>9, <1>10, <1>11, <1>12, <1>13, <1>14,
     <1>15, <1>16, <1>17, <1>18, <1>19, <1>20, <1>21, <1>22, <1>23, <1>24
     DEF ThreadsStep, ThreadStep, Instruction, Parking, Blocking, Select, Ending, HostStep

\* With every live thread parked, no thread takes a step that counts.
LEMMA FrozenKept ==
  ASSUME BarrierTyped, PlacesTyped, Placed, Barred, ThreadsStep
  PROVE  Frozen
<1> USE NoneIsApart DEF BarrierTyped, PlacesTyped, Barred, Pausing, Frozen, vars, waitVars,
                        barrierVars, monitorVars, placeVars, threadVars, guestVars
<1>1. ASSUME NEW t \in Threads, Boundary(t) \/ NativeWait(t) \/ Return(t) \/ Fail(t)
      PROVE  Frozen
  BY <1>1 DEF Boundary, NativeWait, Return, Fail, Executes, Block, Park, Goto
<1>2. ASSUME NEW t \in Threads, NEW m \in Monitors, Enter(t, m) PROVE Frozen
  BY <1>2 DEF Enter, Executes, Block, Goto
<1>3. ASSUME NEW t \in Threads, NEW m \in Monitors, Exit(t, m) PROVE Frozen
  BY <1>3 DEF Exit, Executes, Continue, Goto, Told
<1>4. ASSUME NEW t \in Threads, NEW m \in Monitors, NEW b \in BOOLEAN, Wait(t, m, b)
      PROVE  Frozen
  BY <1>4 DEF Wait, NewWait, Executes, Consume, Throw, Continue, Block, Goto, Told
<1>5. ASSUME NEW t \in Threads, NEW m \in Monitors, NEW b \in BOOLEAN, Notify(t, m, b)
      PROVE  Frozen
  BY <1>5 DEF Notify, Executes, Continue, Goto
<1>6. ASSUME NEW t \in Threads, Sleep(t) PROVE Frozen
  BY <1>6 DEF Sleep, SleepOrJoin, Executes, Consume, Throw, Continue, Block, Goto
<1>7. ASSUME NEW t \in Threads, NEW u \in Threads, Join(t, u) PROVE Frozen
  BY <1>7 DEF Join, SleepOrJoin, Executes, Consume, Throw, Continue, Block, Goto
<1>8. ASSUME NEW t \in Threads, NEW u \in Threads, Interrupt(t, u) PROVE Frozen
  BY <1>8 DEF Interrupt, Executes, SetInterrupt, Continue, Goto
<1>9. ASSUME NEW t \in Threads, NEW u \in Threads, Start(t, u) PROVE Frozen
  BY <1>9 DEF Start, Begin, Executes
<1>10. ASSUME NEW t \in Threads,
              LoadBarrier(t) \/ MarkParked(t) \/ TellParked(t) \/ LeavePark(t)
       PROVE  Frozen
  BY <1>10 DEF LoadBarrier, MarkParked, Marked, TellParked, LeavePark, LetGo, Goto
<1>11. ASSUME NEW t \in Threads, CaptureWake(t) \/ CheckBarrier(t) PROVE Frozen
  BY <1>11 DEF CaptureWake, CheckBarrier, Park, Goto, Entering
<1>12. ASSUME NEW t \in Threads, TryEnter(t) PROVE Frozen
  BY <1>12 DEF TryEnter, Continue, Goto
<1>13. ASSUME NEW t \in Threads,
              SelectChanged(t) \/ SelectWake(t) \/ SelectClosed(t) \/ SelectNotification(t)
       PROVE  Frozen
  BY <1>13
     DEF SelectChanged, SelectWake, SelectClosed, SelectNotification, Selected, Park, Goto,
         Entering
<1>14. ASSUME NEW t \in Threads, SelectTime(t) \/ SelectDone(t) \/ SelectToken(t)
       PROVE  Frozen
  BY <1>14 DEF SelectTime, SelectDone, SelectToken, Selected, Continue, Goto, Entering
<1>15. ASSUME NEW t \in Threads, TookToken(t) PROVE Frozen
  BY <1>15 DEF TookToken, Consume, Throw, Continue, Goto
<1>16. ASSUME NEW t \in Threads, LeaveWaiters(t) PROVE Frozen
  BY <1>16 DEF LeaveWaiters, KeepsInterrupt, Goto
<1>17. ASSUME NEW t \in Threads, KeepInterrupt(t) PROVE Frozen
  BY <1>17 DEF KeepInterrupt, SetInterrupt, Goto
<1>18. ASSUME NEW t \in Threads, ReturnFromWait(t) PROVE Frozen
  BY <1>18 DEF ReturnFromWait, NewWait, SavedDepth, Throw, Continue, Goto
<1>19. ASSUME NEW t \in Threads, Unwind(t) PROVE Frozen
  BY <1>19 DEF Unwind, Goto, Told
<1>20. ASSUME NEW t \in Threads, EndThread(t) \/ Delist(t) PROVE Frozen
  BY <1>20 DEF EndThread, Delist, Goto
<1>21. ASSUME PauseThreads \/ Look \/ LookAgain \/ Close PROVE Frozen
  BY <1>21 DEF PauseThreads, Look, LookAgain, Ready, Close
<1>22. ASSUME GiveUp \/ Resume PROVE Frozen
  BY <1>22 DEF GiveUp, Resume, ResumeThreads
<1>23. ASSUME NEW u \in Threads, HostStarts(u) PROVE Frozen
  BY <1>23 DEF HostStarts, Begin, Goto
<1>24. CASE UNCHANGED vars
  BY <1>24
<1> QED
  BY <1>1, <1>2, <1>3, <1>4, <1>5, <1>6, <1>7, <1>8, <1>9, <1>10, <1>11, <1>12, <1>13, <1>14,
     <1>15, <1>16, <1>17, <1>18, <1>19, <1>20, <1>21, <1>22, <1>23, <1>24
     DEF ThreadsStep, ThreadStep, Instruction, Parking, Blocking, Select, Ending, HostStep

-----------------------------------------------------------------------------

\* The invariant is inductive.
LEMMA NextKeepsThreadsInv ==
  ASSUME ThreadsInv, [Next]_<<program, vars>>
  PROVE  ThreadsInv'
<1>1. ThreadsStep
  BY DEF Next, ThreadsStep
<1>2. program' \in Programs
  BY DEF Next, ThreadsInv, TypeOK
<1>3. TypeOK'
  BY <1>1, <1>2, BarrierTypedKept, MonitorsTypedKept, PlacesTypedKept, ThreadsTypedKept,
     GuestTypedKept DEF ThreadsInv, TypeOK
<1>4. Placed' /\ Owned' /\ NobodySleepsAtAFreeMonitor'
  BY <1>1, PlacedKept, OwnedKept, NobodySleepsAtAFreeMonitorKept DEF ThreadsInv, TypeOK
<1>5. Reasoned' /\ Queued'
  BY <1>1, ReasonedKept, QueuedKept DEF ThreadsInv, TypeOK
<1>6. Answered' /\ Barred'
  BY <1>1, AnsweredKept, BarredKept DEF ThreadsInv, TypeOK
<1> QED
  BY <1>3, <1>4, <1>5, <1>6 DEF ThreadsInv

\* The invariant the theorems below rest on.
THEOREM ThreadsInvHolds == Spec => []ThreadsInv
BY InitThreadsInv, NextKeepsThreadsInv, PTL DEF Spec

-----------------------------------------------------------------------------

\* Every variable keeps its type (the fields of vm, monitor and guestThread).
THEOREM TypeHolds == Spec => []TypeOK
<1>1. ThreadsInv => TypeOK
  BY DEF ThreadsInv
<1> QED
  BY <1>1, ThreadsInvHolds, PTL

\* A monitor has one owner, as deep as its guest entered it, through waits,
\* notifies, interrupts, failures and checkpoints; and a thread about to sleep
\* for a monitor that is free by now has the closed channel in its hand.
THEOREM MonitorsKept == Spec => []MonitorsAreKept
<1>1. ASSUME ThreadsInv PROVE InsideIsOwned
  <2> SUFFICES ASSUME NEW t \in Threads, NEW m \in Monitors, Inside(t, m)
               PROVE  owner[m] = t /\ (pc[t] # "redepth" => depth[m] = nest[t][m])
    BY DEF InsideIsOwned
  <2>1. OwnedAt(t, m) /\ nest[t][m] \in Nat
    BY <1>1 DEF ThreadsInv, TypeOK, GuestTyped, Owned
  <2>2. owner[m] = t
    BY <2>1 DEF OwnedAt, Released, Inside
  <2> QED
    BY <2>1, <2>2 DEF OwnedAt
<1>2. ThreadsInv => MonitorsAreKept
  BY <1>1 DEF ThreadsInv, MonitorsAreKept
<1> QED
  BY <1>2, ThreadsInvHolds, PTL

\* The wait set lists each waiter once, and only who is still in the wait.
THEOREM WaitersWait == Spec => []WaitersAreWaiting
<1>1. ThreadsInv => WaitersAreWaiting
  BY DEF ThreadsInv, Queued, ListedAt, WaitersAreWaiting
<1> QED
  BY <1>1, ThreadsInvHolds, PTL

\* No interrupt is lost, and none is answered by two exceptions.
THEOREM InterruptsAnswered == Spec => []InterruptsAreAnsweredOnce
<1>1. ASSUME ThreadsInv, NEW t \in Threads
      PROVE  /\ owed[t] >= 0
             /\ unanswered[t] =>
                  flag[t] \/ token[t] \/ interrupted[t] \/ pc[t] \in {"took", "keep"}
  BY <1>1 DEF ThreadsInv, TypeOK, GuestTyped, Answered, Due, Again
<1>2. ThreadsInv => InterruptsAreAnsweredOnce
  BY <1>1 DEF InterruptsAreAnsweredOnce
<1> QED
  BY <1>2, ThreadsInvHolds, PTL

\* A wait that a notify chose returns normally, and an untimed one returns
\* normally only for a notify.
THEOREM WaitsEnd == Spec => WaitsEndForAReason
<1>1. ASSUME ThreadsInv, [Next]_<<program, vars>>,
             NEW t \in Threads, pc[t] = "redepth", pc'[t] # "redepth"
      PROVE  IF owed'[t] # owed[t] THEN ~notified[t] ELSE notified[t] \/ timed[t]
  <2>1. ThreadsStep
    BY <1>1 DEF Next, ThreadsStep
  <2>2. ReturnFromWait(t)
    BY <1>1, <2>1, ReturnsOnlyKept DEF ThreadsInv, TypeOK, ReturnsOnly
  <2>3. /\ interrupted[t] => ~notified[t]
        /\ interrupted[t] \/ notified[t] \/ timed[t]
    BY <1>1 DEF ThreadsInv, Placed, Reasoned, Dead
  <2>4. owed \in [Threads -> Int]
    BY <1>1 DEF ThreadsInv, TypeOK, GuestTyped
  <2>5. owed'[t] = IF interrupted[t] THEN owed[t] - 1 ELSE owed[t]
    BY <2>2, <2>4 DEF ReturnFromWait, Throw
  <2> QED
    BY <2>3, <2>4, <2>5
<1>2. ThreadsInv /\ [Next]_<<program, vars>> =>
        [\A t \in Threads : pc[t] = "redepth" /\ pc'[t] # "redepth" =>
           IF owed'[t] # owed[t] THEN ~notified[t] ELSE notified[t] \/ timed[t]]_vars
  BY <1>1
<1> QED
  BY <1>2, ThreadsInvHolds, PTL DEF Spec, WaitsEndForAReason

\* From PauseThreads' answer to Resume no guest thread takes a step that a
\* checkpoint would see.
THEOREM BarrierFreezes == Spec => BarrierFreezesGuests
<1>1. ThreadsInv /\ [Next]_<<program, vars>> => Frozen
  BY FrozenKept DEF ThreadsInv, TypeOK, Next, ThreadsStep
<1>2. ThreadsInv /\ [Next]_<<program, vars>> =>
        [host = "held" /\ host' = "held" /\ ~closed' =>
           /\ UNCHANGED <<listed, monitorVars, threadVars, guestVars>>
           /\ \A t \in listed : pc'[t] \in {"telling", "parked"}]_vars
  BY <1>1 DEF Frozen
<1> QED
  BY <1>2, ThreadsInvHolds, PTL DEF Spec, BarrierFreezesGuests

=============================================================================

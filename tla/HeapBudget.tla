------------------------------ MODULE HeapBudget ------------------------------
(***************************************************************************)
(* The bound on what a game keeps alive (internal/jvm/heap_budget.go). The  *)
(* bytes that are allocated count down to a sampling point; the allocation   *)
(* that reaches it is charged a weight, which stands for the others, and a   *)
(* large one is always charged. What is charged is dropped again once Go's   *)
(* collector has found the allocation dead. Threads count down without a     *)
(* lock and are charged under one.                                          *)
(*                                                                          *)
(* The samples are known by their weights alone: in use, dead and not found, *)
(* and found dead. Where the next sampling point falls is drawn at random.   *)
(***************************************************************************)
EXTENDS Naturals, FiniteSets, FiniteSetsExt

CONSTANTS
    Threads,
    Small, Large,   \* the sizes of allocations below the sampling interval, and the others
    Weight,         \* sampleWeight: what a sample of each small size stands for
    Limit,          \* the budget
    MaxDraw,        \* bound: the furthest a sampling point falls
    MaxRow,         \* bound on the refusals in a row
    MaxCharge       \* bound: the charge past which no thread begins what may not be refused

ASSUME HeapBudgetAssumption ==
    /\ IsFiniteSet(Threads) /\ Threads # {}
    /\ Small \subseteq Nat /\ Large \subseteq Nat /\ Small \cap Large = {}
    /\ \E most \in Small : \A bytes \in Small : bytes <= most
    /\ Weight \in [Small -> Nat]
    /\ Limit \in Nat /\ MaxDraw \in Nat

VARIABLES
    countdown,      \* the bytes to the next sampling point; 0 stands for any spent one
    charged, pending,
    inUse, dead, found,     \* the weights of the recorded samples
    cycle,          \* a collection has finished since the samples were last looked through
    refusedInRow,
    stage, size, refuse,    \* each thread's allocation: where it is, its bytes, whether it may be refused
    weight,         \* what it was charged
    drawn, free     \* history: the last distance drawn by an admitted sample, and the bytes allocated uncharged since

samples == <<inUse, dead, found, cycle>>
allocations == <<stage, size, refuse, weight>>
heapVars == <<countdown, charged, pending, samples, refusedInRow, allocations, drawn, free>>

Sizes == Small \cup Large
WeightOf(bytes) == IF bytes \in Small THEN Weight[bytes] ELSE bytes
\* Faulty: the first refusal in a row does not collect.
LaterPowersOfTwo == {2, 4, 8, 16}
PowersOfTwo == {1, 2, 4, 8, 16}

HeapTypeOK ==
    /\ {countdown, charged, pending, inUse, dead, found, refusedInRow, drawn, free} \subseteq Nat
    /\ cycle \in BOOLEAN /\ refuse \in [Threads -> BOOLEAN]
    /\ stage \in [Threads -> {"idle", "sampling", "reserved"}]
    /\ size \in [Threads -> Sizes \cup {0}]
    /\ weight \in [Threads -> {WeightOf(b) : b \in Sizes} \cup {0}]

HeapInit ==
    /\ countdown \in 1 .. MaxDraw /\ drawn = countdown /\ free = 0
    /\ charged = 0 /\ pending = 0
    /\ inUse = 0 /\ dead = 0 /\ found = 0 /\ cycle = FALSE
    /\ refusedInRow = 0
    /\ stage = [t \in Threads |-> "idle"] /\ size = [t \in Threads |-> 0]
    /\ refuse = [t \in Threads |-> FALSE] /\ weight = [t \in Threads |-> 0]

Begin(t, bytes, may) ==
    /\ stage' = [stage EXCEPT ![t] = "sampling"]
    /\ size' = [size EXCEPT ![t] = bytes] /\ refuse' = [refuse EXCEPT ![t] = may]
    /\ UNCHANGED weight
End(t) ==
    /\ stage' = [stage EXCEPT ![t] = "idle"]
    /\ size' = [size EXCEPT ![t] = 0] /\ refuse' = [refuse EXCEPT ![t] = FALSE]
    /\ weight' = [weight EXCEPT ![t] = 0]

-----------------------------------------------------------------------------
(***************************************************************************)
(* charge.                                                                 *)
(***************************************************************************)

\* A small allocation before the sampling point goes through.
Uncharged(t, bytes) ==
    /\ stage[t] = "idle" /\ bytes \in Small /\ countdown > bytes
    /\ countdown' = countdown - bytes
    /\ free' = free + bytes
    /\ UNCHANGED <<charged, pending, samples, refusedInRow, allocations, drawn>>

\* One at the point or past it, and a large one, is sampled.
Reach(t, bytes, may) ==
    /\ stage[t] = "idle" /\ (may \/ charged <= MaxCharge)
    /\ \/ bytes \in Small /\ countdown <= bytes /\ countdown' = 0
       \/ bytes \in Large /\ UNCHANGED countdown
    /\ Begin(t, bytes, may)
    /\ UNCHANGED <<charged, pending, samples, refusedInRow, drawn, free>>

-----------------------------------------------------------------------------
(***************************************************************************)
(* sample, under the lock.                                                 *)
(***************************************************************************)

Spent(t) == size[t] \in Large \/ countdown = 0

\* Another allocation took this sampling point and drew the next.
Overtaken(t) ==
    /\ stage[t] = "sampling" /\ ~Spent(t)
    /\ free' = free + size[t]
    /\ End(t)
    /\ UNCHANGED <<countdown, charged, pending, samples, refusedInRow, drawn>>

\* compact: what has been found dead is dropped, and the charge is what is left.
Compacted == pending + inUse + dead
Looked == found' = 0 /\ cycle' = FALSE
\* runtime.GC first finds everything dead.
Collected == pending + inUse

\* collect, for a charge that does not fit: what it leaves charged, and whether
\* it fits then.
Collect(w, left, fits) ==
    LET attempt == refusedInRow + 1
        now == IF cycle THEN Compacted ELSE charged
    IN IF pending + w > Limit
       THEN ~fits /\ left = charged /\ UNCHANGED samples
       ELSE IF (cycle /\ now + w <= Limit) \/ attempt \notin PowersOfTwo
       THEN /\ fits = (now + w <= Limit) /\ left = now
            /\ IF cycle THEN Looked ELSE UNCHANGED <<found, cycle>>
            /\ UNCHANGED <<inUse, dead>>
       ELSE /\ fits = (Collected + w <= Limit) /\ left = Collected
            /\ dead' = 0 /\ Looked /\ UNCHANGED inUse

\* A sample is reserved until it is recorded. A small one draws the next point,
\* if the charge is within the limit.
Reserve(t, w, before) ==
    /\ charged' = before + w /\ pending' = pending + w
    /\ stage' = [stage EXCEPT ![t] = "reserved"] /\ weight' = [weight EXCEPT ![t] = w]
    /\ IF size[t] \in Small /\ charged' <= Limit
       THEN countdown' \in 1 .. MaxDraw /\ drawn' = countdown' /\ free' = 0
       ELSE UNCHANGED <<countdown, drawn, free>>
    /\ UNCHANGED <<size, refuse>>

Admit(t) ==
    LET w == WeightOf(size[t]) IN
    /\ stage[t] = "sampling" /\ Spent(t)
    /\ \/ ~refuse[t] /\ Reserve(t, w, charged) /\ UNCHANGED <<samples, refusedInRow>>
       \/ /\ refuse[t] /\ refusedInRow' = 0
          /\ \/ charged + w <= Limit /\ Reserve(t, w, charged) /\ UNCHANGED samples
             \/ /\ charged + w > Limit
                /\ \E left \in {charged, Compacted, Collected} :
                    Collect(w, left, TRUE) /\ Reserve(t, w, left)

\* Faulty: a refusal draws the next point.
RefuseAndDraw(t) ==
    LET w == WeightOf(size[t]) IN
    /\ stage[t] = "sampling" /\ Spent(t) /\ refuse[t]
    /\ charged + w > Limit
    /\ \E left \in {charged, Compacted, Collected} :
        Collect(w, left, FALSE) /\ charged' = left
    /\ refusedInRow < MaxRow /\ refusedInRow' = refusedInRow + 1
    /\ End(t)
    /\ countdown' \in 1 .. MaxDraw
    /\ UNCHANGED <<pending, drawn, free>>

\* The point stays spent, so the next allocation is weighed in turn.
Refuse(t) ==
    LET w == WeightOf(size[t]) IN
    /\ stage[t] = "sampling" /\ Spent(t) /\ refuse[t]
    /\ charged + w > Limit
    /\ \E left \in {charged, Compacted, Collected} :
        Collect(w, left, FALSE) /\ charged' = left
    /\ refusedInRow < MaxRow /\ refusedInRow' = refusedInRow + 1
    /\ End(t)
    /\ UNCHANGED <<countdown, pending, drawn, free>>

\* record, once the allocation is made; so many samples may have the dead dropped.
Record(t) ==
    /\ stage[t] = "reserved"
    /\ pending' = pending - weight[t] /\ inUse' = inUse + weight[t]
    /\ \/ UNCHANGED <<charged, found, cycle>>
       \/ charged' = pending' + inUse' + dead /\ Looked
    /\ End(t)
    /\ UNCHANGED <<countdown, dead, refusedInRow, drawn, free>>

-----------------------------------------------------------------------------
\* The game lets go of memory, and Go's collector finds it.
LetGo ==
    /\ \E w \in 1 .. inUse : inUse' = inUse - w /\ dead' = dead + w
    /\ UNCHANGED <<countdown, charged, pending, found, cycle, refusedInRow, allocations, drawn, free>>

GoCollects ==
    /\ found' = found + dead /\ dead' = 0 /\ cycle' = TRUE
    /\ UNCHANGED <<countdown, charged, pending, inUse, refusedInRow, allocations, drawn, free>>

HeapNext ==
    \/ \E t \in Threads :
        \/ \E bytes \in Sizes, may \in BOOLEAN : Uncharged(t, bytes) \/ Reach(t, bytes, may)
        \/ Overtaken(t) \/ Admit(t) \/ Refuse(t) \/ Record(t)
    \/ LetGo \/ GoCollects

HeapSpec == HeapInit /\ [][HeapNext]_heapVars

-----------------------------------------------------------------------------
(***************************************************************************)
(* Properties.                                                             *)
(***************************************************************************)

\* However many threads reach a sampling point at once, and whatever the
\* budget dropped meanwhile, it charges what is recorded and what is reserved,
\* no more and no less (sample, record, compact).
ChargeIsExact ==
    /\ pending = MapThenSumSet(LAMBDA t : weight[t], Threads)
    /\ charged = pending + inUse + dead + found

\* A game that is refused and goes on gets nothing past the budget: what it
\* allocates uncharged stays within a sampling distance, and an allocation for
\* each thread that another overtook ("a refused sample keeps its sampling point").
UnchargedIsBounded ==
    free < drawn + (Cardinality(Threads) - 1) * Max(Small)

\* The budget bounds what a game keeps alive: what it charges is what there is,
\* and what goes by uncharged is little.
BudgetIsKept == ChargeIsExact /\ UnchargedIsBounded

\* The first refusal in a row is only of what does not fit beside the memory
\* that is in use: a title that let go of memory finds it at its next allocation
\* (collect).
FirstRefusalIsTrue ==
    [][\A t \in Threads : refusedInRow = 0 /\ refusedInRow' = 1 /\ stage[t] # stage'[t] =>
        Collected + WeightOf(size[t]) > Limit]_heapVars
=============================================================================

------------------------------ MODULE JvmThreads ------------------------------
(***************************************************************************)
(* Guest threads of the JVM, their monitors and the checkpoint barrier      *)
(* (internal/jvm: monitor.go, thread_join.go, thread_checkpoint.go, the      *)
(* thread builtins). A guest thread runs on a goroutine of its own; a         *)
(* blocking operation captures the channel that a checkpoint closes, looks    *)
(* for a checkpoint, and only then selects on what it waits for.              *)
(*                                                                           *)
(* A channel that is closed to wake everyone and then replaced is, for each   *)
(* thread, whether the one it captured has been closed. Bytecode is any       *)
(* sequence of the instructions its program is made of, with every monitor     *)
(* exit paired with its entry, as a compiler pairs them.                      *)
(***************************************************************************)
EXTENDS Integers, Sequences, FiniteSets

CONSTANTS
    Threads, Monitors,
    None,
    Programs,       \* bound: what a title may be, each with the kinds of instruction
                    \* its bytecode is made of, whether the Host pauses and closes
                    \* the machine, how many threads it has and how often a thread
                    \* enters a monitor it is in
    MaxInterrupts   \* bound: interrupts of one thread it has not thrown for

Instructions == {"enter", "exit", "wait", "timedWait", "notify", "notifyAll",
                 "interrupt", "sleep", "join", "native", "start", "fail"}
HostCalls == {"pause", "close"}

\* What a thread may be blocked in; "again" is the entry after a wait.
Kinds == {"enter", "again", "wait", "sleep", "join", "native"}

ASSUME ThreadsAssumption ==
    /\ IsFiniteSet(Threads)
    /\ None \notin Threads \cup Monitors \cup Kinds
    /\ Programs \subseteq [does : SUBSET (Instructions \cup HostCalls),
                             threads : Nat, depth : Nat]
    /\ MaxInterrupts \in Nat

VARIABLES
    program,        \* the title's
    \* the barrier: vm.checkpointPause and the ParkedThreads behind it
    host,           \* "off", "looking", "waiting" in PauseThreads, or "held"
    parked,         \* paused.parked
    nudge,          \* paused.changed: a channel of one token
    listed,         \* vm.threads
    closed,         \* vm.closed
    \* each monitor
    owner, depth, waiters,
    \* each guest thread
    pc,             \* where it is
    kind, on,       \* the operation it blocks in, and on what
    resumeAt,       \* where parkThread returns to
    loaded,         \* the barrier it loaded: "live", or "gone" once resumed
    wakeClosed,     \* the checkpointWake it captured is closed
    changed,        \* the monitor's changed channel it captured is closed
    flag, token,    \* interrupted, and the token in wake
    alive,
    \* its bytecodeThreadWait
    savedDepth, timed, notified, interrupted,
    \* what the guest sees
    nest,           \* how often it has entered a monitor without leaving
    owed,           \* interrupts less InterruptedExceptions it has had
    unanswered      \* it was interrupted since its last InterruptedException

barrierVars == <<host, parked, nudge, listed, closed>>
monitorVars == <<owner, depth, waiters>>
placeVars   == <<pc, kind, on, resumeAt, loaded, wakeClosed, changed>>
waitVars    == <<savedDepth, timed, notified, interrupted>>
threadVars  == <<flag, token, alive, waitVars>>
guestVars   == <<nest, owed, unanswered>>
vars == <<barrierVars, monitorVars, placeVars, threadVars, guestVars>>

BarrierTyped ==
    /\ host \in {"off", "looking", "waiting", "held"}
    /\ parked \subseteq Threads /\ listed \subseteq Threads
    /\ nudge \in BOOLEAN /\ closed \in BOOLEAN

MonitorsTyped ==
    /\ owner \in [Monitors -> Threads \cup {None}]
    /\ depth \in [Monitors -> Nat]
    /\ waiters \in [Monitors -> Seq(Threads)]

PlacesTyped ==
    /\ pc \in [Threads -> {"unstarted", "boundary", "step", "capture", "check", "try",
                           "select", "took", "leave", "keep", "redepth", "parking",
                           "marking", "telling", "parked", "unwinding", "ending", "delisting", "ended"}]
    /\ kind \in [Threads -> Kinds \cup {None}]
    /\ on \in [Threads -> Monitors \cup Threads \cup {None}]
    /\ resumeAt \in [Threads -> {"boundary", "step", "capture"}]
    /\ loaded \in [Threads -> {"live", "gone"}]
    /\ wakeClosed \in [Threads -> BOOLEAN] /\ changed \in [Threads -> BOOLEAN]

ThreadsTyped ==
    /\ flag \in [Threads -> BOOLEAN] /\ token \in [Threads -> BOOLEAN]
    /\ alive \in [Threads -> BOOLEAN]
    /\ savedDepth \in [Threads -> Nat] /\ timed \in [Threads -> BOOLEAN]
    /\ notified \in [Threads -> BOOLEAN] /\ interrupted \in [Threads -> BOOLEAN]

GuestTyped ==
    /\ nest \in [Threads -> [Monitors -> Nat]]
    /\ owed \in [Threads -> Int] /\ unanswered \in [Threads -> BOOLEAN]

TypeOK ==
    program \in Programs /\ BarrierTyped /\ MonitorsTyped /\ PlacesTyped /\ ThreadsTyped /\ GuestTyped

Init ==
    /\ program \in Programs
    /\ host = "off" /\ parked = {} /\ nudge = FALSE /\ listed = {} /\ closed = FALSE
    /\ owner = [m \in Monitors |-> None]
    /\ depth = [m \in Monitors |-> 0]
    /\ waiters = [m \in Monitors |-> <<>>]
    /\ pc = [t \in Threads |-> "unstarted"]
    /\ kind = [t \in Threads |-> None] /\ on = [t \in Threads |-> None]
    /\ resumeAt = [t \in Threads |-> "boundary"]
    /\ loaded = [t \in Threads |-> "gone"]
    /\ wakeClosed = [t \in Threads |-> FALSE] /\ changed = [t \in Threads |-> FALSE]
    /\ flag = [t \in Threads |-> FALSE] /\ token = [t \in Threads |-> FALSE]
    /\ alive = [t \in Threads |-> FALSE]
    /\ savedDepth = [t \in Threads |-> 0] /\ timed = [t \in Threads |-> FALSE]
    /\ notified = [t \in Threads |-> FALSE] /\ interrupted = [t \in Threads |-> FALSE]
    /\ nest = [t \in Threads |-> [m \in Monitors |-> 0]]
    /\ owed = [t \in Threads |-> 0] /\ unanswered = [t \in Threads |-> FALSE]

\* vm.checkpointPause is set, and checkpointWake closed, from PauseThreads to
\* Resume.
Pausing == host # "off"

Goto(t, where) == pc' = [pc EXCEPT ![t] = where]

\* The operation is over: the next instruction boundary.
Continue(t) ==
    /\ Goto(t, "boundary")
    /\ kind' = [kind EXCEPT ![t] = None] /\ on' = [on EXCEPT ![t] = None]

\* A blocking operation begins.
Block(t, k, what) ==
    /\ Goto(t, "capture")
    /\ kind' = [kind EXCEPT ![t] = k] /\ on' = [on EXCEPT ![t] = what]

\* parkThread, returning to where.
Park(t, where) == Goto(t, "parking") /\ resumeAt' = [resumeAt EXCEPT ![t] = where]

\* InterruptedException reaches the bytecode.
Throw(t) ==
    /\ owed' = [owed EXCEPT ![t] = @ - 1]
    /\ unanswered' = [unanswered EXCEPT ![t] = FALSE]

\* interruptThread, by whoever calls it.
SetInterrupt(t) ==
    /\ flag' = [flag EXCEPT ![t] = TRUE]
    /\ token' = [token EXCEPT ![t] = TRUE]

\* consumeThreadInterrupt: the token goes with the flag.
Consume(t) ==
    /\ flag' = [flag EXCEPT ![t] = FALSE]
    /\ token' = [token EXCEPT ![t] = @ /\ ~flag[t]]

\* Faulty: whoever waits for the monitor is not told.
NobodyTold(m) == changed

\* changeLocked: every thread that captured the monitor's channel sees it closed.
Told(m) == [u \in Threads |->
    \/ changed[u]
    \/ pc[u] = "select" /\ kind[u] \in {"enter", "again"} /\ on[u] = m]

-----------------------------------------------------------------------------
(***************************************************************************)
(* The barrier.                                                            *)
(***************************************************************************)

\* Faulty: the wake channel is captured after the look for a barrier.
WokenLate == {t \in Threads : pc[t] = "select"}

\* Whoever has captured checkpointWake.
Woken == {t \in Threads : pc[t] \in {"check", "try", "select"}}

\* PauseThreads takes checkpointMu, publishes a barrier and closes checkpointWake.
PauseThreads ==
    /\ host = "off" /\ "pause" \in program.does
    /\ host' = "looking" /\ parked' = {} /\ nudge' = FALSE
    /\ wakeClosed' = [t \in Threads |-> t \in Woken]
    /\ UNCHANGED <<listed, closed, monitorVars, pc, kind, on, resumeAt, loaded, changed,
                   threadVars, guestVars>>

\* Every live thread is parked.
Ready == listed \subseteq parked

ResumeThreads ==
    /\ host' = "off" /\ parked' = {} /\ nudge' = FALSE
    /\ loaded' = [t \in Threads |-> "gone"]
    /\ UNCHANGED <<listed, closed, monitorVars, pc, kind, on, resumeAt, wakeClosed, changed,
                   threadVars, guestVars>>

\* One round of the loop in PauseThreads.
Look ==
    /\ host = "looking" /\ ~closed
    /\ host' = IF Ready THEN "held" ELSE "waiting"
    /\ UNCHANGED <<parked, nudge, listed, closed, monitorVars, placeVars, threadVars, guestVars>>

LookAgain ==
    /\ host = "waiting" /\ nudge
    /\ host' = "looking" /\ nudge' = FALSE
    /\ UNCHANGED <<parked, listed, closed, monitorVars, placeVars, threadVars, guestVars>>

\* The context ends, or the machine is closed, before every thread is parked.
GiveUp == host \in {"looking", "waiting"} /\ ResumeThreads

Resume == host = "held" /\ ResumeThreads

\* VM.Close
Close ==
    /\ "close" \in program.does
    /\ ~closed /\ closed' = TRUE
    /\ UNCHANGED <<host, parked, nudge, listed, monitorVars, placeVars, threadVars, guestVars>>

\* parkThread loads the barrier, unless it is gone by now.
LoadBarrier(t) ==
    /\ pc[t] = "parking"
    /\ IF Pausing
       THEN Goto(t, "marking") /\ loaded' = [loaded EXCEPT ![t] = "live"]
       ELSE Goto(t, IF closed THEN "unwinding" ELSE resumeAt[t]) /\ UNCHANGED loaded
    /\ UNCHANGED <<barrierVars, monitorVars, kind, on, resumeAt, wakeClosed, changed,
                   threadVars, guestVars>>

\* Faulty: it marks whatever barrier there is now.
MarkedAnyway(t) == parked \cup {t}

\* It marks the barrier it loaded.
Marked(t) == IF loaded[t] = "live" THEN parked \cup {t} ELSE parked

MarkParked(t) ==
    /\ pc[t] = "marking"
    /\ parked' = Marked(t)
    /\ Goto(t, "telling")
    /\ UNCHANGED <<host, nudge, listed, closed, monitorVars, kind, on, resumeAt, loaded,
                   wakeClosed, changed, threadVars, guestVars>>

\* notifyThreadCheckpoint
TellBarrier == nudge \/ Pausing

TellParked(t) ==
    /\ pc[t] = "telling"
    /\ nudge' = TellBarrier
    /\ Goto(t, "parked")
    /\ UNCHANGED <<host, parked, listed, closed, monitorVars, kind, on, resumeAt, loaded,
                   wakeClosed, changed, threadVars, guestVars>>

\* Faulty: only its Resume lets a parked thread go.
ResumedOnly(t) == loaded[t] = "gone"

LetGo(t) == closed \/ loaded[t] = "gone"

LeavePark(t) ==
    /\ pc[t] = "parked" /\ LetGo(t)
    /\ Goto(t, IF closed THEN "unwinding" ELSE resumeAt[t])
    /\ UNCHANGED <<barrierVars, monitorVars, kind, on, resumeAt, loaded, wakeClosed, changed,
                   threadVars, guestVars>>

-----------------------------------------------------------------------------
(***************************************************************************)
(* The instructions. executeFrame looks for a barrier before each one.     *)
(***************************************************************************)

Boundary(t) ==
    /\ pc[t] = "boundary"
    /\ IF Pausing THEN Park(t, "step") ELSE Goto(t, "step") /\ UNCHANGED resumeAt
    /\ UNCHANGED <<barrierVars, monitorVars, kind, on, loaded, wakeClosed, changed,
                   threadVars, guestVars>>

Executes(t, instruction) == pc[t] = "step" /\ instruction \in program.does

\* monitorenter, or the call of a synchronized method.
Enter(t, m) ==
    /\ Executes(t, "enter") /\ nest[t][m] < program.depth
    /\ Block(t, "enter", m)
    /\ UNCHANGED <<barrierVars, monitorVars, resumeAt, loaded, wakeClosed, changed,
                   threadVars, guestVars>>

\* monitor.exit
Exit(t, m) ==
    /\ Executes(t, "exit") /\ nest[t][m] > 0
    /\ owner[m] = t /\ depth[m] > 0
    /\ depth' = [depth EXCEPT ![m] = @ - 1]
    /\ IF depth[m] = 1
       THEN owner' = [owner EXCEPT ![m] = None] /\ changed' = Told(m)
       ELSE UNCHANGED <<owner, changed>>
    /\ nest' = [nest EXCEPT ![t][m] = @ - 1]
    /\ Continue(t)
    /\ UNCHANGED <<barrierVars, waiters, resumeAt, loaded, wakeClosed, threadVars, owed,
                   unanswered>>

\* The thread's bytecodeThreadWait begins anew.
NewWait(t, savedAs, timeout) ==
    /\ savedDepth' = [savedDepth EXCEPT ![t] = savedAs]
    /\ timed' = [timed EXCEPT ![t] = timeout]
    /\ notified' = [notified EXCEPT ![t] = FALSE]
    /\ interrupted' = [interrupted EXCEPT ![t] = FALSE]

\* waitMonitor up to its loop: the whole recursion depth is released.
Wait(t, m, timeout) ==
    /\ Executes(t, IF timeout THEN "timedWait" ELSE "wait")
    /\ owner[m] = t /\ depth[m] > 0
    /\ IF flag[t]
       THEN /\ Consume(t) /\ Throw(t) /\ Continue(t)
            /\ UNCHANGED <<monitorVars, changed, waitVars>>
       ELSE /\ NewWait(t, depth[m], timeout)
            /\ waiters' = [waiters EXCEPT ![m] = Append(@, t)]
            /\ owner' = [owner EXCEPT ![m] = None] /\ depth' = [depth EXCEPT ![m] = 0]
            /\ changed' = Told(m)
            /\ Block(t, "wait", m)
            /\ UNCHANGED <<flag, token, owed, unanswered>>
    /\ UNCHANGED <<barrierVars, resumeAt, loaded, wakeClosed, alive, nest>>

\* monitor.notify: the waiters chosen leave the wait set at once.
Notify(t, m, all) ==
    /\ Executes(t, IF all THEN "notifyAll" ELSE "notify")
    /\ owner[m] = t /\ depth[m] > 0
    /\ LET n == IF all THEN Len(waiters[m]) ELSE IF waiters[m] = <<>> THEN 0 ELSE 1
           chosen == {waiters[m][i] : i \in 1..n}
       IN /\ waiters' = [waiters EXCEPT ![m] = SubSeq(@, n + 1, Len(@))]
          /\ notified' = [u \in Threads |-> notified[u] \/ u \in chosen]
    /\ Continue(t)
    /\ UNCHANGED <<barrierVars, owner, depth, resumeAt, loaded, wakeClosed, changed, flag,
                   token, alive, savedDepth, timed, interrupted, guestVars>>

\* The title has another thread, or this one runs already.
HasThread(u) ==
    \/ pc[u] # "unstarted"
    \/ Cardinality({t \in Threads : pc[t] # "unstarted"}) < program.threads

\* Thread.interrupt
Interrupt(t, u) ==
    /\ Executes(t, "interrupt") /\ HasThread(u) /\ owed[u] < MaxInterrupts
    /\ SetInterrupt(u)
    /\ owed' = [owed EXCEPT ![u] = @ + 1]
    /\ unanswered' = [unanswered EXCEPT ![u] = TRUE]
    /\ Continue(t)
    /\ UNCHANGED <<barrierVars, monitorVars, resumeAt, loaded, wakeClosed, changed, alive,
                   waitVars, nest>>

\* Thread.sleep and Thread.join throw for an interrupt that came before them.
SleepOrJoin(t, k, what) ==
    /\ Executes(t, k)
    /\ IF flag[t]
       THEN Consume(t) /\ Throw(t) /\ Continue(t)
       ELSE Block(t, k, what) /\ UNCHANGED <<flag, token, owed, unanswered>>
    /\ UNCHANGED <<barrierVars, monitorVars, resumeAt, loaded, wakeClosed, changed, alive,
                   waitVars, nest>>

Sleep(t) == SleepOrJoin(t, "sleep", None)

\* threadJoin answers at once for a thread that is not alive.
Join(t, u) == alive[u] /\ SleepOrJoin(t, "join", u)

\* A platform's checkpointable wait (WaitCheckpointAsGuestThread).
NativeWait(t) ==
    /\ Executes(t, "native")
    /\ Block(t, "native", None)
    /\ UNCHANGED <<barrierVars, monitorVars, resumeAt, loaded, wakeClosed, changed,
                   threadVars, guestVars>>

\* Thread.start: listed before its goroutine runs, which parks first of all.
Begin(u) ==
    /\ pc[u] = "unstarted" /\ HasThread(u)
    /\ alive' = [alive EXCEPT ![u] = TRUE]
    /\ listed' = listed \cup {u}
    /\ nudge' = TellBarrier
    /\ resumeAt' = [resumeAt EXCEPT ![u] = "boundary"]
    /\ UNCHANGED <<host, parked, closed, monitorVars, kind, on, loaded, wakeClosed, changed,
                   flag, token, waitVars, guestVars>>

Start(t, u) ==
    /\ Executes(t, "start") /\ Begin(u)
    /\ pc' = [pc EXCEPT ![t] = "boundary", ![u] = "parking"]

\* The Host's own invocation starts a thread; it makes none during a checkpoint.
HostStarts(u) == ~Pausing /\ Begin(u) /\ Goto(u, "parking")

\* run() returns; compiled code has left every monitor by then.
Return(t) ==
    /\ pc[t] = "step" /\ \A m \in Monitors : nest[t][m] = 0
    /\ Goto(t, "ending")
    /\ UNCHANGED <<barrierVars, monitorVars, kind, on, resumeAt, loaded, wakeClosed, changed,
                   threadVars, guestVars>>

\* An error no handler catches: an exhausted limit, or a panic.
Fail(t) ==
    /\ Executes(t, "fail")
    /\ Goto(t, "unwinding")
    /\ UNCHANGED <<barrierVars, monitorVars, kind, on, resumeAt, loaded, wakeClosed, changed,
                   threadVars, guestVars>>

-----------------------------------------------------------------------------
(***************************************************************************)
(* What a blocked operation does.                                          *)
(***************************************************************************)

\* The wake channel first, then the look for a barrier: enterMonitor and the
\* four waiting loops begin alike.
CaptureWake(t) ==
    /\ pc[t] = "capture"
    /\ wakeClosed' = [wakeClosed EXCEPT ![t] = Pausing]
    /\ Goto(t, "check")
    /\ UNCHANGED <<barrierVars, monitorVars, kind, on, resumeAt, loaded, changed, threadVars,
                   guestVars>>

Entering(t) == kind[t] \in {"enter", "again"}

CheckBarrier(t) ==
    /\ pc[t] = "check"
    /\ IF Pausing
       THEN Park(t, "capture") /\ wakeClosed' = [wakeClosed EXCEPT ![t] = FALSE]
       ELSE /\ Goto(t, IF Entering(t) THEN "try" ELSE "select")
            /\ UNCHANGED <<resumeAt, wakeClosed>>
    /\ UNCHANGED <<barrierVars, monitorVars, kind, on, loaded, changed, threadVars, guestVars>>

\* enterMonitor under the monitor's mutex.
TryEnter(t) ==
    /\ pc[t] = "try"
    /\ LET m == on[t]
       IN IF owner[m] \in {None, t}
          THEN /\ owner' = [owner EXCEPT ![m] = t]
               /\ depth' = [depth EXCEPT ![m] = @ + 1]
               /\ IF kind[t] = "enter"
                  THEN Continue(t) /\ nest' = [nest EXCEPT ![t][m] = @ + 1]
                  ELSE Goto(t, "redepth") /\ UNCHANGED <<kind, on, nest>>
               /\ wakeClosed' = [wakeClosed EXCEPT ![t] = FALSE]
               /\ UNCHANGED changed
          ELSE /\ changed' = [changed EXCEPT ![t] = FALSE]
               /\ Goto(t, "select")
               /\ UNCHANGED <<owner, depth, kind, on, nest, wakeClosed>>
    /\ UNCHANGED <<barrierVars, waiters, resumeAt, loaded, threadVars, owed, unanswered>>

\* The captured channels are dropped with the select.
Selected(t) ==
    /\ pc[t] = "select"
    /\ wakeClosed' = [wakeClosed EXCEPT ![t] = FALSE]
    /\ changed' = [changed EXCEPT ![t] = FALSE]
    /\ UNCHANGED <<barrierVars, monitorVars, loaded, guestVars>>

SelectChanged(t) ==
    /\ Entering(t) /\ changed[t] /\ Selected(t)
    /\ Goto(t, "capture")
    /\ UNCHANGED <<kind, on, resumeAt, threadVars>>

\* A sleep and a platform's wait park at once; the others go round their loop.
SelectWake(t) ==
    /\ wakeClosed[t] /\ Selected(t)
    /\ IF kind[t] \in {"sleep", "native"}
       THEN Park(t, "capture")
       ELSE Goto(t, "capture") /\ UNCHANGED resumeAt
    /\ UNCHANGED <<kind, on, threadVars>>

SelectClosed(t) ==
    /\ closed /\ Selected(t)
    /\ Goto(t, "unwinding")
    /\ UNCHANGED <<kind, on, resumeAt, threadVars>>

SelectNotification(t) ==
    /\ kind[t] = "wait" /\ notified[t] /\ Selected(t)
    /\ Goto(t, "leave")
    /\ UNCHANGED <<kind, on, resumeAt, threadVars>>

\* A timer, or what a platform waits until.
SelectTime(t) ==
    /\ Selected(t)
    /\ \/ kind[t] = "wait" /\ timed[t] /\ Goto(t, "leave") /\ UNCHANGED <<kind, on>>
       \/ kind[t] \in {"sleep", "native"} /\ Continue(t)
    /\ UNCHANGED <<resumeAt, threadVars>>

\* The thread joined has ended.
SelectDone(t) ==
    /\ kind[t] = "join" /\ ~alive[on[t]] /\ Selected(t)
    /\ Continue(t)
    /\ UNCHANGED <<resumeAt, threadVars>>

\* The token; a platform's wait leaves the flag for the guest's next wait.
SelectToken(t) ==
    /\ ~Entering(t) /\ token[t] /\ Selected(t)
    /\ token' = [token EXCEPT ![t] = FALSE]
    /\ IF kind[t] = "native" THEN Continue(t) ELSE Goto(t, "took") /\ UNCHANGED <<kind, on>>
    /\ UNCHANGED <<resumeAt, flag, alive, waitVars>>

\* A wait notes its interrupt; a sleep or join throws for it.
TookToken(t) ==
    /\ pc[t] = "took"
    /\ \/ /\ kind[t] = "wait"
          /\ Consume(t)
          /\ interrupted' = [interrupted EXCEPT ![t] = TRUE]
          /\ Goto(t, "leave")
          /\ UNCHANGED <<kind, on, owed, unanswered>>
       \/ /\ kind[t] = "join"
          /\ Consume(t) /\ Throw(t) /\ Continue(t) /\ UNCHANGED interrupted
       \/ /\ kind[t] = "sleep"
          /\ flag' = [flag EXCEPT ![t] = FALSE]
          /\ Throw(t) /\ Continue(t)
          /\ UNCHANGED <<token, interrupted>>
    /\ UNCHANGED <<barrierVars, monitorVars, resumeAt, loaded, wakeClosed, changed, alive,
                   savedDepth, timed, notified, nest>>

\* Faulty: an interrupt wins over the notification the waiter was given.
NeverKeeps(t) == FALSE

\* A notification may not be lost to an interrupt.
KeepsInterrupt(t) == interrupted[t] /\ notified[t]

\* Faulty: only a notify takes a waiter out.
StillListed(q, t) == q

\* A wait is listed once.
Without(q, t) ==
    IF \E i \in 1..Len(q) : q[i] = t
    THEN LET i == CHOOSE i \in 1..Len(q) : q[i] = t
         IN  SubSeq(q, 1, i - 1) \o SubSeq(q, i + 1, Len(q))
    ELSE q

LeaveWaiters(t) ==
    /\ pc[t] = "leave"
    /\ waiters' = [waiters EXCEPT ![on[t]] = Without(@, t)]
    /\ kind' = [kind EXCEPT ![t] = "again"]
    /\ IF KeepsInterrupt(t)
       THEN interrupted' = [interrupted EXCEPT ![t] = FALSE] /\ Goto(t, "keep")
       ELSE UNCHANGED interrupted /\ Goto(t, "capture")
    /\ UNCHANGED <<barrierVars, owner, depth, on, resumeAt, loaded, wakeClosed, changed, flag,
                   token, alive, savedDepth, timed, notified, guestVars>>

\* Faulty: the notification wins and the interrupt is gone.
DropInterrupt(t) ==
    /\ pc[t] = "keep" /\ Goto(t, "capture")
    /\ UNCHANGED <<barrierVars, monitorVars, kind, on, resumeAt, loaded, wakeClosed, changed,
                   threadVars, guestVars>>

KeepInterrupt(t) ==
    /\ pc[t] = "keep"
    /\ SetInterrupt(t)
    /\ Goto(t, "capture")
    /\ UNCHANGED <<barrierVars, monitorVars, kind, on, resumeAt, loaded, wakeClosed, changed,
                   alive, waitVars, guestVars>>

\* Faulty: the wait comes back one deep.
OneDeep(t) == 1

SavedDepth(t) == savedDepth[t]

\* The entry is made: the depth returns, and the interrupt is thrown.
ReturnFromWait(t) ==
    /\ pc[t] = "redepth"
    /\ depth' = [depth EXCEPT ![on[t]] = SavedDepth(t)]
    /\ IF interrupted[t] THEN Throw(t) ELSE UNCHANGED <<owed, unanswered>>
    /\ NewWait(t, 0, FALSE)
    /\ Continue(t)
    /\ UNCHANGED <<barrierVars, owner, waiters, resumeAt, loaded, wakeClosed, changed, flag,
                   token, alive, nest>>

-----------------------------------------------------------------------------
(***************************************************************************)
(* The end of a thread.                                                    *)
(***************************************************************************)

\* The frames of synchronized methods leave their monitors; a monitorenter
\* whose handler an error passes by is not undone.
Unwind(t) ==
    /\ pc[t] = "unwinding"
    /\ \E left \in [{m \in Monitors : owner[m] = t} -> 0..program.depth] :
         LET over == {m \in DOMAIN left : left[m] = 0}
         IN /\ \A m \in DOMAIN left : left[m] <= depth[m]
            /\ owner' = [m \in Monitors |-> IF m \in over THEN None ELSE owner[m]]
            /\ depth' = [m \in Monitors |-> IF m \in DOMAIN left THEN left[m] ELSE depth[m]]
            /\ changed' = [u \in Threads |-> changed[u] \/ \E m \in over : Told(m)[u]]
            /\ nest' = [nest EXCEPT ![t] =
                          [m \in Monitors |-> IF m \in DOMAIN left THEN left[m] ELSE 0]]
    /\ kind' = [kind EXCEPT ![t] = None] /\ on' = [on EXCEPT ![t] = None]
    /\ Goto(t, "ending")
    /\ UNCHANGED <<barrierVars, waiters, resumeAt, loaded, wakeClosed, threadVars, owed,
                   unanswered>>

\* EndGuestThread: the joiners first, then the list of threads.
EndThread(t) ==
    /\ pc[t] = "ending"
    /\ alive' = [alive EXCEPT ![t] = FALSE]
    /\ Goto(t, "delisting")
    /\ UNCHANGED <<barrierVars, monitorVars, kind, on, resumeAt, loaded, wakeClosed, changed,
                   flag, token, waitVars, guestVars>>

Delist(t) ==
    /\ pc[t] = "delisting"
    /\ listed' = listed \ {t} /\ nudge' = TellBarrier
    /\ Goto(t, "ended")
    /\ UNCHANGED <<host, parked, closed, monitorVars, kind, on, resumeAt, loaded, wakeClosed,
                   changed, threadVars, guestVars>>

-----------------------------------------------------------------------------

Instruction(t) ==
    \/ Boundary(t) \/ Sleep(t) \/ NativeWait(t) \/ Return(t) \/ Fail(t)
    \/ \E m \in Monitors : Enter(t, m) \/ Exit(t, m)
    \/ \E m \in Monitors, b \in BOOLEAN : Wait(t, m, b) \/ Notify(t, m, b)
    \/ \E u \in Threads : Interrupt(t, u) \/ Join(t, u) \/ Start(t, u)

Parking(t) == LoadBarrier(t) \/ MarkParked(t) \/ TellParked(t) \/ LeavePark(t)

Select(t) ==
    \/ SelectChanged(t) \/ SelectWake(t) \/ SelectClosed(t) \/ SelectNotification(t)
    \/ SelectTime(t) \/ SelectDone(t) \/ SelectToken(t)

Blocking(t) ==
    \/ CaptureWake(t) \/ CheckBarrier(t) \/ TryEnter(t) \/ Select(t) \/ TookToken(t)
    \/ LeaveWaiters(t) \/ KeepInterrupt(t) \/ ReturnFromWait(t)

Ending(t) == Unwind(t) \/ EndThread(t) \/ Delist(t)

ThreadStep(t) == Instruction(t) \/ Parking(t) \/ Blocking(t) \/ Ending(t)

HostStep ==
    \/ PauseThreads \/ Look \/ LookAgain \/ GiveUp \/ Resume \/ Close
    \/ \E u \in Threads : HostStarts(u)

Next ==
    /\ HostStep \/ \E t \in Threads : ThreadStep(t)
    /\ UNCHANGED program

Spec == Init /\ [][Next]_<<program, vars>>

(***************************************************************************)
(* Fairness: the Go scheduler runs every goroutine that can run, timers     *)
(* fire, and a select in which closed stays ready takes it at last, since    *)
(* select chooses among the ready cases at random. PauseThreads runs on;     *)
(* whether its context ends, and when its holder resumes, is not promised.   *)
(***************************************************************************)
FairSpec ==
    /\ Spec
    /\ WF_vars(Look) /\ WF_vars(LookAgain) /\ WF_vars(closed /\ GiveUp)
    /\ \A t \in Threads : WF_vars(ThreadStep(t)) /\ SF_vars(SelectClosed(t))

-----------------------------------------------------------------------------
(***************************************************************************)
(* Properties.                                                             *)
(***************************************************************************)

\* The guest is inside the monitor: it entered, and is not in a wait on it.
Inside(t, m) ==
    /\ nest[t][m] > 0
    /\ ~(on[t] = m /\ (kind[t] = "wait" \/ (kind[t] = "again" /\ pc[t] # "redepth")))

\* A thread whose bytecode is inside a monitor owns it, as deep as it entered:
\* no two threads are ever in the same synchronized block, and a wait gives
\* back the whole depth it gave up (enterMonitor, exit, continueMonitorWait).
InsideIsOwned ==
    \A t \in Threads, m \in Monitors :
        Inside(t, m) => owner[m] = t /\ (pc[t] # "redepth" => depth[m] = nest[t][m])

\* Nobody sleeps at a free monitor: between a failed try and the select the
\* owner may leave, and the captured channel then is the closed one.
NobodySleepsAtAFreeMonitor ==
    \A t \in Threads :
        pc[t] = "select" /\ Entering(t) /\ owner[on[t]] = None => changed[t]

\* What a monitor promises, whatever threads enter, wait, are interrupted, and
\* leave: one owner as deep as its guest entered it, and no sleeper while it is free.
MonitorsAreKept == InsideIsOwned /\ NobodySleepsAtAFreeMonitor

\* The wait set names threads that are in the wait, once each: a thread that was
\* interrupted or timed out cannot later be given a notify meant for another.
WaitersAreWaiting ==
    ~closed => \A m \in Monitors :
        /\ \A i \in 1..Len(waiters[m]) :
             LET t == waiters[m][i] IN kind[t] = "wait" /\ on[t] = m /\ ~notified[t]
        /\ \A i, j \in 1..Len(waiters[m]) : i # j => waiters[m][i] # waiters[m][j]

\* Interrupts are neither lost nor doubled. Until an InterruptedException answers
\* one, the thread's flag or token says so, or the operation that took the token
\* will; and a thread throws no more often than it was interrupted
\* (sleepCheckpointThread: not "a second time" for the same one).
InterruptsAreAnsweredOnce ==
    \A t \in Threads :
        /\ owed[t] >= 0
        /\ unanswered[t] =>
             flag[t] \/ token[t] \/ interrupted[t] \/ pc[t] \in {"took", "keep"}

\* A wait that a notify chose returns normally, whatever woke it first (JLS
\* 17.2.4), and an untimed wait returns normally only if a notify chose it.
WaitsEndForAReason ==
    [][\A t \in Threads : pc[t] = "redepth" /\ pc'[t] # "redepth" =>
          IF owed'[t] # owed[t] THEN ~notified[t]
          ELSE notified[t] \/ timed[t]]_vars

\* While PauseThreads' caller holds the barrier the guest stands still: no
\* monitor, wait, interrupt or thread changes under the capture of a checkpoint.
BarrierFreezesGuests ==
    [][host = "held" /\ host' = "held" /\ ~closed' =>
          /\ UNCHANGED <<listed, monitorVars, threadVars, guestVars>>
          /\ \A t \in listed : pc'[t] \in {"telling", "parked"}]_vars

\* PauseThreads is answered though threads sleep, wait, join, block on each
\* other's monitors, start one another and end meanwhile.
PauseIsAnswered == host = "looking" ~> host \in {"held", "off"}

\* VM.Close releases every thread blocked in the machine, parked ones too.
CloseReleasesThreads ==
    \A t \in Threads : closed /\ pc[t] \in {"select", "parked"} ~>
        pc[t] \in {"boundary", "step", "ended"}

=============================================================================

------------------------------- MODULE MidpTimer -------------------------------
(***************************************************************************)
(* java.util.Timer in the MIDP library (internal/api/midp/timer.go). Every  *)
(* schedule has a worker thread of its own, which sleeps until its task is   *)
(* due, looks whether the timer or the task is cancelled, and runs it. The  *)
(* threads of a game schedule and cancel at any time; only a task's queued   *)
(* flag is guarded. The module has one task, which is all that two workers   *)
(* could share.                                                             *)
(***************************************************************************)
EXTENDS Naturals, FiniteSets

CONSTANTS
    Callers,        \* the threads of the game
    Timers,
    Workers,        \* the TimerThread objects there may be
    Schedules,      \* what is asked for: [delay, period, fixedRate]
    Idle,           \* nothing
    MaxTime         \* bound on the clock, which every thread reads

VARIABLES
    timerCancelled, taskCancelled,  \* the cancelled fields
    queued,                         \* the task's queued field
    scheduled,                      \* the task's scheduled field
    caller,                         \* where each caller's call is
    worker,                         \* each worker's fields, and where its run is
    clock,
    runs                            \* history: the runs begun by workers already called off

timerVars == <<timerCancelled, taskCancelled, queued, scheduled, caller, worker, clock, runs>>

TimerTypeOK ==
    /\ timerCancelled \subseteq Timers
    /\ {taskCancelled, queued} \subseteq BOOLEAN
    /\ scheduled \in 0 .. 2 * MaxTime
    /\ \A g \in Callers : caller[g].at \in {"idle", "checked", "marked", "failed"}
    /\ \A w \in Workers : worker[w].at \in {"new", "made", "asleep", "awake", "ready", "running", "done"}
    /\ clock \in 0 .. MaxTime

Unmade == [at |-> "new", timer |-> Idle, schedule |-> Idle, due |-> 0, wake |-> 0]
NoCall == [at |-> "idle", worker |-> Idle]

TimerInit ==
    /\ timerCancelled = {} /\ taskCancelled = FALSE
    /\ queued = FALSE /\ scheduled = 0
    /\ caller = [g \in Callers |-> NoCall]
    /\ worker = [w \in Workers |-> Unmade]
    /\ clock = 0 /\ runs = 0

\* It has been called off, by its timer or by the task.
Called(w) == worker[w].timer \in timerCancelled \/ taskCancelled

-----------------------------------------------------------------------------
(***************************************************************************)
(* startTimerThread.                                                       *)
(***************************************************************************)

Goto(g, at, w) == caller' = [caller EXCEPT ![g] = [@ EXCEPT !.at = at, !.worker = w]]

\* The flags are read, and a worker is made of what is asked for.
Schedule(g) ==
    /\ caller[g].at = "idle"
    /\ ~taskCancelled /\ ~queued
    /\ \E w \in Workers, t \in Timers \ timerCancelled, s \in Schedules :
        /\ worker[w].at = "new"
        /\ worker' = [worker EXCEPT ![w] = [@ EXCEPT !.at = "made", !.timer = t, !.schedule = s]]
        /\ Goto(g, "checked", w)
    /\ UNCHANGED <<timerCancelled, taskCancelled, queued, scheduled, clock, runs>>

\* Faulty: it marks the task without another look.
MarkAtOnce(g) ==
    /\ caller[g].at = "checked"
    /\ queued' = TRUE /\ Goto(g, "marked", caller[g].worker)
    /\ UNCHANGED <<timerCancelled, taskCancelled, scheduled, worker, clock, runs>>

\* Under timerQueueMu, the first to come marks the task.
Mark(g) ==
    /\ caller[g].at = "checked"
    /\ queued' = TRUE
    /\ IF queued THEN Goto(g, "idle", Idle) ELSE Goto(g, "marked", caller[g].worker)
    /\ UNCHANGED <<timerCancelled, taskCancelled, scheduled, worker, clock, runs>>

\* The worker's thread begins: its first run is due when the delay is over.
StartWorker(g) ==
    LET w == caller[g].worker  due == clock + worker[w].schedule.delay IN
    /\ caller[g].at = "marked"
    /\ worker' = [worker EXCEPT ![w] = [@ EXCEPT !.at = "asleep", !.due = due, !.wake = due]]
    /\ Goto(g, "idle", Idle)
    /\ UNCHANGED <<timerCancelled, taskCancelled, queued, scheduled, clock, runs>>

\* It could not be started, and the task is free again.
StartFails(g) ==
    /\ caller[g].at = "marked"
    /\ Goto(g, "failed", caller[g].worker)
    /\ UNCHANGED <<timerCancelled, taskCancelled, queued, scheduled, worker, clock, runs>>

Unmark(g) ==
    /\ caller[g].at = "failed"
    /\ queued' = FALSE
    /\ Goto(g, "idle", Idle)
    /\ UNCHANGED <<timerCancelled, taskCancelled, scheduled, worker, clock, runs>>

-----------------------------------------------------------------------------
(***************************************************************************)
(* Cancelling.                                                             *)
(***************************************************************************)

\* timerCancel.
CancelTimer(t) ==
    /\ timerCancelled' = timerCancelled \cup {t}
    /\ UNCHANGED <<taskCancelled, queued, scheduled, caller, worker, clock, runs>>

\* timerTaskCancel; what it answers is left out.
CancelTask ==
    /\ taskCancelled' = TRUE
    /\ UNCHANGED <<timerCancelled, queued, scheduled, caller, worker, clock, runs>>

-----------------------------------------------------------------------------
(***************************************************************************)
(* timerThreadRun.                                                         *)
(***************************************************************************)

\* The sleep is over, on time or later.
Wake(w) ==
    /\ worker[w].at = "asleep" /\ clock >= worker[w].wake
    /\ worker' = [worker EXCEPT ![w].at = "awake"]
    /\ UNCHANGED <<timerCancelled, taskCancelled, queued, scheduled, caller, clock, runs>>

\* Faulty: only the task is looked at.
TaskStopped(w) == taskCancelled
\* timerStopped.
Stopped(w) == worker[w].timer \in timerCancelled \/ taskCancelled
Look(w) ==
    /\ worker[w].at = "awake"
    /\ worker' = [worker EXCEPT ![w].at = IF Stopped(w) THEN "done" ELSE "ready"]
    /\ UNCHANGED <<timerCancelled, taskCancelled, queued, scheduled, caller, clock, runs>>

Run(w) ==
    /\ worker[w].at = "ready"
    /\ worker' = [worker EXCEPT ![w].at = "running"]
    /\ scheduled' = worker[w].due
    /\ runs' = IF Called(w) THEN runs + 1 ELSE runs
    /\ UNCHANGED <<timerCancelled, taskCancelled, queued, caller, clock>>

\* When the next run is due, and how long the worker sleeps.
NextDue(w) ==
    LET s == worker[w].schedule IN
    IF s.fixedRate THEN worker[w].due + s.period ELSE clock + s.period
Delay(w) == IF NextDue(w) > clock THEN NextDue(w) - clock ELSE 0

\* The run is over; it may also have thrown, which ends the worker.
Finish(w) ==
    /\ worker[w].at = "running"
    /\ \/ worker' = [worker EXCEPT ![w].at = "done"]
       \/ /\ worker[w].schedule.period > 0
          /\ worker' = [worker EXCEPT ![w] =
                [@ EXCEPT !.at = "asleep", !.due = NextDue(w), !.wake = clock + Delay(w)]]
    /\ UNCHANGED <<timerCancelled, taskCancelled, queued, scheduled, caller, clock, runs>>

Tick ==
    /\ clock < MaxTime /\ clock' = clock + 1
    /\ UNCHANGED <<timerCancelled, taskCancelled, queued, scheduled, caller, worker, runs>>

TimerNext ==
    \/ \E g \in Callers :
        \/ Schedule(g) \/ Mark(g) \/ StartWorker(g) \/ StartFails(g) \/ Unmark(g)
    \/ (\E t \in Timers : CancelTimer(t)) \/ CancelTask
    \/ \E w \in Workers : Wake(w) \/ Look(w) \/ Run(w) \/ Finish(w)
    \/ Tick

TimerSpec == TimerInit /\ [][TimerNext]_timerVars

-----------------------------------------------------------------------------
(***************************************************************************)
(* Properties.                                                             *)
(***************************************************************************)

\* However many threads schedule the task at once, and whichever of its workers
\* fails to start, one worker at most has it: a second would run it beside itself.
OneWorkerPerTask ==
    \A v, w \in Workers :
        worker[v].at \in {"asleep", "awake", "ready", "running"} /\
        worker[w].at \in {"asleep", "awake", "ready", "running"} => v = w

\* Cancelling the timer or the task, at whatever point of a worker's round,
\* lets one more run begin at most.
AtMostOneMoreRun == runs <= 1

\* A task has one round of runs, which a cancel of either kind ends (timerQueueMu
\* in startTimerThread, timerStopped).
OneRoundPerTask == OneWorkerPerTask /\ AtMostOneMoreRun
=============================================================================

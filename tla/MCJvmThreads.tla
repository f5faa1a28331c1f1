----------------------------- MODULE MCJvmThreads -----------------------------
(***************************************************************************)
(* What the bytecode of a run is made of. Three threads are an owner, a     *)
(* waiter and one who notifies or interrupts; with two, every blocking call, *)
(* start, end and failure meets the barrier.                                 *)
(***************************************************************************)
EXTENDS JvmThreads, TLC

CONSTANTS t1, t2, t3, lock

MonitorProgram == [
    does |-> {"enter", "exit", "wait", "timedWait", "notify", "notifyAll", "interrupt"},
    threads |-> 3, depth |-> 2]
BarrierProgram == [
    does |-> {"enter", "exit", "wait", "timedWait", "notify", "interrupt", "sleep", "join",
              "native", "start", "fail", "pause"},
    threads |-> 2, depth |-> 1]
CloseProgram == [does |-> {"enter", "exit", "wait", "pause", "close"}, threads |-> 2, depth |-> 1]

SafetyPrograms == {MonitorProgram, BarrierProgram}
LivePrograms == {CloseProgram}

ThreadSymmetry == Permutations(Threads)
=============================================================================

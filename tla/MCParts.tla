------------------------------- MODULE MCParts -------------------------------
(***************************************************************************)
(* Five components, each small, checked side by side: which one a behaviour *)
(* is of is chosen at its start, and the others rest. They share no state in *)
(* the program either.                                                      *)
(*                                                                          *)
(* move: five generations are a save, a load stopped anywhere, its recovery  *)
(* stopped anywhere, two more loads over what they left, and a save under    *)
(* the current owner. walk: three records in both orders. timer: two threads *)
(* schedule a task with two timers, each of which would have a worker of its *)
(* own. budget: two threads, and a limit of two small samples. audio: two    *)
(* sounds, the first with a marked end, and a one-shot, over four moments    *)
(* and three commands.                                                      *)
(***************************************************************************)
EXTENDS SaveOwner, MidpTimer, RecordWalk, HeapBudget, TLC

CONSTANTS t1, t2

VARIABLES
    part,       \* the component the behaviour is of
    now, lastHandle, fine, coarse, fineHeard, coarseHeard, serviced, commands

audioVars == <<now, lastHandle, fine, coarse, fineHeard, coarseHeard, serviced, commands>>
moveVars == <<vars, ownerVars>>

DataRank == [low |-> 1, high |-> 2, out |-> 3]

TwoForOne == 1 :> 2

ThreeSchedules ==
    {[delay |-> 0, period |-> 0, fixedRate |-> FALSE],
     [delay |-> 1, period |-> 1, fixedRate |-> FALSE],
     [delay |-> 0, period |-> 1, fixedRate |-> TRUE]}

Sounds == INSTANCE AudioTimeline WITH
    Clips <- 2, Transients <- 1, Score <- <<<<0, 1, 2>>, <<0, 0, 1>>, <<1>>>>, MarkedEnd <- {1},
    Counts <- {1, 2, -1}, MaxTime <- 4, MaxCommands <- 3, next <- lastHandle

ASSUME AudioTimelineConstants == Sounds!AudioTimelineAssumption

PartsInit ==
    /\ part \in {"move", "walk", "timer", "budget", "audio"}
    /\ OwnerInit /\ WalkInit /\ TimerInit /\ HeapInit /\ Sounds!Init
    /\ sorted => part = "walk"
    /\ countdown = 1 \/ part = "budget"

PartsNext ==
    /\ UNCHANGED part
    /\ \/ part = "move" /\ OwnerNext /\ UNCHANGED <<walkVars, timerVars, heapVars, audioVars>>
       \/ part = "walk" /\ WalkNext /\ UNCHANGED <<moveVars, timerVars, heapVars, audioVars>>
       \/ part = "timer" /\ TimerNext /\ UNCHANGED <<moveVars, walkVars, heapVars, audioVars>>
       \/ part = "budget" /\ HeapNext /\ UNCHANGED <<moveVars, walkVars, timerVars, audioVars>>
       \/ part = "audio" /\ Sounds!Next /\ UNCHANGED <<moveVars, walkVars, timerVars, heapVars>>

PartsSpec == PartsInit /\ [][PartsNext]_<<part, moveVars, walkVars, timerVars, heapVars, audioVars>>

ThreadSymmetry == Permutations({t1, t2})

TicksDoNotMatter == Sounds!TicksDoNotMatter
=============================================================================

------------------------------ MODULE MCOutput ------------------------------
(* The output pipeline with two pictures and two sounds. *)
EXTENDS OutputPipeline
CONSTANTS s1, s2, a, b
MCSlots == {[shows |-> s1, sounding |-> {}], [shows |-> s2, sounding |-> {a}]}

\* What a person asks for in turn, and how often the rest may happen.
Script(asks, draws, notes, lates, pings, exits) ==
    [asks |-> asks, draws |-> draws, notes |-> notes, lates |-> lates, pings |-> pings, exits |-> exits]

MCBounds == {
    Script(<<"resume", "quickLoad", "quickLoad">>, 0, 0, 0, 0, 0),
    Script(<<"resume", "quickLoad">>, 1, 1, 0, 0, 0),
    Script(<<"resume">>, 0, 2, 1, 1, 0),
    Script(<<"start", "stop", "start">>, 1, 0, 0, 0, 0),
    Script(<<"start">>, 0, 3, 0, 1, 1),
    Script(<<"resume", "scale">>, 1, 0, 0, 0, 0) }

\* A page that asks for a new magnification and falls behind.
MCLost == { Script(<<"resume", "scale">>, 0, 1, 1, 0, 0) }
=============================================================================

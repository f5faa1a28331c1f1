---------------------------- MODULE AudioTimeline ----------------------------
(***************************************************************************)
(* The timeline a title's sounds are played on (internal/backend/audio.go,   *)
(* audio_order.go, audio_playback.go, audio_pause.go, audio_transient.go).    *)
(* Audio owns no clock: what is due is emitted when somebody advances it, a   *)
(* Host once per tick and every command before it takes effect. audio.go      *)
(* promises that the ticks do not matter: "a Host batching ticks through a    *)
(* manual clock hears the same sequence a Host running in real time does".    *)
(*                                                                          *)
(* So two timelines are given the same commands. "fine" is advanced at every  *)
(* moment of the guest's clock, "coarse" only when it is serviced. Which       *)
(* voices survive in the output's shared budget is a function of the order in  *)
(* which events reach it, and is left out; a volume moves no event.            *)
(***************************************************************************)
EXTENDS Integers, Sequences, FiniteSets, SequencesExt, FiniteSetsExt

CONSTANTS
    Clips,          \* how many sounds the title has loaded; their handles are 1, 2, ...
    Transients,     \* how many one-shot sounds it may start; theirs come after
    Score,          \* handle -> times of its events
    MarkedEnd,      \* the sounds whose last event only marks where samples end
    Counts,         \* loop counts; -1 is forever
    None,           \* a handle with no sound
    MaxTime, MaxCommands    \* bounds

Handles == 1..Clips + Transients

AudioTimelineAssumption ==
    /\ {Clips, Transients, MaxTime, MaxCommands} \subseteq Nat
    /\ \A h \in Handles : Score[h] # <<>> /\ \A i \in 2..Len(Score[h]) : Score[h][i - 1] <= Score[h][i]
    /\ Counts \subseteq Int \ {0}

VARIABLES
    now,                    \* the guest's clock
    next,                   \* Audio.next
    fine, coarse,           \* Audio.sounds of the two
    fineHeard, coarseHeard, \* what reached their outputs since they were last alike
    serviced,               \* the coarse timeline is as late as the clock
    commands                \* bound

vars == <<now, next, fine, coarse, fineHeard, coarseHeard, serviced, commands>>

Loaded == [playing |-> FALSE, paused |-> FALSE, pausedAt |-> 0, repeat |-> FALSE, remaining |-> 0,
           completed |-> 0, position |-> 0, startedAt |-> 0, cursor |-> 0]

Length(h) == Last(Score[h])

\* soundLoop
Loop(h) == IF h \in MarkedEnd /\ Len(Score[h]) >= 2 THEN Score[h][Len(Score[h]) - 1] ELSE Length(h)

Repeating(s) == s.repeat \/ s.remaining > 0

PassEvents(h, s) == IF Loop(h) < Length(h) /\ Repeating(s) THEN Len(Score[h]) - 1 ELSE Len(Score[h])

Deadline(h, s) == s.startedAt + Score[h][s.cursor + 1]

SoundDue(h, s, time) == s # None /\ s.playing /\ ~s.paused /\ s.cursor < Len(Score[h]) /\ Deadline(h, s) <= time

\* silence: what it cuts was started by events already heard.
Silenced(s) == [s EXCEPT !.playing = FALSE, !.paused = FALSE, !.pausedAt = 0]

Began(s, time) == [s EXCEPT !.startedAt = time, !.cursor = 0, !.position = 0]

\* A pass ends. The one after it begins when it ended, however late that is seen.
PassOver(h, s) ==
    LET pass == IF s.cursor < Len(Score[h]) THEN Loop(h) ELSE Length(h)
        over == [s EXCEPT !.completed = @ + 1, !.position = Length(h)]
    IN  IF ~Repeating(s) \/ pass <= 0 THEN IF h > Clips THEN None ELSE Silenced(over)
        ELSE Began([over EXCEPT !.remaining = IF @ > 0 THEN @ - 1 ELSE 0], s.startedAt + pass)

Emitted(h, s) ==
    LET played == [s EXCEPT !.cursor = @ + 1]
    IN  IF played.cursor >= PassEvents(h, played) THEN PassOver(h, played) ELSE played

\* Faulty: one sound's backlog after another's.
FirstOwner(sounds, due) == Min(due)

\* dueAudio.Less: the earliest, and of several the sound loaded first.
First(sounds, due) ==
    CHOOSE h \in due : \A g \in due \ {h} :
        LET a == Deadline(h, sounds[h])
            b == Deadline(g, sounds[g])
        IN  a < b \/ (a = b /\ h < g)

Positioned(h, s, time) ==
    IF s # None /\ s.playing /\ ~s.paused
    THEN [s EXCEPT !.position = Min({Max({time - s.startedAt, 0}), Length(h)})] ELSE s

\* advanceSounds: what every sound is then, and the events in the order they
\* were emitted, each with the moment it is scheduled for.
RECURSIVE Advanced(_, _)
Advanced(sounds, time) ==
    LET due == {h \in Handles : SoundDue(h, sounds[h], time)}
    IN  IF due = {} THEN [sounds |-> [h \in Handles |-> Positioned(h, sounds[h], time)], heard |-> <<>>]
        ELSE LET h    == First(sounds, due)
                 rest == Advanced([sounds EXCEPT ![h] = Emitted(h, @)], time)
                 event == <<Deadline(h, sounds[h]), h, sounds[h].cursor>>
             IN  [rest EXCEPT !.heard = <<event>> \o @]

Init ==
    /\ now = 0 /\ next = Clips /\ serviced = TRUE /\ commands = 0
    /\ fine = [h \in Handles |-> IF h <= Clips THEN Loaded ELSE None] /\ coarse = fine
    /\ fineHeard = <<>> /\ coarseHeard = <<>>

-----------------------------------------------------------------------------

\* The clock moves on, and with it the fine timeline.
Tick ==
    /\ now < MaxTime /\ now' = now + 1
    /\ LET advanced == Advanced(fine, now + 1)
       IN  fine' = advanced.sounds /\ fineHeard' = (IF serviced THEN <<>> ELSE fineHeard) \o advanced.heard
    /\ coarseHeard' = <<>> /\ serviced' = FALSE
    /\ UNCHANGED <<next, coarse, commands>>

\* Both are advanced, and one sound of each is then changed.
Advance(h, Changed(_)) ==
    /\ LET advanced == Advanced(fine, now)
       IN  /\ fine' = [advanced.sounds EXCEPT ![h] = Changed(@)]
           /\ fineHeard' = fineHeard \o advanced.heard
    /\ LET advanced == Advanced(coarse, now)
       IN  /\ coarse' = [advanced.sounds EXCEPT ![h] = Changed(@)]
           /\ coarseHeard' = coarseHeard \o advanced.heard
    /\ serviced' = TRUE /\ UNCHANGED now

\* The Host's tick, or a title asking where a sound is.
Service == Advance(1, LAMBDA s : s) /\ UNCHANGED <<next, commands>>

Command(h, Changed(_)) ==
    /\ commands < MaxCommands /\ commands' = commands + 1
    /\ fine[h] # None /\ Advance(h, Changed)
    /\ UNCHANGED next

Started(s, count) ==
    [Began(Silenced(s), now) EXCEPT !.playing = TRUE, !.repeat = count = -1,
        !.remaining = IF count > 0 THEN count - 1 ELSE 0, !.completed = 0]

\* Play and PlayCount.
Play(h, count) ==
    /\ count # 1 => Length(h) > 0
    /\ Command(h, LAMBDA s : Started(s, count))

\* The sound keeps its place, whether or not it is playing.
Pause(h) ==
    /\ fine[h] # None /\ ~fine[h].paused
    /\ Command(h, LAMBDA s : [s EXCEPT !.paused = TRUE, !.pausedAt = now])

Resume(h) ==
    /\ fine[h] # None /\ fine[h].paused
    /\ Command(h, LAMBDA s : [s EXCEPT !.paused = FALSE, !.pausedAt = 0, !.startedAt = @ + now - s.pausedAt])

Rewind(h) == Command(h, LAMBDA s : [Began(s, now) EXCEPT !.pausedAt = IF s.paused THEN now ELSE 0])

\* Stop, whose callers advance the timeline first.
Stop(h) == Command(h, LAMBDA s : [Silenced(s) EXCEPT !.position = 0])

Close(h) == Command(h, LAMBDA s : None)

\* SetLoopCount, which a title is let do to a paused sound, once it is advanced.
SetLoopCount(h, count) ==
    /\ fine[h] # None /\ fine[h].paused
    /\ Command(h, LAMBDA s : [s EXCEPT !.repeat = count = -1, !.remaining = IF count > 0 THEN count - 1 ELSE 0])

PlayTransient ==
    /\ next < Clips + Transients /\ next' = next + 1
    /\ commands < MaxCommands /\ commands' = commands + 1
    /\ Advance(next + 1, LAMBDA s : Started(Loaded, 1))

Next ==
    \/ Tick \/ Service \/ PlayTransient
    \/ \E h \in 1..Clips :
        \/ Pause(h) \/ Resume(h) \/ Rewind(h) \/ Stop(h) \/ Close(h)
        \/ \E count \in Counts : Play(h, count) \/ SetLoopCount(h, count)

Spec == Init /\ [][Next]_vars

-----------------------------------------------------------------------------

TypeOK ==
    /\ {now, commands} \subseteq Nat /\ next \in Clips..Clips + Transients /\ serviced \in BOOLEAN
    /\ DOMAIN fine = Handles /\ DOMAIN coarse = Handles
    /\ \A h \in Handles : fine[h] # None =>
        fine[h].cursor \in 0..Len(Score[h]) /\ fine[h].position \in 0..Length(h)

\* However seldom a Host advances the timeline, over however many passes of
\* several sounds and whatever the title does to them between, the same events
\* reach the output in the same order and scheduled for the same moments, and
\* every sound is where it would be (Audio: "a Host batching ticks through a
\* manual clock hears the same sequence a Host running in real time does").
TicksDoNotMatter == serviced => coarse = fine /\ coarseHeard = fineHeard

=============================================================================

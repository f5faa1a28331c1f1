--------------------------- MODULE OutputPipeline ---------------------------
(***************************************************************************)
(* What one connection of the browser host sends its page: the pictures    *)
(* and the sound of a running game, on their way through three goroutines  *)
(* and their bounded queues, and what the page asks for in return.         *)
(*                                                                         *)
(*   loop (the emulator)  --frames, cap 1-->  encoder  --outFrames, cap 1--> *)
(*        |                                                        writer   *)
(*        +------------------ outText, cap TextCap ---------------->  |     *)
(*   page  --commands, cap CommandCap, newest dropped-->  loop        v     *)
(*     ^------------------------------ socket -------------------------     *)
(*                                                                         *)
(* A quick load replaces the game under a running connection: it begins a  *)
(* new epoch, and what the queues still hold of the old one must not reach *)
(* the page after the answer that tells it so.                             *)
(*                                                                         *)
(* Abstracted: a picture is its content and the game it was drawn by, a    *)
(* sound is a member of Sounds that sounds or not (a note, a wave), and    *)
(* every sound needs a definition the page keeps under a number (protocol  *)
(* 2, timed). A message the writer holds is taken by the page one at a     *)
(* time before the writer's next round, which is a socket that blocks as   *)
(* long as the page likes. A connection that breaks is Retention's.        *)
(***************************************************************************)
EXTENDS Integers, Sequences, FiniteSets, SequencesExt

CONSTANTS Screens,     \* what a picture may show
          Sounds,      \* what may sound
          TextCap,     \* outboundBuffer
          CommandCap,  \* commandBuffer
          CollectCap,  \* maxPendingAudio
          Budget,      \* audioDefinitionBudget, in definitions
          Slots,       \* what a quick save may hold: [shows, sounding]
          Bounds       \* how often each part of the environment may act

ASSUME CapsAssumption ==
    /\ TextCap \in Nat \ {0} /\ CommandCap \in Nat \ {0}
    /\ CollectCap \in Nat \ {0} /\ Budget \in Nat \ {0}

VARIABLES epoch,      \* outputEpoch, the one thing three goroutines read
          game,       \* the running game, as the host sees it
          loop,       \* the emulator goroutine and what only it holds
          collector,  \* audioCollector
          frames, outFrames, outText, commands,  \* the queues
          enc,        \* the encoder goroutine
          writer,     \* the writer goroutine
          page,       \* the page at the other end
          left        \* how often the environment may still act

vars == <<epoch, game, loop, collector, frames, outFrames, outText, commands,
          enc, writer, page, left>>

None == "none"

ASSUME ContentAssumption ==
    /\ {None, "garbage"} \cap Screens = {}
    /\ Slots \subseteq [shows : Screens \cup {None}, sounding : SUBSET Sounds]
    /\ \A slot \in Slots : IsFiniteSet(slot.sounding)

(***************************************************************************)
(* Sound: the operations of a batch, their encoding with numbered          *)
(* definitions, and what a page makes of them.                             *)
(***************************************************************************)
AllOff   == [op |-> "allOff", sound |-> None]
Start(s) == [op |-> "start", sound |-> s]
Stop(s)  == [op |-> "stop", sound |-> s]

Replay(sounding) == [i \in 1..Cardinality(sounding) |-> Start(SetToSeq(sounding)[i])]

\* Faulty: the collector clears itself and does not say so.
CollectUnmarked(c, event) ==
    IF Len(c.events) >= CollectCap
      THEN [c EXCEPT !.events = <<AllOff, event>>]
      ELSE [c EXCEPT !.events = Append(@, event)]

\* append of the collector: one operation too many clears what it holds.
Collect(c, event) ==
    IF Len(c.events) >= CollectCap
      THEN [events |-> <<AllOff, event>>, overflowed |-> TRUE]
      ELSE [c EXCEPT !.events = Append(@, event)]

\* The operations of one message and the definitions after it.
Encoded(defs, wire) == [defs |-> defs, wire |-> wire]

Reference(e, s) ==
    LET full == Cardinality({x \in Sounds : e.defs.ids[x] # 0}) >= Budget
        kept == IF full THEN [x \in Sounds |-> 0] ELSE e.defs.ids
        id   == e.defs.last + 1
    IN  IF e.defs.ids[s] # 0
          THEN Encoded(e.defs, Append(e.wire, [op |-> "start", id |-> e.defs.ids[s], sound |-> s]))
          ELSE Encoded([e.defs EXCEPT !.ids = [kept EXCEPT ![s] = id], !.last = id],
                       e.wire \o (IF full THEN <<[op |-> "forget"]>> ELSE << >>)
                              \o <<[op |-> "define", id |-> id, sound |-> s],
                                   [op |-> "start", id |-> id, sound |-> s]>>)

EncodeEvent(e, event) ==
    IF event.op = "start" THEN Reference(e, event.sound)
                          ELSE Encoded(e.defs, Append(e.wire, event))

Encode(defs, events) ==
    LET encoded[n \in 0..Len(events)] ==
            IF n = 0 THEN Encoded([defs EXCEPT !.forget = FALSE],
                                  IF defs.forget THEN <<[op |-> "forget"]>> ELSE << >>)
                     ELSE EncodeEvent(encoded[n - 1], events[n])
    IN  encoded[Len(events)]

NoDefinitions == [ids |-> [s \in Sounds |-> 0], last |-> 0, forget |-> FALSE]

\* Faulty: a lost message's definitions are taken for granted.
DroppedKept(defs) == defs

\* dropped: whatever the lost message defined never reached the page.
Dropped(defs) == [defs EXCEPT !.ids = [s \in Sounds |-> 0], !.forget = TRUE]

\* decode of the page: definitions by number, and the sounds it would start
\* and stop. A sound whose definition never arrived is skipped; that it was is
\* remembered here for the properties alone.
DecodeOp(d, o) ==
    CASE o.op = "forget"  -> [d EXCEPT !.table = {}]
      [] o.op = "define"  -> [d EXCEPT !.table = {e \in @ : e[1] # o.id} \cup {<<o.id, o.sound>>}]
      [] o.op = "allOff"  -> [d EXCEPT !.reset = TRUE, !.sounding = {}]
      [] o.op = "stop"    -> [d EXCEPT !.sounding = @ \ {o.sound}]
      [] o.op = "start"   ->
           LET known == {e \in d.table : e[1] = o.id}
           IN  [d EXCEPT !.skipped = @ \/ known = {},
                         !.sounding = @ \cup {e[2] : e \in known}]

Decode(table, sounding, wire) ==
    LET decoded[n \in 0..Len(wire)] ==
            IF n = 0 THEN [skipped |-> FALSE, reset |-> FALSE, table |-> table, sounding |-> sounding]
                     ELSE DecodeOp(decoded[n - 1], wire[n])
    IN  decoded[Len(wire)]

(***************************************************************************)
(* Messages and commands, each stamped with an epoch by its sender.        *)
(***************************************************************************)
Said(kind)    == [kind |-> kind, epoch |-> epoch]
SoundOf(wire) == [kind |-> "audio", epoch |-> epoch, wire |-> wire]

\* The timeline messages are those a new epoch makes void.
OfTheTimeline(m) == m.kind \in {"audio", "picture"}
TimelineKinds == {"scale", "quickLoad", "audioResume"}

RoomForText == Len(outText) < TextCap

\* What reaches the queue of commands: the newest is dropped when it is full.
Commanded(queue, c) == IF Len(queue) < CommandCap THEN Append(queue, c) ELSE queue

(***************************************************************************)
(* The initial state: a page connected, no game yet. A picture is what it  *)
(* shows and the timeline it was drawn in.                                 *)
(***************************************************************************)
NoPicture == [shows |-> None, line |-> 0]
Garbage   == [shows |-> "garbage", line |-> 0]
Quiet     == [events |-> << >>, overflowed |-> FALSE]

Init ==
    /\ epoch = 0
    /\ game = [on |-> FALSE, shows |-> None, flushed |-> FALSE, sounding |-> {}, epoch |-> 0, line |-> 0]
    /\ loop = [pc |-> "run", then |-> "run", force |-> FALSE, needsReset |-> FALSE,
               audio |-> FALSE, defs |-> NoDefinitions]
    /\ collector = Quiet
    /\ frames = << >> /\ outFrames = << >> /\ outText = << >>
    /\ enc = [pc |-> "idle", epoch |-> 0, base |-> NoPicture, frame |-> << >>]
    /\ writer = [pc |-> "select", batch |-> << >>, picture |-> << >>]
    /\ page = [epoch |-> 0, canvas |-> NoPicture, table |-> {}, sounding |-> {},
               pending |-> FALSE, skipped |-> FALSE]
    /\ left \in Bounds
    /\ commands = << >>

(***************************************************************************)
(* The guest, whenever the loop runs it: within a tick, within its start,  *)
(* and when a loaded game is resumed.                                      *)
(***************************************************************************)
GuestRuns == (loop.pc = "run" /\ game.on) \/ loop.pc \in {"starting", "resuming"}

hostVars == <<epoch, loop, outFrames, outText, commands, enc, writer, page>>

Draws(s) ==
    /\ GuestRuns /\ left.draws > 0 /\ s # game.shows
    /\ game' = [game EXCEPT !.shows = s, !.flushed = TRUE]
    /\ left' = [left EXCEPT !.draws = @ - 1]
    /\ UNCHANGED <<hostVars, collector, frames>>

\* A long guest call offers its picture without waiting for the tick's end.
Offers ==
    /\ GuestRuns /\ game.shows # None /\ frames = << >>
    /\ frames' = <<[shows |-> game.shows, line |-> game.line, force |-> FALSE, epoch |-> game.epoch]>>
    /\ UNCHANGED <<hostVars, game, collector, left>>

Plays(event, sounding) ==
    /\ GuestRuns /\ left.notes > 0
    /\ game' = [game EXCEPT !.sounding = sounding]
    /\ collector' = Collect(collector, event)
    /\ left' = [left EXCEPT !.notes = @ - 1]
    /\ UNCHANGED <<hostVars, frames>>

StartsSound == \E s \in Sounds \ game.sounding : Plays(Start(s), game.sounding \cup {s})
StopsSound  == \E s \in game.sounding : Plays(Stop(s), game.sounding \ {s})

(***************************************************************************)
(* The loop. Its places: "run", where the guest runs, in a tick or for a   *)
(* command, and commands are handled; the sound after a tick; and the      *)
(* answers a command sends, where a message that may not be lost waits for *)
(* room in the queue of text. A tick that leaves nothing to send is no     *)
(* step.                                                                   *)
(***************************************************************************)
\* Faulty: the wish to force a picture is forgotten with a dropped one.
PushForgetting(l) ==
    LET taken == game.shows # None /\ frames = << >>
    IN  /\ frames' = IF taken THEN <<[shows |-> game.shows, line |-> game.line,
                                      force |-> l.force, epoch |-> epoch]>> ELSE frames
        /\ loop' = [l EXCEPT !.force = FALSE]

\* pushFrame: the picture goes to the encoder or is dropped, and the wish to
\* force one stays until one has been handed over.
Push(l) ==
    LET taken == game.shows # None /\ frames = << >>
    IN  /\ frames' = IF taken THEN <<[shows |-> game.shows, line |-> game.line,
                                      force |-> l.force, epoch |-> epoch]>> ELSE frames
        /\ loop' = IF taken THEN [l EXCEPT !.force = FALSE] ELSE l

At(pc) == [loop EXCEPT !.pc = pc]

SoundWaits == loop.needsReset \/ collector # Quiet

TickEnds ==
    /\ loop.pc = "run" /\ game.on
    /\ game.flushed \/ loop.force \/ SoundWaits
    /\ game' = [game EXCEPT !.flushed = FALSE]
    /\ LET l == At(IF SoundWaits THEN "sound" ELSE "run")
       IN  IF game.flushed \/ loop.force THEN Push(l) ELSE frames' = frames /\ loop' = l
    /\ UNCHANGED <<epoch, collector, outFrames, outText, commands, enc, writer, page, left>>

\* sendAudio: encoded against what the page holds, queued, or dropped with the
\* definitions it carried. A whole output snapshot follows a drop.
SendSound(l, events) ==
    LET e == Encode(l.defs, events)
    IN  IF RoomForText
          THEN /\ outText' = Append(outText, SoundOf(e.wire))
               /\ loop' = [l EXCEPT !.defs = e.defs]
          ELSE /\ outText' = outText
               /\ loop' = [l EXCEPT !.defs = Dropped(e.defs), !.needsReset = TRUE]

soundUnchanged == <<epoch, game, frames, outFrames, commands, enc, writer, page, left>>

FlushesSound ==
    /\ loop.pc = "sound"
    /\ ~loop.needsReset /\ ~collector.overflowed
    /\ collector' = Quiet
    /\ IF collector.events = << >> THEN outText' = outText /\ loop' = At("run")
                                   ELSE SendSound(At("run"), collector.events)
    /\ UNCHANGED soundUnchanged

\* A batch was lost: wait for room, then send everything that sounds.
WaitsToRebuild ==
    /\ loop.pc = "sound"
    /\ loop.needsReset \/ collector.overflowed
    /\ collector' = Quiet
    /\ loop' = [loop EXCEPT !.needsReset = TRUE, !.pc = IF RoomForText THEN "rebuild" ELSE "run"]
    /\ UNCHANGED <<outText, soundUnchanged>>

RebuildsSound ==
    /\ loop.pc = "rebuild"
    /\ SendSound([At("run") EXCEPT !.needsReset = FALSE], <<AllOff>> \o Replay(game.sounding))
    /\ UNCHANGED <<collector, soundUnchanged>>

\* A message that may not be lost: the sender waits for room.
SendText(m) == RoomForText /\ outText' = Append(outText, m)

queuesUnchanged == <<frames, outFrames, enc, writer, page, left>>

Command == Head(commands)
TakesCommand(kind) ==
    /\ loop.pc = "run"
    /\ commands # << >>
    /\ Command.kind = kind
    /\ commands' = Tail(commands)

Stale == Command.epoch # epoch

\* A request of an earlier timeline is refused, and answered if it asked for
\* an answer.
RefusesStale ==
    /\ \E kind \in TimelineKinds : TakesCommand(kind) /\ Stale
    /\ IF Command.kind = "quickLoad" THEN SendText(Said("error")) ELSE outText' = outText
    /\ UNCHANGED <<epoch, game, loop, collector, queuesUnchanged>>

\* A new magnification: the current picture is sent again, forced.
HandlesScale ==
    /\ TakesCommand("scale") /\ ~Stale
    /\ IF game.on THEN Push([loop EXCEPT !.force = TRUE])
                  ELSE frames' = frames /\ loop' = loop
    /\ UNCHANGED <<epoch, game, collector, outFrames, outText, enc, writer, page, left>>

HandlesAudioResume ==
    /\ TakesCommand("audioResume") /\ ~Stale
    /\ loop' = IF game.on THEN [loop EXCEPT !.needsReset = TRUE, !.defs = Dropped(@)] ELSE loop
    /\ UNCHANGED <<epoch, game, collector, outText, queuesUnchanged>>

\* closeGame
Closed(l) == [l EXCEPT !.force = FALSE]
NoGame == [game EXCEPT !.on = FALSE, !.shows = None, !.flushed = FALSE, !.sounding = {}]

\* A start closes the game that runs and silences the page before the new one
\* is brought up; a stop closes it and answers.
HandlesStart ==
    /\ TakesCommand("start")
    /\ game' = [NoGame EXCEPT !.epoch = epoch, !.line = epoch]
    /\ loop' = [Closed(loop) EXCEPT !.pc = IF loop.audio THEN "allOff" ELSE "starting", !.then = "starting"]
    /\ collector' = IF loop.audio THEN collector ELSE Quiet
    /\ UNCHANGED <<epoch, outText, queuesUnchanged>>

HandlesStop ==
    /\ TakesCommand("stop")
    /\ game' = NoGame
    /\ loop' = IF game.on THEN [Closed(loop) EXCEPT !.pc = "allOff", !.then = "result"]
                          ELSE At("result")
    /\ UNCHANGED <<epoch, collector, outText, queuesUnchanged>>

\* The game ends itself, in its tick or on a key.
GameExits ==
    /\ loop.pc = "run" /\ game.on /\ left.exits > 0
    /\ left' = [left EXCEPT !.exits = @ - 1]
    /\ game' = NoGame
    /\ loop' = [Closed(loop) EXCEPT !.pc = "allOff", !.then = "result"]
    /\ UNCHANGED <<epoch, collector, outText, commands, frames, outFrames, enc, writer, page>>

\* stopGame: whatever was sounding is released, in a message that waits.
SilencesPage ==
    /\ loop.pc = "allOff"
    /\ RoomForText
    /\ SendSound(At(loop.then), <<AllOff>>)
    /\ collector' = IF loop.then = "starting" THEN Quiet ELSE collector
    /\ UNCHANGED <<epoch, game, commands, queuesUnchanged>>

Answers ==
    /\ loop.pc = "result"
    /\ SendText(Said("result"))
    /\ loop' = At("run")
    /\ UNCHANGED <<epoch, game, collector, commands, queuesUnchanged>>

\* The game is up: the page is told before its first picture is forced.
Started ==
    /\ loop.pc = "starting"
    /\ SendText(Said("started"))
    /\ game' = [game EXCEPT !.on = TRUE, !.flushed = FALSE]
    /\ loop' = [At("pushing") EXCEPT !.then = "sound", !.force = TRUE, !.audio = TRUE]
    /\ UNCHANGED <<epoch, collector, commands, queuesUnchanged>>

\* A parked game comes back as it was left; its sound is rebuilt after its
\* next tick. Asked for while a game runs, only the answer and the picture are
\* sent again.
HandlesResume(slot) ==
    /\ TakesCommand("resume")
    /\ SendText(Said("started"))
    /\ game' = IF game.on THEN game
               ELSE [game EXCEPT !.on = TRUE, !.shows = slot.shows, !.sounding = slot.sounding,
                                 !.epoch = epoch, !.line = epoch]
    /\ loop' = [At("pushing") EXCEPT !.then = "run", !.force = TRUE, !.audio = TRUE,
                                     !.needsReset = @ \/ ~game.on]
    /\ collector' = IF game.on THEN collector ELSE Quiet
    /\ UNCHANGED <<epoch, queuesUnchanged>>

PushesFirst ==
    /\ loop.pc = "pushing"
    /\ Push(At(loop.then))
    /\ UNCHANGED <<epoch, game, collector, outFrames, outText, commands, enc, writer, page, left>>

\* A quick load that cannot be done leaves the running game alone.
RefusesQuickLoad ==
    /\ TakesCommand("quickLoad") /\ ~Stale
    /\ SendText(Said("error"))
    /\ UNCHANGED <<epoch, game, loop, collector, queuesUnchanged>>

\* A quick load that is done replaces the game and begins a new epoch; the
\* encoder and the writer read it at once.
QuickLoads(slot) ==
    /\ TakesCommand("quickLoad") /\ ~Stale /\ game.on
    /\ epoch' = epoch + 1
    /\ game' = [game EXCEPT !.shows = slot.shows, !.sounding = slot.sounding, !.flushed = FALSE,
                            !.epoch = epoch + 1, !.line = @ + 1]
    /\ collector' = Quiet
    /\ loop' = [At("restored") EXCEPT !.defs = NoDefinitions]
    /\ UNCHANGED <<outText, queuesUnchanged>>

TellsRestored ==
    /\ loop.pc = "restored"
    /\ SendText(Said("restored"))
    /\ loop' = At("resuming")
    /\ UNCHANGED <<epoch, game, collector, commands, queuesUnchanged>>

\* The loaded game was resumed, which ran it; its sound is rebuilt and its
\* picture forced.
RebuildsLoaded ==
    /\ loop.pc = "resuming"
    /\ LET l == At("pushLoaded")
       IN  IF game.sounding = {}
             THEN outText' = outText /\ loop' = [l EXCEPT !.needsReset = FALSE]
             ELSE RoomForText /\ SendSound([l EXCEPT !.needsReset = FALSE], Replay(game.sounding))
    /\ collector' = Quiet
    /\ UNCHANGED <<epoch, game, commands, queuesUnchanged>>

PushesLoaded ==
    /\ loop.pc = "pushLoaded"
    /\ Push([At("run") EXCEPT !.force = TRUE])
    /\ game' = [game EXCEPT !.flushed = FALSE]
    /\ UNCHANGED <<epoch, collector, outFrames, outText, commands, enc, writer, page, left>>

HandlesCommand ==
    \/ RefusesStale \/ HandlesScale \/ HandlesAudioResume \/ HandlesStart \/ HandlesStop
    \/ RefusesQuickLoad
    \/ \E slot \in Slots : QuickLoads(slot) \/ HandlesResume(slot)

LoopStep ==
    \/ TickEnds \/ FlushesSound \/ WaitsToRebuild \/ RebuildsSound \/ HandlesCommand
    \/ SilencesPage \/ Answers \/ Started \/ PushesFirst
    \/ TellsRestored \/ RebuildsLoaded \/ PushesLoaded

(***************************************************************************)
(* The encoder.                                                            *)
(***************************************************************************)
encoderUnchanged == <<epoch, game, loop, collector, outText, commands, writer, page, left>>

Encoding == enc.pc # "idle"

TakesFrame ==
    /\ enc.pc = "idle" /\ frames # << >>
    /\ enc' = [enc EXCEPT !.pc = "held", !.frame = frames]
    /\ frames' = << >>
    /\ UNCHANGED <<outFrames, encoderUnchanged>>

\* A new epoch has a new encoder: its first picture is complete.
Base(frame) == IF frame.epoch # enc.epoch THEN NoPicture ELSE enc.base

\* What an update is worth to the page: everything, or what changed on top of
\* the picture before it.
PictureOf(frame) ==
    [kind |-> "picture", epoch |-> frame.epoch, shows |-> frame.shows, line |-> frame.line,
     base |-> IF frame.force THEN NoPicture ELSE Base(frame)]

Needed(frame) == frame.force \/ frame.shows # Base(frame).shows

EncodesFrame ==
    /\ enc.pc = "held"
    /\ LET frame == enc.frame[1]
       IN  enc' = CASE frame.epoch # epoch -> [enc EXCEPT !.pc = "idle", !.frame = << >>]
                    [] frame.epoch = epoch /\ ~Needed(frame) ->
                         [enc EXCEPT !.pc = "idle", !.frame = << >>,
                                     !.epoch = frame.epoch, !.base = Base(frame)]
                    [] OTHER ->
                         [enc EXCEPT !.pc = "put", !.frame = <<PictureOf(frame)>>,
                                     !.epoch = frame.epoch, !.base = Base(frame)]
    /\ UNCHANGED <<frames, outFrames, encoderUnchanged>>

\* The encoder waits for the writer; the base moves when the message is gone.
HandsPicture ==
    /\ enc.pc = "put" /\ outFrames = << >>
    /\ outFrames' = enc.frame
    /\ enc' = [enc EXCEPT !.pc = "idle", !.frame = << >>,
                          !.base = [shows |-> enc.frame[1].shows, line |-> enc.frame[1].line]]
    /\ UNCHANGED <<frames, encoderUnchanged>>

EncoderStep == TakesFrame \/ EncodesFrame \/ HandsPicture

(***************************************************************************)
(* The writer.                                                             *)
(***************************************************************************)
writerUnchanged == <<epoch, game, loop, collector, frames, commands, enc, page, left>>

\* What is queued now goes, and nothing that arrives meanwhile.
TakesText ==
    /\ writer.pc = "select" /\ outText # << >>
    /\ writer' = [writer EXCEPT !.pc = "look", !.batch = outText]
    /\ outText' = << >>
    /\ UNCHANGED <<outFrames, writerUnchanged>>

TakesPicture ==
    /\ writer.pc \in {"select", "look"} /\ outFrames # << >>
    /\ writer' = [writer EXCEPT !.pc = "append", !.picture = outFrames]
    /\ outFrames' = << >>
    /\ UNCHANGED <<outText, writerUnchanged>>

\* Sound waits a moment for a picture that is on its way.
Lingers ==
    /\ \E i \in DOMAIN writer.batch : writer.batch[i].kind = "audio"
    /\ Encoding \/ frames # << >>

\* No picture: either there was none to wait for, or the wait is over and the
\* text that arrived during it goes too.
GoesWithoutPicture ==
    /\ writer.pc = "look"
    /\ IF Lingers
         THEN writer' = [writer EXCEPT !.pc = "write", !.batch = @ \o outText] /\ outText' = << >>
         ELSE outFrames = << >> /\ writer' = [writer EXCEPT !.pc = "write"] /\ outText' = outText
    /\ UNCHANGED <<outFrames, writerUnchanged>>

\* Faulty: a picture goes out without what was queued for it meanwhile.
AppendsAhead ==
    /\ writer.pc = "append"
    /\ writer' = [writer EXCEPT !.pc = "write", !.batch = @ \o writer.picture, !.picture = << >>]
    /\ UNCHANGED <<outFrames, outText, writerUnchanged>>

\* appendPicture: its reset, if any, is queued by now and goes before it.
AppendsPicture ==
    /\ writer.pc = "append"
    /\ writer' = [writer EXCEPT !.pc = "write", !.batch = @ \o outText \o writer.picture, !.picture = << >>]
    /\ outText' = << >>
    /\ UNCHANGED <<outFrames, writerUnchanged>>

Sending(batch) == [pc |-> IF batch = << >> THEN "select" ELSE "sending", batch |-> batch, picture |-> << >>]

Current(m) == OfTheTimeline(m) => m.epoch = epoch

\* What of the first messages of a batch is written.
WrittenOf(batch) ==
    LET written[n \in 0..Len(batch)] ==
            IF n = 0 THEN << >>
            ELSE IF Current(batch[n]) THEN Append(written[n - 1], batch[n])
            ELSE written[n - 1]
    IN  written[Len(batch)]

\* What belongs to an earlier epoch than the one read here is not written.
Writes ==
    /\ writer.pc = "write"
    /\ writer' = Sending(WrittenOf(writer.batch))
    /\ UNCHANGED <<outFrames, outText, writerUnchanged>>

WriterStep == TakesText \/ TakesPicture \/ GoesWithoutPicture \/ AppendsPicture \/ Writes

(***************************************************************************)
(* The page.                                                               *)
(***************************************************************************)
pageUnchanged == <<epoch, game, loop, collector, frames, outFrames, outText, enc>>

Receives(m) ==
    /\ writer.pc = "sending" /\ writer.batch # << >>
    /\ m = Head(writer.batch)
    /\ writer' = Sending(Tail(writer.batch))

\* frame-stream: an update is drawn over whatever the canvas holds.
ReceivesPicture(m) ==
    /\ Receives(m) /\ m.kind = "picture"
    /\ LET drawn == [shows |-> m.shows, line |-> m.line]
       IN  page' = [page EXCEPT !.canvas = IF m.base = NoPicture \/ m.base = page.canvas
                                             THEN drawn ELSE Garbage]
    /\ UNCHANGED <<commands, left, pageUnchanged>>

\* recoverAudio: one request until a reset arrives, and silence meanwhile.
Recovers(p) ==
    IF p.pending
      THEN page' = p /\ commands' = commands
      ELSE /\ page' = [p EXCEPT !.pending = TRUE, !.sounding = {}]
           /\ commands' = Commanded(commands, [kind |-> "audioResume", epoch |-> p.epoch])

\* receiveAudio and deliverAudio. A page that has fallen behind refuses a
\* batch it can no longer place in time, and while it waits for a reset it
\* takes definitions and nothing else.
ReceivesSound(m, refused) ==
    /\ Receives(m) /\ m.kind = "audio"
    /\ refused => left.lates > 0
    /\ left' = [left EXCEPT !.lates = IF refused THEN @ - 1 ELSE @]
    /\ LET d == Decode(page.table, page.sounding, m.wire)
           p == [page EXCEPT !.table = d.table, !.skipped = @ \/ d.skipped]
       IN  \/ /\ page.pending /\ ~d.reset /\ ~refused
              /\ page' = p /\ commands' = commands
           \/ /\ ~page.pending \/ d.reset
              /\ IF refused
                   THEN Recovers([p EXCEPT !.pending = FALSE])
                   ELSE /\ page' = [p EXCEPT !.pending = FALSE, !.sounding = d.sounding]
                        /\ commands' = commands
    /\ UNCHANGED pageUnchanged

\* restored: everything of the timeline before it is put away.
ReceivesRestored(m) ==
    /\ Receives(m) /\ m.kind = "restored"
    /\ page' = IF m.epoch <= page.epoch THEN page
               ELSE [epoch |-> m.epoch, canvas |-> NoPicture, table |-> {}, sounding |-> {},
                     pending |-> FALSE, skipped |-> page.skipped]
    /\ UNCHANGED <<commands, left, pageUnchanged>>

ReceivesStarted(m) ==
    /\ Receives(m) /\ m.kind = "started"
    /\ page' = [page EXCEPT !.epoch = m.epoch, !.pending = FALSE]
    /\ UNCHANGED <<commands, left, pageUnchanged>>

ReceivesAnswer(m) ==
    /\ Receives(m) /\ m.kind \in {"result", "error"}
    /\ UNCHANGED <<page, commands, left, pageUnchanged>>

PageStep ==
    \E m \in {Head(writer.batch) : i \in DOMAIN writer.batch} :
        \/ ReceivesPicture(m)
        \/ \E refused \in BOOLEAN : ReceivesSound(m, refused)
        \/ ReceivesRestored(m) \/ ReceivesStarted(m) \/ ReceivesAnswer(m)

\* What a person asks for, one thing after another and each at any time,
\* stamped with the epoch the page is in.
Asks ==
    /\ left.asks # << >>
    /\ left' = [left EXCEPT !.asks = Tail(@)]
    /\ commands' = Commanded(commands, [kind |-> Head(left.asks), epoch |-> page.epoch])
    /\ UNCHANGED <<epoch, game, loop, collector, frames, outFrames, outText, enc, writer, page>>

\* readCommands answers a ping itself, beside the loop.
AnswersPing ==
    /\ left.pings > 0
    /\ left' = [left EXCEPT !.pings = @ - 1]
    /\ SendText(Said("result"))
    /\ UNCHANGED <<epoch, game, loop, collector, frames, outFrames, commands, enc, writer, page>>

Environment ==
    \/ \E s \in Screens : Draws(s)
    \/ Offers \/ StartsSound \/ StopsSound
    \/ GameExits \/ Asks \/ AnswersPing

Next == LoopStep \/ EncoderStep \/ WriterStep \/ PageStep \/ Environment

Spec == Init /\ [][Next]_vars

Fairness ==
    /\ WF_vars(LoopStep) /\ WF_vars(EncoderStep)
    /\ WF_vars(WriterStep) /\ WF_vars(PageStep)

FairSpec == Spec /\ Fairness

(***************************************************************************)
(* Properties.                                                             *)
(***************************************************************************)
\* The picture on the page's canvas belongs to the timeline the page was told
\* of, and every update was drawn over the picture it was made from: nothing
\* the queues still held of the replaced game comes after the answer to a
\* quick load, and none of the loaded game's pictures before it.
CanvasIsTrue ==
    /\ page.canvas # Garbage
    /\ page.canvas = NoPicture \/ page.canvas.line = page.epoch

\* The page never skips a sound for want of its definition: through forgotten,
\* dropped and renumbered definitions, the two ends agree on what a number means.
SoundsAreDefined ==
    /\ ~page.skipped
    /\ \A e \in page.table, s \in Sounds :
          e[1] = loop.defs.ids[s] /\ page.epoch = epoch => e[2] = s

\* Nothing is on its way, and the page asks for nothing.
AtRest ==
    /\ loop.pc = "run"
    /\ game.on => collector = Quiet /\ ~loop.needsReset
    /\ outText = << >> /\ commands = << >> /\ writer.pc = "select" /\ ~page.pending

\* When everything has arrived, the page sounds exactly what the game sounds:
\* a batch that was dropped, cleared or refused leaves no note behind and
\* swallows none.
SoundAgrees == AtRest => page.sounding = game.sounding

\* A game's first picture, after a start, a return or a quick load, reaches
\* the page even if the loop had to drop it time and again and the game never
\* draws another: when no picture is on its way, the page has one of this
\* timeline.
FirstPictureArrives ==
    (/\ loop.pc = "run" /\ game.on /\ game.shows # None /\ ~loop.force
     /\ frames = << >> /\ ~Encoding /\ outFrames = << >> /\ writer.pc = "select")
        => page.canvas # NoPicture /\ page.canvas.line = epoch

\* A page that gave up its sound gets it back.
SoundComesBack == page.pending ~> ~page.pending
=============================================================================

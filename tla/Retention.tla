------------------------------ MODULE Retention ------------------------------
(***************************************************************************)
(* Session retention in internal/webhost: which page controls a game,      *)
(* which games wait for a page, and which of them owns a save directory.   *)
(*                                                                         *)
(* A runner serves one socket and is the only goroutine inside its game.   *)
(* Every access to the tables below happens under Server.parkedMu, so one  *)
(* action is one critical section; between two of them the runner is       *)
(* outside the lock, at a place its program counter names.                 *)
(***************************************************************************)
EXTENDS Naturals, FiniteSets

CONSTANTS
    Runners,        \* the sockets that are ever opened, one runner each
    Tokens,         \* the browser tokens
    Games,          \* the archives a page can start
    Dirs,           \* the save directories
    SaveDirectory,  \* the save directory of each game, None if it keeps no saves
    Requests,       \* the HTTP requests that write saves
    MaxRetained,    \* maxRetainedSessions
    MaxCommands,    \* bound: starts and resumes the pages ever send
    LateRequests,   \* whether an HTTP save request may take a claim during a stop
    None            \* no runner, no game, no directory, no entry

ASSUME ConstantsAssumption ==
    /\ IsFiniteSet(Runners) /\ IsFiniteSet(Tokens)
    /\ SaveDirectory \in [Games -> Dirs \cup {None}]
    /\ MaxRetained \in Nat \ {0} /\ MaxCommands \in Nat /\ LateRequests \in BOOLEAN
    /\ None \notin Runners \cup Tokens \cup Games \cup Dirs
    /\ None \notin [game : Games, at : Nat]
    /\ None \notin [game : Games, token : Tokens, victim : Nat]

VARIABLES
    server,     \* "up", "draining", and after the process ended "drained" or "overdue"
    parked,     \* Server.parked: token -> the retained game, with the time it was parked
    attached,   \* Server.attached: token -> the runner that controls it
    claims,     \* Server.claims: directory -> "free", "live" or "parked"
    clock,      \* parkings so far; parkedAt of the last of them
    ending,     \* the parked games CloseSessions is closing, each on a goroutine
    awaited,    \* the runners CloseSessions has asked to stop and waits for
    pc,         \* where each runner is
    cmd,        \* what each runner is doing there
    game,       \* the game each runner is starting, playing or closing
    token,      \* sessionRunner.token
    admitted,   \* sessionRunner.admitted
    approval,   \* sessionRunner.startApproval
    gone,       \* the runner's connection context has ended
    stop,       \* sessionRunner.stop is closed
    request,    \* the directory each HTTP save request holds
    commands    \* starts and resumes received so far

tables == <<parked, attached, claims, clock>>
stopping == <<server, ending, awaited>>
vars == <<server, parked, attached, claims, clock, ending, awaited, pc, cmd, game,
          token, admitted, approval, gone, stop, request, commands>>

Entry == [game : Games, at : Nat]
Approval == [game : Games, token : Tokens, victim : Nat]
Start == [kind : {"start"}, game : Games, token : Tokens, confirmed : BOOLEAN]
Resume == [kind : {"resume"}, token : Tokens, owner : Runners \cup {None}]
Idle == [kind |-> "none"]
Ending == [kind |-> "end"]       \* the page or the title ended the game
Leaving == [kind |-> "leave"]    \* the loop has returned
Parking == [kind |-> "park"]     \* the page asked for its game to be parked
HandingOver == [kind |-> "handoff"]
Command == Start \cup Resume \cup {Idle, Ending, Leaving, Parking, HandingOver}

PCs == {"off", "loop", "closing", "reserving", "inspecting", "starting", "unwinding",
        "parking", "asking", "granted", "resuming", "done"}

TypeOK ==
    /\ server \in {"up", "draining", "drained", "overdue"}
    /\ parked \in [Tokens -> Entry \cup {None}]
    /\ attached \in [Tokens -> Runners \cup {None}]
    /\ claims \in [Dirs -> {"free", "live", "parked"}]
    /\ clock \in Nat
    /\ ending \in SUBSET Entry
    /\ awaited \in SUBSET Runners
    /\ pc \in [Runners -> PCs]
    /\ cmd \in [Runners -> Command]
    /\ game \in [Runners -> Games \cup {None}]
    /\ token \in [Runners -> Tokens \cup {None}]
    /\ admitted \in [Runners -> BOOLEAN]
    /\ approval \in [Runners -> Approval \cup {None}]
    /\ gone \in [Runners -> BOOLEAN]
    /\ stop \in [Runners -> BOOLEAN]
    /\ request \in [Requests -> Dirs \cup {None}]
    /\ commands \in 0 .. MaxCommands

Init ==
    /\ server = "up"
    /\ parked = [t \in Tokens |-> None]
    /\ attached = [t \in Tokens |-> None]
    /\ claims = [d \in Dirs |-> "free"]
    /\ clock = 0
    /\ ending = {}
    /\ awaited = {}
    /\ pc = [r \in Runners |-> "off"]
    /\ cmd = [r \in Runners |-> Idle]
    /\ game = [r \in Runners |-> None]
    /\ token = [r \in Runners |-> None]
    /\ admitted = [r \in Runners |-> FALSE]
    /\ approval = [r \in Runners |-> None]
    /\ gone = [r \in Runners |-> FALSE]
    /\ stop = [r \in Runners |-> FALSE]
    /\ request = [q \in Requests |-> None]
    /\ commands = 0

-----------------------------------------------------------------------------
(***************************************************************************)
(* What the critical sections share.                                       *)
(***************************************************************************)

\* releaseSaveDirectoryLocked: whoever holds the claim, it is gone.
ReleaseSaveDirectory(c, d) == IF d = None THEN c ELSE [c EXCEPT ![d] = "free"]

\* takeSaveClaimLocked, where the backend granted its lock.
TakeSaveClaim(c, d) == IF d = None THEN c ELSE [c EXCEPT ![d] = "live"]

\* Faulty: the claim of a resumed game stays open to a takeover.
MarkParkedForGood(c, d, how) ==
    IF d # None /\ c[d] # "free" THEN [c EXCEPT ![d] = "parked"] ELSE c

\* A held claim says whether its holder is waiting for a page.
MarkParked(c, d, how) == IF d # None /\ c[d] # "free" THEN [c EXCEPT ![d] = how] ELSE c

Holders(d) == {t \in Tokens : parked[t] # None /\ SaveDirectory[parked[t].game] = d}

ParkedTokens == {t \in Tokens : parked[t] # None}

AdmittedTokens == {t \in Tokens : attached[t] # None /\ admitted[attached[t]]}

RetainedCount == Cardinality(ParkedTokens) + Cardinality(AdmittedTokens)

\* The runner's tables after releaseSession(r.token, r).
ReleaseSession(r) ==
    IF token[r] # None /\ attached[token[r]] = r
    THEN /\ attached' = [attached EXCEPT ![token[r]] = None]
         /\ admitted' = [admitted EXCEPT ![r] = FALSE]
    ELSE UNCHANGED <<attached, admitted>>

Goto(r, where, what) ==
    /\ pc' = [pc EXCEPT ![r] = where]
    /\ cmd' = [cmd EXCEPT ![r] = what]

-----------------------------------------------------------------------------
(***************************************************************************)
(* A runner's socket and the closing of its game.                          *)
(***************************************************************************)

Connect(r) ==
    /\ pc[r] = "off"
    /\ Goto(r, "loop", Idle)
    /\ UNCHANGED <<tables, stopping, game, token, admitted, approval, gone, stop,
                   request, commands>>

Disconnect(r) ==
    /\ pc[r] \notin {"off", "done"} /\ ~gone[r]
    /\ gone' = [gone EXCEPT ![r] = TRUE]
    /\ UNCHANGED <<tables, stopping, pc, cmd, game, token, admitted, approval, stop,
                   request, commands>>

\* The first half of closeGame: the token is given up before the game is closed.
BeginClose(r, why) ==
    /\ Goto(r, "closing", why)
    /\ ReleaseSession(r)
    /\ UNCHANGED <<stopping, parked, claims, clock, game, token, approval, gone, stop,
                   request>>

\* The rest of closeGame: game.Close has returned, so the saves are written.
FinishClose(r) ==
    /\ pc[r] = "closing"
    /\ game' = [game EXCEPT ![r] = None]
    /\ claims' = ReleaseSaveDirectory(claims, SaveDirectory[game[r]])
    /\ token' = [token EXCEPT ![r] = None]
    /\ \/ /\ cmd[r].kind = "start"
          /\ Goto(r, "reserving", cmd[r])
       \/ /\ cmd[r].kind = "leave"
          /\ Goto(r, "done", Idle)
       \/ /\ cmd[r].kind = "end"
          /\ Goto(r, "loop", Idle)
    /\ UNCHANGED <<stopping, parked, attached, clock, admitted, approval, gone, stop,
                   request, commands>>

\* The title exited or failed, or the page stopped it.
EndGame(r) ==
    /\ pc[r] = "loop" /\ game[r] # None
    /\ BeginClose(r, Ending)
    /\ UNCHANGED commands

\* Faulty: the loop looks for stop only while it has a game.
StopForServerWithGame(r) ==
    /\ pc[r] = "loop" /\ stop[r] /\ game[r] # None
    /\ BeginClose(r, Leaving)
    /\ UNCHANGED commands

\* The loop found stop closed: stopForServer, then run's end.
StopForServer(r) ==
    /\ pc[r] = "loop" /\ stop[r]
    /\ \/ /\ game[r] # None
          /\ BeginClose(r, Leaving)
       \/ /\ game[r] = None
          /\ Goto(r, "done", Idle)
          /\ UNCHANGED <<tables, stopping, game, token, admitted, approval, gone,
                         stop, request>>
    /\ UNCHANGED commands

-----------------------------------------------------------------------------
(***************************************************************************)
(* Starting a game.                                                        *)
(***************************************************************************)

\* A start closes the runner's own game first.
ReceiveStart(r, start) ==
    /\ pc[r] = "loop" /\ commands < MaxCommands
    /\ start.confirmed => approval[r] # None
    /\ commands' = commands + 1
    /\ \/ /\ game[r] # None
          /\ BeginClose(r, start)
       \/ /\ game[r] = None
          /\ Goto(r, "reserving", start)
          /\ UNCHANGED <<tables, stopping, game, token, admitted, approval, gone,
                         stop, request>>

\* Faulty: a game waiting under the token is overlooked.
ReservableIfUnattached(t) == attached[t] = None

\* Nobody controls the token's game and none waits under it.
Reservable(t) == attached[t] = None /\ parked[t] = None

ReserveSession(r) ==
    /\ pc[r] = "reserving"
    /\ LET t == cmd[r].token IN
       \/ /\ Reservable(t)
          /\ attached' = [attached EXCEPT ![t] = r]
          /\ token' = [token EXCEPT ![r] = t]
          /\ Goto(r, "inspecting", cmd[r])
       \/ /\ ~Reservable(t)
          /\ Goto(r, "loop", Idle)
          /\ UNCHANGED <<attached, token>>
    /\ UNCHANGED <<stopping, parked, claims, clock, game, admitted, approval, gone,
                   stop, request, commands>>

\* The archive cannot be read or inspected, or its save owner names no directory.
InspectFails(r) ==
    /\ pc[r] = "inspecting"
    /\ Goto(r, "unwinding", cmd[r])
    /\ UNCHANGED <<tables, stopping, game, token, admitted, approval, gone, stop,
                   request, commands>>

\* The directory is held by another game or by a save request.
ClaimHeld(r) ==
    LET d == SaveDirectory[cmd[r].game] IN d # None /\ claims[d] # "free"

\* Faulty: the limit is checked after the new game was counted.
FullTooLate == RetainedCount > MaxRetained

Full == RetainedCount >= MaxRetained

Oldest == {t \in ParkedTokens : \A u \in ParkedTokens : parked[t].at <= parked[u].at}

\* The parked games one of which has to end for r's start: the game that
\* holds the same saves, or the oldest when there is no room.
Victims(r) ==
    IF ClaimHeld(r) THEN Holders(SaveDirectory[cmd[r].game])
    ELSE IF Full THEN Oldest
    ELSE {}

\* admitStart refuses without offering anything to confirm.
Refused(r) ==
    \/ server # "up"
    \/ ClaimHeld(r) /\ claims[SaveDirectory[cmd[r].game]] = "live"
    \/ (ClaimHeld(r) \/ Full) /\ Victims(r) = {}

\* Faulty: an approval is good for whatever game now stands in the way.
ApprovedForAny(r, t) ==
    /\ cmd[r].confirmed /\ approval[r] # None
    /\ approval[r].game = cmd[r].game /\ approval[r].token = cmd[r].token

Approved(r, t) ==
    /\ cmd[r].confirmed
    /\ approval[r] = [game |-> cmd[r].game, token |-> cmd[r].token, victim |-> parked[t].at]

AdmitRefused(r) ==
    /\ pc[r] = "inspecting" /\ Refused(r)
    /\ approval' = [approval EXCEPT ![r] = None]
    /\ Goto(r, "unwinding", cmd[r])
    /\ UNCHANGED <<tables, stopping, game, token, admitted, gone, stop, request,
                   commands>>

AdmitAsks(r) ==
    /\ pc[r] = "inspecting" /\ ~Refused(r)
    /\ \E t \in Victims(r) :
         /\ ~Approved(r, t)
         /\ approval' = [approval EXCEPT ![r] =
                [game |-> cmd[r].game, token |-> cmd[r].token, victim |-> parked[t].at]]
    /\ Goto(r, "unwinding", cmd[r])
    /\ UNCHANGED <<tables, stopping, game, token, admitted, gone, stop, request,
                   commands>>

\* The claim on the game's saves, once the victim's was released. The backend
\* refuses it when another process holds the directory or it cannot be locked.
ClaimAndStart(r, free) ==
    LET d == SaveDirectory[cmd[r].game] IN
    /\ approval' = [approval EXCEPT ![r] = None]
    /\ \/ /\ claims' = TakeSaveClaim(free, d)
          /\ admitted' = [admitted EXCEPT ![r] = TRUE]
          /\ game' = [game EXCEPT ![r] = cmd[r].game]
          /\ Goto(r, "starting", cmd[r])
       \/ /\ d # None
          /\ claims' = free
          /\ Goto(r, "unwinding", cmd[r])
          /\ UNCHANGED <<admitted, game>>
    /\ UNCHANGED <<stopping, attached, clock, token, gone, stop, request, commands>>

AdmitOver(r) ==
    /\ pc[r] = "inspecting" /\ ~Refused(r)
    /\ \E t \in Victims(r) :
         /\ Approved(r, t)
         /\ parked' = [parked EXCEPT ![t] = None]
         /\ ClaimAndStart(r, ReleaseSaveDirectory(claims, SaveDirectory[parked[t].game]))

AdmitFree(r) ==
    /\ pc[r] = "inspecting" /\ ~Refused(r) /\ Victims(r) = {}
    /\ ClaimAndStart(r, claims)
    /\ UNCHANGED parked

StartSucceeds(r) ==
    /\ pc[r] = "starting"
    /\ Goto(r, "loop", Idle)
    /\ UNCHANGED <<tables, stopping, game, token, admitted, approval, gone, stop,
                   request, commands>>

StartFails(r) ==
    /\ pc[r] = "starting"
    /\ game' = [game EXCEPT ![r] = None]
    /\ claims' = ReleaseSaveDirectory(claims, SaveDirectory[game[r]])
    /\ Goto(r, "unwinding", cmd[r])
    /\ UNCHANGED <<stopping, parked, attached, clock, token, admitted, approval, gone,
                   stop, request, commands>>

\* startGame's deferred stopGame, for a start that left no game behind.
Unwind(r) ==
    /\ pc[r] = "unwinding"
    /\ ReleaseSession(r)
    /\ token' = [token EXCEPT ![r] = None]
    /\ Goto(r, "loop", Idle)
    /\ UNCHANGED <<stopping, parked, claims, clock, game, approval, gone, stop, request,
                   commands>>

-----------------------------------------------------------------------------
(***************************************************************************)
(* Parking a game and handing it to another page.                          *)
(***************************************************************************)

BeginPark(r, why) ==
    /\ pc[r] = "loop" /\ game[r] # None
    /\ Goto(r, "parking", why)
    /\ UNCHANGED <<tables, stopping, game, token, admitted, approval, gone, stop,
                   request, commands>>

ParkAsked(r) == BeginPark(r, Parking)

\* Faulty: a loop without a game does not look at its context.
LeaveWithGame(r) == pc[r] = "loop" /\ gone[r] /\ BeginPark(r, Leaving)

\* The socket is gone: the loop returns, and a game still running is parked.
Leave(r) ==
    /\ pc[r] = "loop" /\ gone[r]
    /\ \/ BeginPark(r, Leaving)
       \/ /\ game[r] = None
          /\ Goto(r, "done", Idle)
          /\ UNCHANGED <<tables, stopping, game, token, admitted, approval, gone,
                         stop, request, commands>>

\* Faulty: a game that a stopping server closes leaves its claim behind.
ClaimsAfterParkLeaked(t, g) == MarkParked(claims, SaveDirectory[g], "parked")

\* The claim table once the token's earlier game is closed and g is parked.
ClaimsAfterPark(t, g) ==
    LET replaced == IF parked[t] = None THEN claims
                    ELSE ReleaseSaveDirectory(claims, SaveDirectory[parked[t].game])
    IN  IF server # "up" THEN ReleaseSaveDirectory(replaced, SaveDirectory[g])
        ELSE MarkParked(replaced, SaveDirectory[g], "parked")

ParkedAfterPark(t, g) ==
    [parked EXCEPT ![t] = IF server # "up" THEN None ELSE [game |-> g, at |-> clock + 1]]

\* parkSession, and what its caller does next. A stopping server closes the
\* game instead of keeping it.
ParkSession(r) ==
    /\ pc[r] = "parking"
    /\ LET t == token[r] IN
       /\ parked' = ParkedAfterPark(t, game[r])
       /\ claims' = ClaimsAfterPark(t, game[r])
       /\ clock' = IF server # "up" THEN clock ELSE clock + 1
       /\ admitted' = [s \in Runners |-> admitted[s] /\ attached[t] # s]
       /\ attached' = [attached EXCEPT ![t] = None]
    /\ game' = [game EXCEPT ![r] = None]
    /\ token' = [token EXCEPT ![r] = None]
    /\ pc' = [s \in Runners |->
                 IF s = r THEN IF cmd[r].kind = "leave" THEN "done" ELSE "loop"
                 ELSE IF cmd[r].kind = "handoff" /\ pc[s] = "granted" /\ cmd[s].owner = r
                 THEN "resuming"
                 ELSE pc[s]]
    /\ cmd' = [cmd EXCEPT ![r] = Idle]
    /\ UNCHANGED <<stopping, approval, gone, stop, request, commands>>

\* A resume by a page that has no game. A token another runner controls is
\* asked for, if that page is gone or this one may take over.
ReceiveResume(r, t, takeover) ==
    LET owner == attached[t] IN
    /\ pc[r] = "loop" /\ game[r] = None /\ commands < MaxCommands
    /\ owner # None => takeover \/ gone[owner]
    /\ commands' = commands + 1
    /\ Goto(r, IF owner = None THEN "resuming" ELSE "asking",
            [kind |-> "resume", token |-> t, owner |-> owner])
    /\ UNCHANGED <<tables, stopping, game, token, admitted, approval, gone, stop, request>>

\* The owner takes the request between two rounds and checks it again.
Handoff(owner, r) ==
    /\ pc[owner] = "loop" /\ pc[r] = "asking" /\ cmd[r].owner = owner
    /\ \/ /\ game[owner] # None /\ token[owner] = cmd[r].token
          /\ pc' = [pc EXCEPT ![owner] = "parking", ![r] = "granted"]
          /\ cmd' = [cmd EXCEPT ![owner] = HandingOver]
       \/ \* the request names another game, or has just expired
          /\ pc' = [pc EXCEPT ![r] = "resuming"]
          /\ UNCHANGED cmd
    /\ UNCHANGED <<tables, stopping, game, token, admitted, approval, gone, stop,
                   request, commands>>

\* Faulty: nothing wakes a page whose request the owner never took.
OwnerDoneOnceTaken(r) ==
    /\ pc[r] = "granted" /\ pc[cmd[r].owner] = "done"
    /\ Goto(r, "resuming", cmd[r])
    /\ UNCHANGED <<tables, stopping, game, token, admitted, approval, gone, stop, request,
                   commands>>

\* The owner's run has ended, so whatever it had is parked or closed.
OwnerDone(r) ==
    /\ pc[r] \in {"asking", "granted"} /\ pc[cmd[r].owner] = "done"
    /\ Goto(r, "resuming", cmd[r])
    /\ UNCHANGED <<tables, stopping, game, token, admitted, approval, gone, stop,
                   request, commands>>

HandoffTimeout(r) ==
    /\ pc[r] \in {"asking", "granted"}
    /\ Goto(r, "loop", Idle)
    /\ UNCHANGED <<tables, stopping, game, token, admitted, approval, gone, stop,
                   request, commands>>

ResumeSession(r) ==
    /\ pc[r] = "resuming"
    /\ LET t == cmd[r].token IN
       \/ /\ parked[t] # None
          /\ parked' = [parked EXCEPT ![t] = None]
          /\ attached' = [attached EXCEPT ![t] = r]
          /\ admitted' = [admitted EXCEPT ![r] = TRUE]
          /\ claims' = MarkParked(claims, SaveDirectory[parked[t].game], "live")
          /\ game' = [game EXCEPT ![r] = parked[t].game]
          /\ token' = [token EXCEPT ![r] = t]
       \/ /\ parked[t] = None
          /\ UNCHANGED <<parked, attached, admitted, claims, game, token>>
    /\ Goto(r, "loop", Idle)
    /\ UNCHANGED <<stopping, clock, approval, gone, stop, request, commands>>

-----------------------------------------------------------------------------
(***************************************************************************)
(* HTTP requests that write saves: a save import takes a parked game's     *)
(* directory over, one save API write does not.                            *)
(***************************************************************************)

HoldSaveDirectory(q, d, takeParked) ==
    /\ request[q] = None
    /\ server = "up" \/ LateRequests
    /\ claims[d] = "free" \/ (takeParked /\ claims[d] = "parked")
    /\ \E granted \in BOOLEAN :
         /\ claims' = [claims EXCEPT ![d] = IF granted THEN "live" ELSE "free"]
         /\ request' = [request EXCEPT ![q] = IF granted THEN d ELSE None]
    \* takeParkedHolderLocked: the holder is closed, if it is still parked
    /\ \/ /\ claims[d] = "parked"
          /\ \E t \in Holders(d) : parked' = [parked EXCEPT ![t] = None]
       \/ /\ claims[d] = "free" \/ Holders(d) = {}
          /\ UNCHANGED parked
    /\ UNCHANGED <<stopping, attached, clock, pc, cmd, game, token, admitted, approval,
                   gone, stop, commands>>

\* The write has ended, well or not, and the deferred release runs.
RequestDone(q) ==
    /\ request[q] # None
    /\ claims' = ReleaseSaveDirectory(claims, request[q])
    /\ request' = [request EXCEPT ![q] = None]
    /\ UNCHANGED <<stopping, parked, attached, clock, pc, cmd, game, token, admitted, approval,
                   gone, stop, commands>>

-----------------------------------------------------------------------------
(***************************************************************************)
(* Stopping the server.                                                    *)
(***************************************************************************)

\* Faulty: only runners whose game is up are asked.
ToStopPlaying == {r \in Runners : admitted[r] /\ pc[r] # "starting" /\ \E t \in Tokens : attached[t] = r}

\* The runners CloseSessions asks to stop.
ToStop == {r \in Runners : admitted[r] /\ \E t \in Tokens : attached[t] = r}

\* CloseSessions up to its unlock.
CloseSessions ==
    /\ server = "up"
    /\ server' = "draining"
    /\ ending' = {parked[t] : t \in ParkedTokens}
    /\ parked' = [t \in Tokens |-> None]
    /\ awaited' = ToStop
    /\ stop' = [r \in Runners |-> stop[r] \/ r \in ToStop]
    /\ UNCHANGED <<attached, claims, clock, pc, cmd, game, token, admitted, approval,
                   gone, request, commands>>

\* One of its goroutines: the parked game's close has returned.
ParkedGameClosed(e) ==
    /\ e \in ending
    /\ ending' = ending \ {e}
    /\ claims' = ReleaseSaveDirectory(claims, SaveDirectory[e.game])
    /\ UNCHANGED <<server, awaited, parked, attached, clock, pc, cmd, game, token, admitted,
                   approval, gone, stop, request, commands>>

Released == /\ ending = {}
            /\ \A r \in awaited : pc[r] = "done"

\* Everything was released and the HTTP drain has finished: the process ends.
Drained ==
    /\ server = "draining" /\ Released
    /\ \A q \in Requests : request[q] = None
    /\ server' = "drained"
    /\ UNCHANGED <<ending, awaited, tables, pc, cmd, game, token, admitted, approval,
                   gone, stop, request, commands>>

\* The stop deadline passes first, and the process ends all the same.
DeadlinePasses ==
    /\ server = "draining" /\ (~Released \/ \E q \in Requests : request[q] # None)
    /\ server' = "overdue"
    /\ UNCHANGED <<ending, awaited, tables, pc, cmd, game, token, admitted, approval,
                   gone, stop, request, commands>>

-----------------------------------------------------------------------------
\* Once the process has ended nothing happens any more.
Alive == server \in {"up", "draining"}

\* What a runner does on its own, without a page or a timer.
RunnerStep(r) ==
    /\ Alive
    /\ \/ FinishClose(r) \/ StopForServer(r) \/ ReserveSession(r) \/ InspectFails(r)
       \/ AdmitRefused(r) \/ AdmitAsks(r) \/ AdmitOver(r) \/ AdmitFree(r)
       \/ StartSucceeds(r) \/ StartFails(r) \/ Unwind(r)
       \/ Leave(r) \/ ParkSession(r) \/ OwnerDone(r) \/ ResumeSession(r)
       \/ \E s \in Runners : Handoff(r, s)

\* What depends on a page, a title or the clock.
PageStep(r) ==
    /\ Alive
    /\ \/ Connect(r) \/ Disconnect(r) \/ EndGame(r) \/ ParkAsked(r) \/ HandoffTimeout(r)
       \/ \E start \in Start : ReceiveStart(r, start)
       \/ \E t \in Tokens, takeover \in BOOLEAN : ReceiveResume(r, t, takeover)

RequestHolds(q) ==
    /\ Alive
    /\ \E d \in Dirs, takeParked \in BOOLEAN : HoldSaveDirectory(q, d, takeParked)

RequestEnds(q) == Alive /\ RequestDone(q)

\* What a stop waits for.
StopProgress == Alive /\ ((\E e \in ending : ParkedGameClosed(e)) \/ Drained)

StopStep == Alive /\ (CloseSessions \/ DeadlinePasses)

Next ==
    \/ \E r \in Runners : RunnerStep(r) \/ PageStep(r)
    \/ \E q \in Requests : RequestHolds(q) \/ RequestEnds(q)
    \/ StopProgress \/ StopStep

Spec == Init /\ [][Next]_vars

(***************************************************************************)
(* Fairness: a runner's goroutine and the close goroutines keep running,   *)
(* guest calls and closes return (internal/backend/bounds.go bounds them)  *)
(* and a request's handler ends. Nothing is assumed of pages, of the       *)
(* ten-second handoff timer or of the stop deadline.                       *)
(***************************************************************************)
Fairness ==
    /\ \A r \in Runners : WF_vars(RunnerStep(r))
    /\ \A q \in Requests : WF_vars(RequestEnds(q))
    /\ WF_vars(StopProgress)

FairSpec == Spec /\ Fairness

-----------------------------------------------------------------------------
(***************************************************************************)
(* Properties.                                                             *)
(***************************************************************************)

\* The games a runner is starting, playing or closing in d.
LiveIn(d) == {r \in Runners : game[r] # None /\ SaveDirectory[game[r]] = d}

\* The games nobody watches: parked, or being closed by a stopping server.
KeptIn(d) == {e \in ending \cup {parked[t] : t \in ParkedTokens} : SaveDirectory[e.game] = d}

RequestsIn(d) == {q \in Requests : request[q] = d}

\* Everybody who may write into d.
Writers(d) ==
    ({"live"} \X LiveIn(d)) \cup ({"kept"} \X KeptIn(d)) \cup ({"request"} \X RequestsIn(d))

\* A save directory has at most one writer: two would overwrite each other's
\* saves silently (saveclaim.go, "One game, one save directory, one session").
SaveExclusion == \A d \in Dirs : \A v, w \in Writers(d) : v = w

\* A claim lives exactly as long as its holder and says truly whether the
\* holder can be taken over: a leaked one would lock a game out for good, and
\* one marked parked for a live game would let an import write under it.
ClaimsMatchWriters ==
    \A d \in Dirs :
        /\ claims[d] = "free" <=> Writers(d) = {}
        /\ claims[d] = "parked" <=> KeptIn(d) # {}

\* A token names one game: it is controlled by a runner or waits for one, never
\* both, and the runner the table names is the one that believes it.
OneControllerPerToken ==
    /\ \A t \in Tokens : attached[t] # None => parked[t] = None /\ token[attached[t]] = t
    /\ \A r \in Runners :
           game[r] # None /\ pc[r] # "closing" => token[r] # None /\ attached[token[r]] = r

\* Games in use and games kept stay within the limit together. A game that is
\* being closed has given its room away.
WithinCapacity ==
    Cardinality({r \in Runners : game[r] # None /\ pc[r] # "closing"})
        + Cardinality(ParkedTokens) <= MaxRetained

\* A parked game ends or is resumed only for a reason: its own token's page came
\* back, a page confirmed the loss of exactly this parking of it, a person
\* restored saves into its directory, or the server stops. The game a page is asked
\* to give up holds the saves it wants or is the oldest, and an approval does not
\* carry over to a game parked later under the same token.
ResumedBy(r, t) == attached'[t] = r /\ game'[r] = parked[t].game /\ pc[r] = "resuming"

ConfirmedBy(r, t) ==
    /\ cmd[r].kind = "start" /\ pc[r] = "inspecting" /\ cmd[r].confirmed
    /\ approval[r] # None
    /\ approval[r].game = cmd[r].game /\ approval[r].token = cmd[r].token
    /\ approval[r].victim = parked[t].at
    /\ \/ SaveDirectory[parked[t].game] = SaveDirectory[cmd[r].game]
       \/ \A u \in ParkedTokens : parked[t].at <= parked[u].at

RestoredOver(t) ==
    /\ UNCHANGED pc
    /\ claims[SaveDirectory[parked[t].game]] = "parked"
    /\ claims'[SaveDirectory[parked[t].game]] # "parked"

ParkedGamesAreKept ==
    [][\A t \in ParkedTokens :
          \/ parked'[t] = parked[t]
          \/ server' # "up"
          \/ RestoredOver(t)
          \/ \E r \in Runners : ResumedBy(r, t) \/ ConfirmedBy(r, t)]_vars

\* When a stop has waited for everything it waits for, no game is left but one
\* its page had already stopped: none parked, none starting, none playing.
StopLeavesNoGame ==
    server = "drained" =>
        /\ ParkedTokens = {} /\ ending = {}
        /\ \A r \in Runners : game[r] # None => pc[r] = "closing"

\* The directories' users follow SaveOwnership: nobody takes a directory from a
\* live game or from a save request.
Ownership == INSTANCE SaveOwnership WITH
    LiveGames <- {"live"} \X Runners,
    KeptGames <- {"kept"} \X Entry,
    SaveRequests <- {"request"} \X Requests,
    users <- [d \in Dirs |-> Writers(d)]

OwnershipSpec == Ownership!Spec

\* A runner whose page is gone lets go of its game and ends.
LostPagesAreLeft == \A r \in Runners : gone[r] ~> pc[r] = "done" \/ ~Alive

\* A stop ends by itself, without its deadline.
StopCompletes == server = "draining" ~> ~Alive

\* A resume that asked another runner is answered, without the timeout: runners
\* never wait for each other in a circle, nor for one that has ended.
HandoffsAreAnswered ==
    \A r \in Runners : pc[r] \in {"asking", "granted"} ~>
        pc[r] \notin {"asking", "granted"} \/ ~Alive

\* resume.go: "CloseSessions ends every game the server holds", and "Only an
\* admitted runner has a game or is starting one".
StopEndsEveryGame == server = "drained" => \A r \in Runners : game[r] = None
=============================================================================

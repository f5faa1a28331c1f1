--------------------------- MODULE RetentionProofs ---------------------------
(***************************************************************************)
(* Theorems about Retention, for any number of sockets, tokens, games,     *)
(* directories and requests.                                               *)
(***************************************************************************)
EXTENDS Retention, FiniteSetTheorems, TLAPS

USE ConstantsAssumption DEF Entry

-----------------------------------------------------------------------------
\* A command's kind says which record it is.
LEMMA CommandKinds ==
    ASSUME NEW c \in Command
    PROVE  /\ c.kind = "start" => c \in Start
           /\ c.kind = "resume" => c \in Resume
  BY DEF Command, Start, Resume, Idle, Ending, Leaving, Parking, HandingOver

LEMMA Commands ==
    /\ {Idle, Ending, Leaving, Parking, HandingOver} \subseteq Command
    /\ Start \subseteq Command /\ Resume \subseteq Command
  BY DEF Command

\* What a released, taken or re-marked claim table is.
LEMMA ClaimTables ==
    ASSUME NEW c \in [Dirs -> {"free", "live", "parked"}], NEW d \in Dirs \cup {None},
           NEW how \in {"live", "parked"}
    PROVE  /\ ReleaseSaveDirectory(c, d) \in [Dirs -> {"free", "live", "parked"}]
           /\ TakeSaveClaim(c, d) \in [Dirs -> {"free", "live", "parked"}]
           /\ MarkParked(c, d, how) \in [Dirs -> {"free", "live", "parked"}]
  BY DEF ReleaseSaveDirectory, TakeSaveClaim, MarkParked

-----------------------------------------------------------------------------
(***************************************************************************)
(* Where a runner is determines what it has. Outside closeGame the         *)
(* attached table and the runner's token agree.                            *)
(***************************************************************************)
\* Places with neither game nor token, with a token alone, and with both.
EmptyHanded == {"off", "reserving", "asking", "granted", "resuming", "done"}
WithToken == {"inspecting", "unwinding"}
WithGame == {"starting", "parking", "closing"}

RunnerOK(r) ==
    /\ pc[r] \in EmptyHanded => game[r] = None /\ token[r] = None
    /\ pc[r] \in WithToken => game[r] = None /\ token[r] # None
    /\ pc[r] \in WithGame => game[r] # None /\ token[r] # None
    /\ pc[r] = "loop" => (game[r] = None <=> token[r] = None)
    /\ pc[r] \in {"reserving", "inspecting", "starting", "unwinding"} => cmd[r] \in Start
    /\ pc[r] \in {"asking", "granted", "resuming"} => cmd[r] \in Resume
    /\ pc[r] \in {"asking", "granted"} => cmd[r].owner \in Runners
    /\ token[r] # None /\ pc[r] # "closing" => attached[token[r]] = r

TokenOK(t) ==
    attached[t] # None =>
        /\ parked[t] = None
        /\ token[attached[t]] = t
        /\ pc[attached[t]] # "closing"

ControlInv == TypeOK /\ (\A r \in Runners : RunnerOK(r)) /\ (\A t \in Tokens : TokenOK(t))

LEMMA InitControl == Init => ControlInv
  BY DEF Init, ControlInv, TypeOK, RunnerOK, TokenOK, EmptyHanded, WithToken, WithGame, PCs,
         Command, Idle, Approval

LEMMA CloseControl ==
    ASSUME ControlInv, NEW r \in Runners, pc[r] = "loop", game[r] # None,
           NEW why \in Command, BeginClose(r, why), commands' \in 0 .. MaxCommands
    PROVE  ControlInv'
  <1> USE DEF ControlInv, BeginClose, Goto, ReleaseSession, stopping
  <1>1. TypeOK'
    BY DEF TypeOK, PCs
  <1>2. \A s \in Runners : RunnerOK(s)'
    BY DEF TypeOK, RunnerOK, TokenOK, EmptyHanded, WithToken, WithGame
  <1>3. \A t \in Tokens : TokenOK(t)'
    BY DEF TypeOK, RunnerOK, TokenOK
  <1>4. QED
    BY <1>1, <1>2, <1>3

LEMMA StartControl ==
    ASSUME ControlInv, NEW r \in Runners, pc[r] = "inspecting",
           NEW free \in [Dirs -> {"free", "live", "parked"}],
           parked' \in [Tokens -> Entry \cup {None}],
           \A t \in Tokens : parked'[t] \in {parked[t], None},
           ClaimAndStart(r, free)
    PROVE  ControlInv'
  <1> USE DEF ControlInv, ClaimAndStart, Goto, stopping
  <1>1. cmd[r] \in Start /\ cmd[r].game \in Games
    BY DEF RunnerOK, Start
  <1>2. SaveDirectory[cmd[r].game] \in Dirs \cup {None}
    BY <1>1
  <1>3. claims' \in [Dirs -> {"free", "live", "parked"}]
    BY <1>2, ClaimTables
  <1>4. TypeOK'
    <2>1. approval' \in [Runners -> Approval \cup {None}]
      BY DEF TypeOK
    <2>2. game' \in [Runners -> Games \cup {None}]
      BY <1>1 DEF TypeOK
    <2>3. admitted' \in [Runners -> BOOLEAN]
      BY DEF TypeOK
    <2>4. pc' \in [Runners -> PCs] /\ cmd' \in [Runners -> Command]
      BY DEF TypeOK, PCs
    <2>5. QED
      BY <1>3, <2>1, <2>2, <2>3, <2>4 DEF TypeOK
  <1>5. \A q \in Runners : RunnerOK(q)'
    BY <1>1 DEF TypeOK, RunnerOK, TokenOK, EmptyHanded, WithToken, WithGame
  <1>6. \A t \in Tokens : TokenOK(t)'
    BY DEF TypeOK, RunnerOK, TokenOK
  <1>7. QED
    BY <1>4, <1>5, <1>6

LEMMA NextControl == ControlInv /\ [Next]_vars => ControlInv'
  <1> SUFFICES ASSUME ControlInv, [Next]_vars PROVE ControlInv'
    OBVIOUS
  <1> USE DEF ControlInv
  <1>1. ASSUME NEW r \in Runners, Connect(r)
        PROVE  ControlInv'
    <2>1. TypeOK'
      BY <1>1, Commands DEF Connect, Goto, tables, stopping, TypeOK, PCs
    <2>2. \A q \in Runners : RunnerOK(q)'
      BY <1>1 DEF Connect, Goto, tables, stopping, TypeOK, RunnerOK, TokenOK, EmptyHanded,
         WithToken, WithGame
    <2>3. \A t \in Tokens : TokenOK(t)'
      BY <1>1 DEF Connect, Goto, tables, stopping, TypeOK, RunnerOK, TokenOK, EmptyHanded,
         WithToken, WithGame
    <2>4. QED
      BY <2>1, <2>2, <2>3
  <1>2. ASSUME NEW r \in Runners, Disconnect(r)
        PROVE  ControlInv'
    <2>1. TypeOK'
      BY <1>2, Commands DEF Disconnect, Goto, tables, stopping, TypeOK, PCs
    <2>2. \A q \in Runners : RunnerOK(q)'
      BY <1>2 DEF Disconnect, Goto, tables, stopping, TypeOK, RunnerOK, TokenOK,
         EmptyHanded, WithToken, WithGame
    <2>3. \A t \in Tokens : TokenOK(t)'
      BY <1>2 DEF Disconnect, Goto, tables, stopping, TypeOK, RunnerOK, TokenOK,
         EmptyHanded, WithToken, WithGame
    <2>4. QED
      BY <2>1, <2>2, <2>3
  <1>3. ASSUME NEW r \in Runners, FinishClose(r)
        PROVE  ControlInv'
    <2>1. TypeOK'
      BY <1>3, Commands DEF FinishClose, ReleaseSaveDirectory, Goto, tables, stopping,
         TypeOK, PCs, RunnerOK, WithGame
    <2>2. \A q \in Runners : RunnerOK(q)'
      BY <1>3, CommandKinds DEF FinishClose, ReleaseSaveDirectory, Goto, tables, stopping,
         TypeOK, RunnerOK, TokenOK, EmptyHanded, WithToken, WithGame
    <2>3. \A t \in Tokens : TokenOK(t)'
      BY <1>3 DEF FinishClose, ReleaseSaveDirectory, Goto, tables, stopping, TypeOK,
         RunnerOK, TokenOK, EmptyHanded, WithToken, WithGame
    <2>4. QED
      BY <2>1, <2>2, <2>3
  <1>4. ASSUME NEW r \in Runners, EndGame(r)
        PROVE  ControlInv'
    BY <1>4, CloseControl, Commands DEF EndGame, TypeOK
  <1>5. ASSUME NEW r \in Runners, StopForServer(r)
        PROVE  ControlInv'
    <2>1. CASE game[r] # None
      BY <1>5, <2>1, CloseControl, Commands DEF StopForServer, TypeOK
    <2>2. CASE game[r] = None
      <3>1. TypeOK'
        BY <1>5, <2>2, Commands DEF StopForServer, Goto, tables, stopping, TypeOK, PCs
      <3>2. \A q \in Runners : RunnerOK(q)'
        BY <1>5, <2>2 DEF StopForServer, Goto, tables, stopping, TypeOK, RunnerOK, TokenOK,
           EmptyHanded, WithToken, WithGame
      <3>3. \A t \in Tokens : TokenOK(t)'
        BY <1>5, <2>2 DEF StopForServer, Goto, tables, stopping, TypeOK, RunnerOK, TokenOK
      <3>4. QED
        BY <3>1, <3>2, <3>3
    <2>3. QED
      BY <2>1, <2>2
  <1>6. ASSUME NEW r \in Runners, NEW start \in Start, ReceiveStart(r, start)
        PROVE  ControlInv'
    <2>1. commands' \in 0 .. MaxCommands
      BY <1>6 DEF ReceiveStart, TypeOK
    <2>2. CASE game[r] # None
      BY <1>6, <2>1, <2>2, CloseControl, Commands DEF ReceiveStart
    <2>3. CASE game[r] = None
      <3>1. TypeOK'
        BY <1>6, <2>1, <2>3, Commands DEF ReceiveStart, Goto, tables, stopping, TypeOK, PCs
      <3>2. \A q \in Runners : RunnerOK(q)'
        BY <1>6, <2>3 DEF ReceiveStart, Goto, tables, stopping, TypeOK, RunnerOK, TokenOK,
           EmptyHanded, WithToken, WithGame
      <3>3. \A t \in Tokens : TokenOK(t)'
        BY <1>6, <2>3 DEF ReceiveStart, Goto, tables, stopping, TypeOK, RunnerOK, TokenOK
      <3>4. QED
        BY <3>1, <3>2, <3>3
    <2>4. QED
      BY <2>2, <2>3
  <1>7. ASSUME NEW r \in Runners, ReserveSession(r)
        PROVE  ControlInv'
    <2>1. TypeOK'
      BY <1>7, Commands DEF ReserveSession, Reservable, Start, Goto, tables, stopping,
         TypeOK, PCs, RunnerOK, Start
    <2>2. \A q \in Runners : RunnerOK(q)'
      BY <1>7 DEF ReserveSession, Reservable, Start, Goto, tables, stopping, TypeOK,
         RunnerOK, TokenOK, EmptyHanded, WithToken, WithGame
    <2>3. \A t \in Tokens : TokenOK(t)'
      BY <1>7 DEF ReserveSession, Reservable, Start, Goto, tables, stopping, TypeOK,
         RunnerOK, TokenOK, EmptyHanded, WithToken, WithGame
    <2>4. QED
      BY <2>1, <2>2, <2>3
  <1>8. ASSUME NEW r \in Runners, InspectFails(r)
        PROVE  ControlInv'
    <2>1. TypeOK'
      BY <1>8, Commands DEF InspectFails, Goto, tables, stopping, TypeOK, PCs
    <2>2. \A q \in Runners : RunnerOK(q)'
      BY <1>8 DEF InspectFails, Goto, tables, stopping, TypeOK, RunnerOK, TokenOK,
         EmptyHanded, WithToken, WithGame
    <2>3. \A t \in Tokens : TokenOK(t)'
      BY <1>8 DEF InspectFails, Goto, tables, stopping, TypeOK, RunnerOK, TokenOK,
         EmptyHanded, WithToken, WithGame
    <2>4. QED
      BY <2>1, <2>2, <2>3
  <1>9. ASSUME NEW r \in Runners, AdmitRefused(r)
        PROVE  ControlInv'
    <2>1. TypeOK'
      BY <1>9, Commands DEF AdmitRefused, Goto, tables, stopping, TypeOK, PCs
    <2>2. \A q \in Runners : RunnerOK(q)'
      BY <1>9 DEF AdmitRefused, Goto, tables, stopping, TypeOK, RunnerOK, TokenOK,
         EmptyHanded, WithToken, WithGame
    <2>3. \A t \in Tokens : TokenOK(t)'
      BY <1>9 DEF AdmitRefused, Goto, tables, stopping, TypeOK, RunnerOK, TokenOK,
         EmptyHanded, WithToken, WithGame
    <2>4. QED
      BY <2>1, <2>2, <2>3
  <1>10. ASSUME NEW r \in Runners, AdmitAsks(r)
        PROVE  ControlInv'
    <2>1. TypeOK'
      BY <1>10, Commands DEF AdmitAsks, Victims, Holders, Oldest, ParkedTokens, Goto,
         tables, stopping, TypeOK, PCs, RunnerOK, Start, Approval
    <2>2. \A q \in Runners : RunnerOK(q)'
      BY <1>10 DEF AdmitAsks, Victims, Holders, Oldest, ParkedTokens, Goto, tables,
         stopping, TypeOK, RunnerOK, TokenOK, EmptyHanded, WithToken, WithGame
    <2>3. \A t \in Tokens : TokenOK(t)'
      BY <1>10 DEF AdmitAsks, Victims, Holders, Oldest, ParkedTokens, Goto, tables,
         stopping, TypeOK, RunnerOK, TokenOK, EmptyHanded, WithToken, WithGame
    <2>4. QED
      BY <2>1, <2>2, <2>3
  <1>11. ASSUME NEW r \in Runners, AdmitOver(r)
        PROVE  ControlInv'
    <2>1. PICK t \in Victims(r) :
               /\ parked' = [parked EXCEPT ![t] = None]
               /\ ClaimAndStart(r, ReleaseSaveDirectory(claims,
                  SaveDirectory[parked[t].game]))
      BY <1>11 DEF AdmitOver
    <2>2. t \in Tokens /\ parked[t] # None
      BY DEF Victims, Holders, Oldest, ParkedTokens
    <2>3. SaveDirectory[parked[t].game] \in Dirs \cup {None}
      BY <2>2 DEF TypeOK
    <2>4. ReleaseSaveDirectory(claims, SaveDirectory[parked[t].game])
              \in [Dirs -> {"free", "live", "parked"}]
      BY <2>3, ClaimTables DEF TypeOK
    <2>5. QED
      BY <1>11, <2>1, <2>2, <2>4, StartControl DEF AdmitOver, TypeOK
  <1>12. ASSUME NEW r \in Runners, AdmitFree(r)
        PROVE  ControlInv'
    BY <1>12, StartControl DEF AdmitFree, TypeOK
  <1>13. ASSUME NEW r \in Runners, StartSucceeds(r)
        PROVE  ControlInv'
    <2>1. TypeOK'
      BY <1>13, Commands DEF StartSucceeds, Goto, tables, stopping, TypeOK, PCs
    <2>2. \A q \in Runners : RunnerOK(q)'
      BY <1>13 DEF StartSucceeds, Goto, tables, stopping, TypeOK, RunnerOK, TokenOK,
         EmptyHanded, WithToken, WithGame
    <2>3. \A t \in Tokens : TokenOK(t)'
      BY <1>13 DEF StartSucceeds, Goto, tables, stopping, TypeOK, RunnerOK, TokenOK,
         EmptyHanded, WithToken, WithGame
    <2>4. QED
      BY <2>1, <2>2, <2>3
  <1>14. ASSUME NEW r \in Runners, StartFails(r)
        PROVE  ControlInv'
    <2>1. TypeOK'
      BY <1>14, Commands DEF StartFails, ReleaseSaveDirectory, Goto, tables, stopping,
         TypeOK, PCs
    <2>2. \A q \in Runners : RunnerOK(q)'
      BY <1>14 DEF StartFails, ReleaseSaveDirectory, Goto, tables, stopping, TypeOK,
         RunnerOK, TokenOK, EmptyHanded, WithToken, WithGame
    <2>3. \A t \in Tokens : TokenOK(t)'
      BY <1>14 DEF StartFails, ReleaseSaveDirectory, Goto, tables, stopping, TypeOK,
         RunnerOK, TokenOK, EmptyHanded, WithToken, WithGame
    <2>4. QED
      BY <2>1, <2>2, <2>3
  <1>15. ASSUME NEW r \in Runners, Unwind(r)
        PROVE  ControlInv'
    <2>1. TypeOK'
      BY <1>15, Commands DEF Unwind, ReleaseSession, Goto, tables, stopping, TypeOK, PCs
    <2>2. \A q \in Runners : RunnerOK(q)'
      BY <1>15 DEF Unwind, ReleaseSession, Goto, tables, stopping, TypeOK, RunnerOK,
         TokenOK, EmptyHanded, WithToken, WithGame
    <2>3. \A t \in Tokens : TokenOK(t)'
      BY <1>15 DEF Unwind, ReleaseSession, Goto, tables, stopping, TypeOK, RunnerOK,
         TokenOK, EmptyHanded, WithToken, WithGame
    <2>4. QED
      BY <2>1, <2>2, <2>3
  <1>16. ASSUME NEW r \in Runners, ParkAsked(r)
        PROVE  ControlInv'
    <2>1. TypeOK'
      BY <1>16, Commands DEF ParkAsked, BeginPark, Goto, tables, stopping, TypeOK, PCs
    <2>2. \A q \in Runners : RunnerOK(q)'
      BY <1>16 DEF ParkAsked, BeginPark, Goto, tables, stopping, TypeOK, RunnerOK, TokenOK,
         EmptyHanded, WithToken, WithGame
    <2>3. \A t \in Tokens : TokenOK(t)'
      BY <1>16 DEF ParkAsked, BeginPark, Goto, tables, stopping, TypeOK, RunnerOK, TokenOK,
         EmptyHanded, WithToken, WithGame
    <2>4. QED
      BY <2>1, <2>2, <2>3
  <1>17. ASSUME NEW r \in Runners, Leave(r)
        PROVE  ControlInv'
    <2>1. TypeOK'
      BY <1>17, Commands DEF Leave, BeginPark, Goto, tables, stopping, TypeOK, PCs
    <2>2. \A q \in Runners : RunnerOK(q)'
      BY <1>17 DEF Leave, BeginPark, Goto, tables, stopping, TypeOK, RunnerOK, TokenOK,
         EmptyHanded, WithToken, WithGame
    <2>3. \A t \in Tokens : TokenOK(t)'
      BY <1>17 DEF Leave, BeginPark, Goto, tables, stopping, TypeOK, RunnerOK, TokenOK,
         EmptyHanded, WithToken, WithGame
    <2>4. QED
      BY <2>1, <2>2, <2>3
  <1>18. ASSUME NEW r \in Runners, ParkSession(r)
        PROVE  ControlInv'
    <2>1. TypeOK'
      <3>1. claims' \in [Dirs -> {"free", "live", "parked"}]
        <4>1. claims' = ClaimsAfterPark(token[r], game[r])
          BY <1>18 DEF ParkSession
        <4>2. QED
          BY <4>1 DEF ClaimsAfterPark, ReleaseSaveDirectory, MarkParked, TypeOK
      <3>2. parked' \in [Tokens -> Entry \cup {None}]
        BY <1>18 DEF ParkSession, ParkedAfterPark, TypeOK, RunnerOK, WithGame, Entry
      <3>3. pc' \in [Runners -> PCs]
        BY <1>18 DEF ParkSession, TypeOK, PCs
      <3>4. clock' \in Nat /\ attached' \in [Tokens -> Runners \cup {None}]
        BY <1>18 DEF ParkSession, TypeOK, RunnerOK, WithGame
      <3>5. /\ game' \in [Runners -> Games \cup {None}]
            /\ token' \in [Runners -> Tokens \cup {None}]
        BY <1>18 DEF ParkSession, TypeOK
      <3>6. cmd' \in [Runners -> Command]
        BY <1>18, Commands DEF ParkSession, TypeOK
      <3>7. admitted' \in [Runners -> BOOLEAN]
        BY <1>18 DEF ParkSession, TypeOK
      <3>8. UNCHANGED <<server, ending, awaited, approval, gone, stop, request, commands>>
        BY <1>18 DEF ParkSession, stopping
      <3>9. QED
        BY <3>1, <3>2, <3>3, <3>4, <3>5, <3>6, <3>7, <3>8 DEF TypeOK
    <2>2. \A q \in Runners : RunnerOK(q)'
      BY <1>18 DEF ParkSession, ParkedAfterPark, ClaimsAfterPark, ReleaseSaveDirectory,
         MarkParked, Goto, tables, stopping, TypeOK, RunnerOK, TokenOK, EmptyHanded,
         WithToken, WithGame
    <2>3. \A t \in Tokens : TokenOK(t)'
      BY <1>18 DEF ParkSession, ParkedAfterPark, ClaimsAfterPark, ReleaseSaveDirectory,
         MarkParked, Goto, tables, stopping, TypeOK, RunnerOK, TokenOK, EmptyHanded,
         WithToken, WithGame
    <2>4. QED
      BY <2>1, <2>2, <2>3
  <1>19. ASSUME NEW r \in Runners, OwnerDone(r)
        PROVE  ControlInv'
    <2>1. TypeOK'
      BY <1>19, Commands DEF OwnerDone, Goto, tables, stopping, TypeOK, PCs
    <2>2. \A q \in Runners : RunnerOK(q)'
      BY <1>19 DEF OwnerDone, Goto, tables, stopping, TypeOK, RunnerOK, TokenOK,
         EmptyHanded, WithToken, WithGame
    <2>3. \A t \in Tokens : TokenOK(t)'
      BY <1>19 DEF OwnerDone, Goto, tables, stopping, TypeOK, RunnerOK, TokenOK,
         EmptyHanded, WithToken, WithGame
    <2>4. QED
      BY <2>1, <2>2, <2>3
  <1>20. ASSUME NEW r \in Runners, HandoffTimeout(r)
        PROVE  ControlInv'
    <2>1. TypeOK'
      BY <1>20, Commands DEF HandoffTimeout, Goto, tables, stopping, TypeOK, PCs
    <2>2. \A q \in Runners : RunnerOK(q)'
      BY <1>20 DEF HandoffTimeout, Goto, tables, stopping, TypeOK, RunnerOK, TokenOK,
         EmptyHanded, WithToken, WithGame
    <2>3. \A t \in Tokens : TokenOK(t)'
      BY <1>20 DEF HandoffTimeout, Goto, tables, stopping, TypeOK, RunnerOK, TokenOK,
         EmptyHanded, WithToken, WithGame
    <2>4. QED
      BY <2>1, <2>2, <2>3
  <1>21. ASSUME NEW r \in Runners, ResumeSession(r)
        PROVE  ControlInv'
    <2> DEFINE t == cmd[r].token
    <2>1. t \in Tokens
      BY <1>21 DEF ResumeSession, RunnerOK, Resume
    <2>2. CASE parked[t] = None
      <3>1. TypeOK'
        BY <1>21, <2>2, Commands DEF ResumeSession, Goto, stopping, TypeOK, PCs
      <3>2. QED
        BY <1>21, <2>1, <2>2, <3>1 DEF ResumeSession, Goto, stopping, TypeOK, RunnerOK,
           TokenOK, EmptyHanded, WithToken, WithGame
    <2>3. CASE parked[t] # None
      <3>1. parked[t].game \in Games /\ SaveDirectory[parked[t].game] \in Dirs \cup {None}
        BY <2>1, <2>3 DEF TypeOK
      <3>2. claims' \in [Dirs -> {"free", "live", "parked"}]
        BY <1>21, <2>3, <3>1, ClaimTables DEF ResumeSession, TypeOK
      <3>3. TypeOK'
        <4>1. game' \in [Runners -> Games \cup {None}] /\ token' \in [Runners -> Tokens \cup
           {None}]
          BY <1>21, <2>1, <2>3, <3>1 DEF ResumeSession, TypeOK
        <4>2. /\ parked' \in [Tokens -> Entry \cup {None}]
              /\ attached' \in [Tokens -> Runners \cup {None}]
          BY <1>21, <2>1, <2>3 DEF ResumeSession, TypeOK
        <4>3. admitted' \in [Runners -> BOOLEAN]
          BY <1>21, <2>1, <2>3 DEF ResumeSession, TypeOK
        <4>4. pc' \in [Runners -> PCs] /\ cmd' \in [Runners -> Command]
          BY <1>21, Commands DEF ResumeSession, Goto, TypeOK, PCs
        <4>5. QED
          BY <1>21, <3>2, <4>1, <4>2, <4>3, <4>4 DEF ResumeSession, Goto, stopping, TypeOK
      <3>4. \A q \in Runners : RunnerOK(q)'
        BY <1>21, <2>1, <2>3, <3>1 DEF ResumeSession, Goto, stopping, TypeOK, RunnerOK,
           TokenOK, EmptyHanded, WithToken, WithGame
      <3>5. \A u \in Tokens : TokenOK(u)'
        BY <1>21, <2>1, <2>3 DEF ResumeSession, Goto, stopping, TypeOK, RunnerOK, TokenOK,
           EmptyHanded
      <3>6. QED
        BY <3>3, <3>4, <3>5
    <2>4. QED
      BY <2>2, <2>3
  <1>22. ASSUME NEW r \in Runners, NEW s \in Runners, Handoff(r, s)
        PROVE  ControlInv'
    <2>1. TypeOK'
      BY <1>22, Commands DEF Handoff, Goto, tables, stopping, TypeOK, PCs
    <2>2. \A q \in Runners : RunnerOK(q)'
      BY <1>22 DEF Handoff, Goto, tables, stopping, TypeOK, RunnerOK, TokenOK, EmptyHanded,
         WithToken, WithGame
    <2>3. \A t \in Tokens : TokenOK(t)'
      BY <1>22 DEF Handoff, Goto, tables, stopping, TypeOK, RunnerOK, TokenOK, EmptyHanded,
         WithToken, WithGame
    <2>4. QED
      BY <2>1, <2>2, <2>3
  <1>23. ASSUME NEW r \in Runners, NEW t \in Tokens, NEW takeover \in BOOLEAN,
     ReceiveResume(r, t, takeover)
        PROVE  ControlInv'
    <2>1. TypeOK'
      BY <1>23, Commands DEF ReceiveResume, Resume, Goto, tables, stopping, TypeOK, PCs
    <2>2. \A q \in Runners : RunnerOK(q)'
      BY <1>23 DEF ReceiveResume, Resume, Goto, tables, stopping, TypeOK, RunnerOK, TokenOK,
         EmptyHanded, WithToken, WithGame
    <2>3. \A u \in Tokens : TokenOK(u)'
      BY <1>23 DEF ReceiveResume, Resume, Goto, tables, stopping, TypeOK, RunnerOK, TokenOK,
         EmptyHanded, WithToken, WithGame
    <2>4. QED
      BY <2>1, <2>2, <2>3
  <1>24. ASSUME NEW q \in Requests, NEW d \in Dirs, NEW take \in BOOLEAN,
     HoldSaveDirectory(q, d, take)
        PROVE  ControlInv'
    <2>1. TypeOK'
      BY <1>24 DEF HoldSaveDirectory, Holders, Goto, tables, stopping, TypeOK, PCs
    <2>2. \A s \in Runners : RunnerOK(s)'
      BY <1>24 DEF HoldSaveDirectory, Holders, Goto, tables, stopping, TypeOK, RunnerOK,
         TokenOK, EmptyHanded, WithToken, WithGame
    <2>3. \A t \in Tokens : TokenOK(t)'
      BY <1>24 DEF HoldSaveDirectory, Holders, Goto, tables, stopping, TypeOK, RunnerOK,
         TokenOK, EmptyHanded, WithToken, WithGame
    <2>4. QED
      BY <2>1, <2>2, <2>3
  <1>25. ASSUME NEW q \in Requests, RequestDone(q)
        PROVE  ControlInv'
    <2>1. TypeOK'
      BY <1>25 DEF RequestDone, ReleaseSaveDirectory, Goto, tables, stopping, TypeOK, PCs
    <2>2. \A s \in Runners : RunnerOK(s)'
      BY <1>25 DEF RequestDone, ReleaseSaveDirectory, Goto, tables, stopping, TypeOK,
         RunnerOK, TokenOK, EmptyHanded, WithToken, WithGame
    <2>3. \A t \in Tokens : TokenOK(t)'
      BY <1>25 DEF RequestDone, ReleaseSaveDirectory, Goto, tables, stopping, TypeOK,
         RunnerOK, TokenOK, EmptyHanded, WithToken, WithGame
    <2>4. QED
      BY <2>1, <2>2, <2>3
  <1>26. ASSUME CloseSessions
        PROVE  ControlInv'
    <2>1. TypeOK'
      BY <1>26 DEF CloseSessions, ToStop, ParkedTokens, Goto, tables, stopping, TypeOK, PCs
    <2>2. \A q \in Runners : RunnerOK(q)'
      BY <1>26 DEF CloseSessions, ToStop, ParkedTokens, Goto, tables, stopping, TypeOK,
         RunnerOK, TokenOK, EmptyHanded, WithToken, WithGame
    <2>3. \A t \in Tokens : TokenOK(t)'
      BY <1>26 DEF CloseSessions, ToStop, ParkedTokens, Goto, tables, stopping, TypeOK,
         RunnerOK, TokenOK, EmptyHanded, WithToken, WithGame
    <2>4. QED
      BY <2>1, <2>2, <2>3
  <1>27. ASSUME NEW e \in ending, ParkedGameClosed(e)
        PROVE  ControlInv'
    <2>1. TypeOK'
      BY <1>27 DEF ParkedGameClosed, ReleaseSaveDirectory, Goto, tables, stopping, TypeOK,
         PCs
    <2>2. \A q \in Runners : RunnerOK(q)'
      BY <1>27 DEF ParkedGameClosed, ReleaseSaveDirectory, Goto, tables, stopping, TypeOK,
         RunnerOK, TokenOK, EmptyHanded, WithToken, WithGame
    <2>3. \A t \in Tokens : TokenOK(t)'
      BY <1>27 DEF ParkedGameClosed, ReleaseSaveDirectory, Goto, tables, stopping, TypeOK,
         RunnerOK, TokenOK, EmptyHanded, WithToken, WithGame
    <2>4. QED
      BY <2>1, <2>2, <2>3
  <1>28. ASSUME Drained
        PROVE  ControlInv'
    <2>1. TypeOK'
      BY <1>28 DEF Drained, Goto, tables, stopping, TypeOK, PCs
    <2>2. \A q \in Runners : RunnerOK(q)'
      BY <1>28 DEF Drained, Goto, tables, stopping, TypeOK, RunnerOK, TokenOK, EmptyHanded,
         WithToken, WithGame
    <2>3. \A t \in Tokens : TokenOK(t)'
      BY <1>28 DEF Drained, Goto, tables, stopping, TypeOK, RunnerOK, TokenOK, EmptyHanded,
         WithToken, WithGame
    <2>4. QED
      BY <2>1, <2>2, <2>3
  <1>29. ASSUME DeadlinePasses
        PROVE  ControlInv'
    <2>1. TypeOK'
      BY <1>29 DEF DeadlinePasses, Goto, tables, stopping, TypeOK, PCs
    <2>2. \A q \in Runners : RunnerOK(q)'
      BY <1>29 DEF DeadlinePasses, Goto, tables, stopping, TypeOK, RunnerOK, TokenOK,
         EmptyHanded, WithToken, WithGame
    <2>3. \A t \in Tokens : TokenOK(t)'
      BY <1>29 DEF DeadlinePasses, Goto, tables, stopping, TypeOK, RunnerOK, TokenOK,
         EmptyHanded, WithToken, WithGame
    <2>4. QED
      BY <2>1, <2>2, <2>3
  <1>30. ASSUME UNCHANGED vars
        PROVE  ControlInv'
    <2>1. TypeOK'
      BY <1>30 DEF vars, TypeOK, PCs
    <2>2. \A q \in Runners : RunnerOK(q)'
      BY <1>30 DEF vars, TypeOK, RunnerOK, TokenOK, EmptyHanded, WithToken, WithGame
    <2>3. \A t \in Tokens : TokenOK(t)'
      BY <1>30 DEF vars, TypeOK, RunnerOK, TokenOK, EmptyHanded, WithToken, WithGame
    <2>4. QED
      BY <2>1, <2>2, <2>3
  <1>31. QED
    BY <1>1, <1>2, <1>3, <1>4, <1>5, <1>6, <1>7, <1>8, <1>9, <1>10, <1>11, <1>12, <1>13,
       <1>14, <1>15, <1>16, <1>17, <1>18, <1>19, <1>20, <1>21, <1>22, <1>23, <1>24, <1>25,
       <1>26, <1>27, <1>28, <1>29, <1>30 DEF Next, RunnerStep, PageStep, RequestHolds,
       RequestEnds, StopProgress, StopStep

(***************************************************************************)
(* Who is in a directory, by the table that knows it. The claim is free    *)
(* when nobody is, marked parked when a kept game is, and live when a game *)
(* or a request is; and nobody is there twice. It is inductive only while  *)
(* no save request takes a claim during a stop.                            *)
(***************************************************************************)
EndingIn(d) == {e \in ending : SaveDirectory[e.game] = d}

AtMostOne(S) == \A x, y \in S : x = y

\* c is the claim, L the live games, H the parked ones, E the ending ones and
\* Q the requests of one directory.
DirIs(c, L, H, E, Q) ==
    /\ c = "free" => L = {} /\ Q = {}
    /\ c # "parked" => H = {} /\ E = {}
    /\ c = "parked" => L = {} /\ Q = {} /\ (H # {} \/ E # {})
    /\ c = "live" => L # {} \/ Q # {}
    /\ AtMostOne(L) /\ AtMostOne(Q) /\ AtMostOne(H) /\ AtMostOne(E)
    /\ L = {} \/ Q = {}
    /\ H = {} \/ E = {}

DirOK(d) == DirIs(claims[d], LiveIn(d), Holders(d), EndingIn(d), RequestsIn(d))

StopOK == IF server = "up" THEN ending = {} ELSE \A t \in Tokens : parked[t] = None

ClaimInv == ControlInv /\ StopOK /\ \A d \in Dirs : DirOK(d)

LEMMA InitClaim == Init => ClaimInv
  BY InitControl DEF Init, ClaimInv, StopOK, DirOK, DirIs, LiveIn, Holders, EndingIn, RequestsIn,
     AtMostOne

\* Nobody entered or left a directory and no claim changed.
LEMMA Untouched ==
    ASSUME UNCHANGED <<game, parked, claims, ending, request>>, NEW d \in Dirs, DirOK(d)
    PROVE  DirOK(d)'
  BY DEF DirOK, DirIs, LiveIn, Holders, EndingIn, RequestsIn, AtMostOne

LEMMA NextClaim == ~LateRequests /\ ClaimInv /\ [Next]_vars => ClaimInv'
  <1> SUFFICES ASSUME ~LateRequests, ClaimInv, [Next]_vars PROVE ClaimInv'
    OBVIOUS
  <1> USE DEF ClaimInv
  <1>1. ControlInv'
    BY NextControl
  <1>2. TypeOK
    BY DEF ControlInv
  <1>4. ASSUME NEW r \in Runners, NEW d \in Dirs, FinishClose(r) \/ StartFails(r)
        PROVE  DirOK(d)'
    <2>1. game[r] # None
      BY <1>4 DEF FinishClose, StartFails, ControlInv, RunnerOK, WithGame
    <2>2. game[r] \in Games /\ SaveDirectory[game[r]] \in Dirs \cup {None}
      BY <1>2, <2>1 DEF TypeOK
    <2>3. game' = [game EXCEPT ![r] = None] /\ UNCHANGED <<parked, ending, request>>
      BY <1>4 DEF FinishClose, StartFails, stopping
    <2>4. claims' = ReleaseSaveDirectory(claims, SaveDirectory[game[r]])
      BY <1>4 DEF FinishClose, StartFails
    <2>5. CASE SaveDirectory[game[r]] = d
      <3>1. r \in LiveIn(d) /\ DirOK(d)
        BY <2>1, <2>5 DEF LiveIn
      <3>2. LiveIn(d)' = {} /\ claims'[d] = "free"
        BY <1>2, <2>3, <2>4, <2>5, <3>1 DEF LiveIn, DirOK, DirIs, AtMostOne, ReleaseSaveDirectory, TypeOK
      <3>3. QED
        BY <2>3, <3>1, <3>2, <1>2 DEF DirOK, DirIs, Holders, EndingIn, RequestsIn, AtMostOne, TypeOK
    <2>6. CASE SaveDirectory[game[r]] # d
      <3>1. LiveIn(d)' = LiveIn(d) /\ claims'[d] = claims[d]
        BY <1>2, <2>2, <2>3, <2>4, <2>6 DEF LiveIn, ReleaseSaveDirectory, TypeOK
      <3>2. QED
        BY <2>3, <3>1 DEF DirOK, DirIs, Holders, EndingIn, RequestsIn, AtMostOne
    <2>7. QED
      BY <2>5, <2>6
  <1>5. ASSUME NEW r \in Runners, NEW d \in Dirs, pc[r] = "inspecting",
               NEW free \in [Dirs -> {"free", "live", "parked"}],
               ClaimAndStart(r, free), UNCHANGED <<ending, request>>,
               SaveDirectory[cmd[r].game] = d => free[d] = "free",
               DirIs(free[d], LiveIn(d), Holders(d)', EndingIn(d), RequestsIn(d))
        PROVE  DirOK(d)'
    <2>1. cmd[r].game \in Games /\ game[r] = None
      BY <1>5 DEF ControlInv, RunnerOK, WithToken, Start
    <2> DEFINE own == SaveDirectory[cmd[r].game]
    <2>2. own \in Dirs \cup {None}
      BY <2>1
    <2>3. CASE claims' = TakeSaveClaim(free, own) /\ game' = [game EXCEPT ![r] = cmd[r].game]
      <3>1. CASE own = d
        <4>1. claims'[d] = "live" /\ free[d] = "free"
          BY <1>5, <2>2, <2>3, <3>1 DEF TakeSaveClaim
        <4>2. LiveIn(d) = {}
          BY <4>1, <1>5 DEF DirIs
        <4>3. LiveIn(d)' = {r}
          BY <1>2, <2>1, <2>3, <3>1, <4>2 DEF LiveIn, TypeOK
        <4>4. QED
          BY <1>5, <4>1, <4>3 DEF DirOK, DirIs, EndingIn, RequestsIn, AtMostOne
      <3>2. CASE own # d
        <4>1. claims'[d] = free[d]
          BY <1>5, <2>2, <2>3, <3>2 DEF TakeSaveClaim
        <4>2. LiveIn(d)' = LiveIn(d)
          BY <1>2, <2>1, <2>3, <3>2 DEF LiveIn, TypeOK
        <4>3. QED
          BY <1>5, <4>1, <4>2 DEF DirOK, DirIs, EndingIn, RequestsIn, AtMostOne
      <3>3. QED
        BY <3>1, <3>2
    <2>4. CASE claims' = free /\ UNCHANGED game
      BY <1>5, <2>4 DEF DirOK, DirIs, LiveIn, EndingIn, RequestsIn, AtMostOne
    <2>5. QED
      BY <1>5, <2>3, <2>4 DEF ClaimAndStart
  <1>6. ASSUME NEW r \in Runners, NEW d \in Dirs, AdmitFree(r)
        PROVE  DirOK(d)'
    <2>1. SaveDirectory[cmd[r].game] = d => claims[d] = "free"
      <3>1. SaveDirectory[cmd[r].game] = d /\ claims[d] # "free" => ClaimHeld(r)
        BY DEF ClaimHeld
      <3>2. ~ClaimHeld(r)
        BY <1>6 DEF AdmitFree, Refused, Victims
      <3>3. QED
        BY <3>1, <3>2
    <2>2. DirIs(claims[d], LiveIn(d), Holders(d)', EndingIn(d), RequestsIn(d))
      BY <1>6 DEF AdmitFree, DirOK, Holders
    <2>3. QED
      BY <1>2, <1>5, <1>6, <2>1, <2>2 DEF AdmitFree, ClaimAndStart, stopping, TypeOK
  <1>7. ASSUME NEW r \in Runners, NEW d \in Dirs, AdmitOver(r)
        PROVE  DirOK(d)'
    <2>1. PICK t \in Victims(r) :
               /\ parked' = [parked EXCEPT ![t] = None]
               /\ ClaimAndStart(r, ReleaseSaveDirectory(claims, SaveDirectory[parked[t].game]))
      BY <1>7 DEF AdmitOver
    <2> DEFINE v == SaveDirectory[parked[t].game]
               free == ReleaseSaveDirectory(claims, v)
    <2>2. t \in Tokens /\ parked[t] # None
      BY DEF Victims, Holders, Oldest, ParkedTokens
    <2>3. v \in Dirs \cup {None} /\ free \in [Dirs -> {"free", "live", "parked"}]
      BY <1>2, <2>2, ClaimTables DEF TypeOK
    <2>4. CASE v = d
      <3>1. t \in Holders(d) /\ DirOK(d)
        BY <2>2, <2>4 DEF Holders
      <3>2. Holders(d)' = {}
        BY <1>2, <2>1, <3>1 DEF Holders, DirOK, DirIs, AtMostOne, TypeOK
      <3>3. free[d] = "free"
        BY <1>2, <2>4 DEF ReleaseSaveDirectory, TypeOK
      <3>4. DirIs(free[d], LiveIn(d), Holders(d)', EndingIn(d), RequestsIn(d))
        BY <3>1, <3>2, <3>3 DEF DirOK, DirIs, AtMostOne
      <3>5. QED
        BY <1>5, <1>7, <2>1, <2>3, <3>3, <3>4 DEF AdmitOver, ClaimAndStart, stopping
    <2>5. CASE v # d
      <3>1. Holders(d)' = Holders(d)
        BY <1>2, <2>1, <2>2, <2>5 DEF Holders, TypeOK
      <3>2. free[d] = claims[d]
        BY <1>2, <2>3, <2>5 DEF ReleaseSaveDirectory, TypeOK
      <3>3. SaveDirectory[cmd[r].game] = d => claims[d] = "free"
        BY <2>2, <2>5 DEF ClaimHeld, Victims, Holders
      <3>4. DirIs(free[d], LiveIn(d), Holders(d)', EndingIn(d), RequestsIn(d))
        BY <3>1, <3>2 DEF DirOK
      <3>5. QED
        BY <1>5, <1>7, <2>1, <2>3, <3>2, <3>3, <3>4 DEF AdmitOver, ClaimAndStart, stopping
    <2>6. QED
      BY <2>4, <2>5
  <1>8. ASSUME NEW r \in Runners, NEW d \in Dirs, ParkSession(r)
        PROVE  DirOK(d)'
    <2> DEFINE t == token[r]
               g == SaveDirectory[game[r]]
    <2>1. /\ t \in Tokens /\ attached[t] = r /\ parked[t] = None
          /\ game[r] \in Games /\ g \in Dirs \cup {None}
      BY <1>2, <1>8 DEF ParkSession, ControlInv, RunnerOK, TokenOK, WithGame, TypeOK
    <2>2. game' = [game EXCEPT ![r] = None] /\ UNCHANGED <<ending, request>>
      BY <1>8 DEF ParkSession, stopping
    <2>3. CASE g # d
      <3>1. claims'[d] = claims[d]
        BY <1>2, <1>8, <2>1, <2>3
        DEF ParkSession, ClaimsAfterPark, ReleaseSaveDirectory, MarkParked, TypeOK
      <3>2. LiveIn(d)' = LiveIn(d)
        BY <1>2, <2>1, <2>2, <2>3 DEF LiveIn, TypeOK
      <3>3. Holders(d)' = Holders(d)
        BY <1>2, <1>8, <2>1, <2>3 DEF ParkSession, ParkedAfterPark, Holders, TypeOK
      <3>4. QED
        BY <2>2, <3>1, <3>2, <3>3 DEF DirOK, DirIs, EndingIn, RequestsIn, AtMostOne
    <2>4. CASE g = d
      <3>1. r \in LiveIn(d) /\ DirOK(d)
        BY <2>1, <2>4 DEF LiveIn
      <3>2. claims[d] = "live" /\ LiveIn(d) = {r} /\ Holders(d) = {} /\ EndingIn(d) = {}
            /\ RequestsIn(d) = {}
        BY <1>2, <3>1 DEF DirOK, DirIs, AtMostOne, TypeOK
      <3>3. LiveIn(d)' = {}
        BY <1>2, <2>2, <3>2 DEF LiveIn, TypeOK
      <3>4. CASE server = "up"
        <4>1. claims'[d] = "parked"
          BY <1>2, <1>8, <2>1, <2>4, <3>2, <3>4 DEF ParkSession, ClaimsAfterPark, MarkParked, TypeOK
        <4>2. Holders(d)' = {t}
          BY <1>2, <1>8, <2>1, <2>4, <3>2, <3>4 DEF ParkSession, ParkedAfterPark, Holders, TypeOK
        <4>3. QED
          BY <2>2, <3>2, <3>3, <4>1, <4>2 DEF DirOK, DirIs, EndingIn, RequestsIn, AtMostOne
      <3>5. CASE server # "up"
        <4>1. claims'[d] = "free"
          BY <1>2, <1>8, <2>1, <2>4, <3>5
          DEF ParkSession, ClaimsAfterPark, ReleaseSaveDirectory, TypeOK
        <4>2. Holders(d)' = {}
          BY <1>2, <1>8, <2>1, <3>2, <3>5 DEF ParkSession, ParkedAfterPark, Holders, TypeOK
        <4>3. QED
          BY <2>2, <3>2, <3>3, <4>1, <4>2 DEF DirOK, DirIs, EndingIn, RequestsIn, AtMostOne
      <3>6. QED
        BY <3>4, <3>5
    <2>5. QED
      BY <2>3, <2>4
  <1>9. ASSUME NEW r \in Runners, NEW d \in Dirs, ResumeSession(r)
        PROVE  DirOK(d)'
    <2> DEFINE t == cmd[r].token
               g == SaveDirectory[parked[t].game]
    <2>1. t \in Tokens /\ game[r] = None
      BY <1>9 DEF ResumeSession, ControlInv, RunnerOK, Resume, EmptyHanded
    <2>2. CASE parked[t] = None
      BY <1>9, <2>2, Untouched DEF ResumeSession, stopping
    <2>3. CASE parked[t] # None
      <3>1. parked[t].game \in Games /\ g \in Dirs \cup {None}
        BY <1>2, <2>1, <2>3 DEF TypeOK
      <3>2. /\ game' = [game EXCEPT ![r] = parked[t].game]
            /\ parked' = [parked EXCEPT ![t] = None]
            /\ claims' = MarkParked(claims, g, "live")
            /\ UNCHANGED <<ending, request>>
        BY <1>9, <2>3 DEF ResumeSession, stopping
      <3>3. CASE g = d
        <4>1. t \in Holders(d) /\ DirOK(d)
          BY <2>1, <2>3, <3>3 DEF Holders
        <4>2. /\ claims[d] = "parked" /\ LiveIn(d) = {} /\ RequestsIn(d) = {}
              /\ Holders(d) = {t} /\ EndingIn(d) = {}
          BY <4>1 DEF DirOK, DirIs, AtMostOne
        <4>3. claims'[d] = "live"
          BY <1>2, <3>2, <3>3, <4>2 DEF MarkParked, TypeOK
        <4>4. LiveIn(d)' = {r}
          BY <1>2, <3>1, <3>2, <3>3, <4>2 DEF LiveIn, TypeOK
        <4>5. Holders(d)' = {}
          BY <1>2, <3>2, <4>2 DEF Holders, TypeOK
        <4>6. EndingIn(d)' = EndingIn(d) /\ RequestsIn(d)' = RequestsIn(d)
          BY <3>2 DEF EndingIn, RequestsIn
        <4> HIDE DEF t, g
        <4>7. QED
          BY <4>2, <4>3, <4>4, <4>5, <4>6 DEF DirOK, DirIs, AtMostOne
      <3>4. CASE g # d
        <4>1. claims'[d] = claims[d]
          BY <1>2, <3>1, <3>2, <3>4 DEF MarkParked, TypeOK
        <4>2. LiveIn(d)' = LiveIn(d)
          BY <1>2, <2>1, <3>1, <3>2, <3>4 DEF LiveIn, TypeOK
        <4>3. Holders(d)' = Holders(d)
          BY <1>2, <2>1, <2>3, <3>2, <3>4 DEF Holders, TypeOK
        <4>4. EndingIn(d)' = EndingIn(d) /\ RequestsIn(d)' = RequestsIn(d)
          BY <3>2 DEF EndingIn, RequestsIn
        <4>5. DirOK(d)
          OBVIOUS
        <4> HIDE DEF t, g
        <4>6. QED
          BY <4>1, <4>2, <4>3, <4>4, <4>5 DEF DirOK
      <3>5. QED
        BY <3>3, <3>4
    <2>4. QED
      BY <2>2, <2>3
  <1>10. ASSUME NEW q \in Requests, NEW at \in Dirs, NEW take \in BOOLEAN,
                HoldSaveDirectory(q, at, take), Alive, NEW d \in Dirs
         PROVE  DirOK(d)'
    <2>1. ending = {} /\ request[q] = None /\ UNCHANGED <<game, ending>>
      BY <1>10 DEF HoldSaveDirectory, StopOK, stopping
    <2>2. PICK granted \in BOOLEAN :
               /\ claims' = [claims EXCEPT ![at] = IF granted THEN "live" ELSE "free"]
               /\ request' = [request EXCEPT ![q] = IF granted THEN at ELSE None]
      BY <1>10 DEF HoldSaveDirectory
    <2>3. CASE d = at
      <3>1. LiveIn(d) = {} /\ RequestsIn(d) = {}
        BY <1>2, <1>10, <2>3 DEF HoldSaveDirectory, DirOK, DirIs
      <3>2. Holders(d)' = {}
        <4>1. CASE claims[d] = "free"
          BY <1>10, <2>3, <4>1 DEF HoldSaveDirectory, DirOK, DirIs, Holders
        <4>2. CASE claims[d] = "parked"
          <5>1. Holders(d) # {} /\ AtMostOne(Holders(d))
            BY <2>1, <4>2 DEF DirOK, DirIs, EndingIn
          <5>2. PICK t \in Holders(d) : parked' = [parked EXCEPT ![t] = None]
            BY <1>10, <2>3, <4>2, <5>1 DEF HoldSaveDirectory
          <5>3. QED
            BY <1>2, <5>1, <5>2 DEF Holders, AtMostOne, TypeOK
        <4>3. QED
          BY <1>10, <2>3, <4>1, <4>2 DEF HoldSaveDirectory
      <3>3. CASE granted
        <4>1. claims'[d] = "live" /\ RequestsIn(d)' = {q}
          BY <1>2, <2>2, <2>3, <3>1, <3>3 DEF RequestsIn, TypeOK
        <4>2. QED
          BY <2>1, <3>1, <3>2, <4>1 DEF DirOK, DirIs, LiveIn, EndingIn, AtMostOne
      <3>4. CASE ~granted
        <4>1. claims'[d] = "free" /\ RequestsIn(d)' = {}
          BY <1>2, <2>2, <2>3, <3>1, <3>4 DEF RequestsIn, TypeOK
        <4>2. QED
          BY <2>1, <3>1, <3>2, <4>1 DEF DirOK, DirIs, LiveIn, EndingIn, AtMostOne
      <3>5. QED
        BY <3>3, <3>4
    <2>4. CASE d # at
      <3>1. claims'[d] = claims[d] /\ RequestsIn(d)' = RequestsIn(d)
        BY <1>2, <2>1, <2>2, <2>4 DEF RequestsIn, TypeOK
      <3>2. Holders(d)' = Holders(d)
        BY <1>2, <1>10, <2>4 DEF HoldSaveDirectory, Holders, TypeOK
      <3>3. QED
        BY <2>1, <3>1, <3>2 DEF DirOK, DirIs, LiveIn, EndingIn, AtMostOne
    <2>5. QED
      BY <2>3, <2>4
  <1>11. ASSUME NEW q \in Requests, RequestDone(q), NEW d \in Dirs
         PROVE  DirOK(d)'
    <2>1. request[q] \in Dirs /\ request' = [request EXCEPT ![q] = None]
      BY <1>2, <1>11 DEF RequestDone, TypeOK
    <2>2. UNCHANGED <<game, parked, ending>>
      BY <1>11 DEF RequestDone, stopping
    <2>3. CASE request[q] = d
      <3>1. q \in RequestsIn(d) /\ DirOK(d)
        BY <2>3 DEF RequestsIn
      <3>2. claims'[d] = "free" /\ RequestsIn(d)' = {}
        BY <1>2, <1>11, <2>1, <2>3, <3>1
        DEF RequestDone, ReleaseSaveDirectory, RequestsIn, DirOK, DirIs, AtMostOne, TypeOK
      <3>3. QED
        BY <1>2, <2>2, <3>1, <3>2 DEF DirOK, DirIs, LiveIn, Holders, EndingIn, AtMostOne, TypeOK
    <2>4. CASE request[q] # d
      <3>1. claims'[d] = claims[d] /\ RequestsIn(d)' = RequestsIn(d)
        BY <1>2, <1>11, <2>1, <2>4 DEF RequestDone, ReleaseSaveDirectory, RequestsIn, TypeOK
      <3>2. QED
        BY <2>2, <3>1 DEF DirOK, DirIs, LiveIn, Holders, EndingIn, AtMostOne
    <2>5. QED
      BY <2>3, <2>4
  <1>12. ASSUME CloseSessions, NEW d \in Dirs
         PROVE  DirOK(d)'
    <2>1. UNCHANGED <<game, claims, request>> /\ ending = {}
      BY <1>12 DEF CloseSessions, StopOK
    <2>2. Holders(d)' = {}
      BY <1>12 DEF CloseSessions, Holders
    <2>3. EndingIn(d)' = {parked[t] : t \in Holders(d)}
      BY <1>12 DEF CloseSessions, EndingIn, Holders, ParkedTokens
    <2>4. AtMostOne(EndingIn(d)') /\ (EndingIn(d)' = {} <=> Holders(d) = {})
      BY <2>3 DEF AtMostOne, DirOK, DirIs
    <2>5. QED
      BY <2>1, <2>2, <2>4 DEF DirOK, DirIs, LiveIn, EndingIn, RequestsIn, AtMostOne
  <1>13. ASSUME NEW e \in ending, ParkedGameClosed(e), NEW d \in Dirs
         PROVE  DirOK(d)'
    <2>1. /\ UNCHANGED <<game, parked, request>> /\ ending' = ending \ {e}
          /\ SaveDirectory[e.game] \in Dirs \cup {None}
      BY <1>2, <1>13 DEF ParkedGameClosed, TypeOK
    <2>2. CASE SaveDirectory[e.game] = d
      <3>1. e \in EndingIn(d) /\ DirOK(d)
        BY <2>2 DEF EndingIn
      <3>2. claims'[d] = "free" /\ EndingIn(d)' = {}
        BY <1>2, <1>13, <2>1, <2>2, <3>1
        DEF ParkedGameClosed, ReleaseSaveDirectory, EndingIn, DirOK, DirIs, AtMostOne, TypeOK
      <3>3. QED
        BY <1>2, <2>1, <3>1, <3>2 DEF DirOK, DirIs, LiveIn, Holders, RequestsIn, AtMostOne, TypeOK
    <2>3. CASE SaveDirectory[e.game] # d
      <3>1. claims'[d] = claims[d] /\ EndingIn(d)' = EndingIn(d)
        BY <1>2, <1>13, <2>1, <2>3 DEF ParkedGameClosed, ReleaseSaveDirectory, EndingIn, TypeOK
      <3>2. QED
        BY <2>1, <3>1 DEF DirOK, DirIs, LiveIn, Holders, RequestsIn, AtMostOne
    <2>4. QED
      BY <2>2, <2>3
  <1>14. ASSUME NEW r \in Runners,
                \/ Connect(r) \/ Disconnect(r) \/ EndGame(r) \/ StopForServer(r)
                \/ (\E start \in Start : ReceiveStart(r, start))
                \/ ReserveSession(r) \/ InspectFails(r) \/ AdmitRefused(r) \/ AdmitAsks(r)
                \/ StartSucceeds(r) \/ Unwind(r) \/ ParkAsked(r) \/ Leave(r)
                \/ OwnerDone(r) \/ HandoffTimeout(r) \/ (\E s \in Runners : Handoff(r, s))
                \/ (\E t \in Tokens, take \in BOOLEAN : ReceiveResume(r, t, take))
         PROVE  UNCHANGED <<game, parked, claims, ending, request, server>>
    BY <1>14 DEF Connect, Disconnect, EndGame, StopForServer, ReceiveStart, BeginClose,
       ReserveSession, InspectFails, AdmitRefused, AdmitAsks, StartSucceeds, Unwind, ParkAsked,
       Leave, BeginPark, OwnerDone, HandoffTimeout, Handoff, ReceiveResume, tables, stopping
  <1>15. ASSUME Drained \/ DeadlinePasses
         PROVE  /\ UNCHANGED <<game, parked, claims, ending, request>>
                /\ server # "up" /\ server' # "up"
    BY <1>15 DEF Drained, DeadlinePasses, tables
  <1>16. UNCHANGED vars => UNCHANGED <<game, parked, claims, ending, request, server>>
    BY DEF vars
  <1>17. ASSUME NEW d \in Dirs PROVE DirOK(d)'
    BY <1>4, <1>6, <1>7, <1>8, <1>9, <1>10, <1>11, <1>12, <1>13, <1>14, <1>15, <1>16, Untouched
    DEF Next, RunnerStep, PageStep, RequestHolds, RequestEnds, StopProgress, StopStep
  <1>18. StopOK'
    <2>1. ASSUME NEW r \in Runners,
                 \/ FinishClose(r) \/ StartFails(r) \/ AdmitFree(r) \/ AdmitOver(r)
                 \/ ParkSession(r) \/ ResumeSession(r)
          PROVE  StopOK'
      BY <1>2, <2>1 DEF StopOK, FinishClose, StartFails, AdmitFree, AdmitOver, ClaimAndStart,
         ParkSession, ParkedAfterPark, ResumeSession, stopping, TypeOK
    <2>2. ASSUME NEW q \in Requests, RequestHolds(q) \/ RequestEnds(q)
          PROVE  StopOK'
      BY <1>2, <2>2 DEF StopOK, RequestHolds, RequestEnds, HoldSaveDirectory, RequestDone,
         stopping, TypeOK
    <2>3. CloseSessions => StopOK'
      BY DEF CloseSessions, StopOK
    <2>4. (\E e \in ending : ParkedGameClosed(e)) => StopOK'
      BY DEF ParkedGameClosed, StopOK
    <2>5. UNCHANGED <<parked, ending, server>> => StopOK'
      BY DEF StopOK
    <2>6. QED
      BY <1>14, <1>15, <1>16, <2>1, <2>2, <2>3, <2>4, <2>5
      DEF Next, RunnerStep, PageStep, StopProgress, StopStep, StopOK
  <1>19. QED
    BY <1>1, <1>17, <1>18

-----------------------------------------------------------------------------
(***************************************************************************)
(* Room. A runner admitted to the limit controls a token; whoever plays is *)
(* admitted, and a stop waits for everyone admitted. The tokens that count *)
(* against the limit are those a game is kept under and those an admitted  *)
(* runner controls. None of it depends on who is in a directory.           *)
(***************************************************************************)
AdmittedOK(r) ==
    /\ admitted[r] => token[r] # None /\ pc[r] # "closing"
    /\ game[r] # None /\ pc[r] # "closing" => admitted[r]
    /\ server # "up" /\ admitted[r] => r \in awaited

StoppedOK ==
    /\ server # "up" => \A t \in Tokens : parked[t] = None
    /\ server = "drained" => Released

Retained == ParkedTokens \cup AdmittedTokens

AdmissionInv ==
    /\ ControlInv /\ StoppedOK
    /\ \A r \in Runners : AdmittedOK(r)
    /\ Cardinality(Retained) <= MaxRetained

LEMMA RetainedIsFinite ==
    /\ IsFiniteSet(Retained) /\ IsFiniteSet(ParkedTokens) /\ IsFiniteSet(AdmittedTokens)
    /\ Cardinality(Retained) \in Nat
  <1>1. Retained \subseteq Tokens /\ ParkedTokens \subseteq Tokens /\ AdmittedTokens \subseteq Tokens
    BY DEF Retained, ParkedTokens, AdmittedTokens
  <1>2. IsFiniteSet(Retained) /\ IsFiniteSet(ParkedTokens) /\ IsFiniteSet(AdmittedTokens)
    BY <1>1, FS_Subset
  <1>3. QED
    BY <1>2, FS_CardinalityType

\* A token is counted once: nobody controls it while a game is kept under it.
LEMMA RetainedCounts ==
    ASSUME ControlInv
    PROVE  RetainedCount = Cardinality(Retained)
  <1>1. ParkedTokens \cap AdmittedTokens = {}
    BY DEF ControlInv, TokenOK, ParkedTokens, AdmittedTokens
  <1>2. Cardinality(ParkedTokens) \in Nat /\ Cardinality(AdmittedTokens) \in Nat
    BY RetainedIsFinite, FS_CardinalityType
  <1>3. Cardinality(Retained) = Cardinality(ParkedTokens) + Cardinality(AdmittedTokens)
                                    - Cardinality(ParkedTokens \cap AdmittedTokens)
    BY RetainedIsFinite, FS_Union DEF Retained
  <1>4. Cardinality(ParkedTokens \cap AdmittedTokens) = 0
    BY <1>1, FS_EmptySet
  <1>5. QED
    BY <1>2, <1>3, <1>4 DEF RetainedCount

\* What a step may do to the tokens that count: lose some, take one more while
\* there is room, or one in the place of another.
RetainedStep ==
    \/ Retained' \subseteq Retained
    \/ ~Full /\ \E t \in Tokens : Retained' \subseteq Retained \cup {t}
    \/ \E t \in Tokens, u \in Retained : Retained' \subseteq (Retained \ {u}) \cup {t}

LEMMA RoomIsKept ==
    ASSUME ControlInv, Cardinality(Retained) <= MaxRetained, RetainedStep
    PROVE  Cardinality(Retained)' <= MaxRetained
  <1>1. IsFiniteSet(Retained) /\ Cardinality(Retained) \in Nat
    BY RetainedIsFinite
  <1> DEFINE Now == Cardinality(Retained)
             Fits(S) == IsFiniteSet(S) /\ Cardinality(S) \in Nat /\ Cardinality(S) <= MaxRetained
  <1>2. \A S : Fits(S) /\ Retained' \subseteq S => Cardinality(Retained') <= MaxRetained
    <2>1. SUFFICES ASSUME NEW S, Fits(S), Retained' \subseteq S
                   PROVE  Cardinality(Retained') <= MaxRetained
      OBVIOUS
    <2>2. IsFiniteSet(Retained') /\ Cardinality(Retained') <= Cardinality(S)
      BY <2>1, FS_Subset
    <2>3. Cardinality(Retained') \in Nat
      BY <2>2, FS_CardinalityType
    <2>4. QED
      BY <2>1, <2>2, <2>3
  <1>3. CASE Retained' \subseteq Retained
    BY <1>1, <1>2, <1>3
  <1>4. ASSUME ~Full, NEW t \in Tokens, Retained' \subseteq Retained \cup {t}
        PROVE  Cardinality(Retained') <= MaxRetained
    <2>1. Now < MaxRetained
      BY <1>1, <1>4, RetainedCounts DEF Full
    <2>2. /\ IsFiniteSet(Retained \cup {t})
          /\ Cardinality(Retained \cup {t}) = IF t \in Retained THEN Now ELSE Now + 1
      BY <1>1, FS_AddElement
    <2>3. QED
      BY <1>1, <1>2, <1>4, <2>1, <2>2
  <1>5. ASSUME NEW t \in Tokens, NEW u \in Retained, Retained' \subseteq (Retained \ {u}) \cup {t}
        PROVE  Cardinality(Retained') <= MaxRetained
    <2>1. IsFiniteSet(Retained \ {u}) /\ Cardinality(Retained \ {u}) = Now - 1
      BY <1>1, FS_RemoveElement
    <2>2. Cardinality(Retained \ {u}) \in Nat
      BY <2>1, FS_CardinalityType
    <2>3. /\ IsFiniteSet((Retained \ {u}) \cup {t})
          /\ \/ Cardinality((Retained \ {u}) \cup {t}) = Cardinality(Retained \ {u})
             \/ Cardinality((Retained \ {u}) \cup {t}) = Cardinality(Retained \ {u}) + 1
      BY <2>1, FS_AddElement
    <2>4. QED
      BY <1>1, <1>2, <1>5, <2>1, <2>2, <2>3
  <1>6. QED
    BY <1>3, <1>4, <1>5 DEF RetainedStep

\* What a step does to the runners and to the tokens that count.
RoomStep == (\A s \in Runners : AdmittedOK(s)') /\ RetainedStep

\* A step that moves nobody into or out of a close and changes no table.
LEMMA RoomUntouched ==
    ASSUME UNCHANGED <<server, awaited, parked, attached, admitted, token, game>>,
           \A s \in Runners : pc'[s] = "closing" <=> pc[s] = "closing",
           \A s \in Runners : AdmittedOK(s)
    PROVE  RoomStep
  BY DEF RoomStep, AdmittedOK, RetainedStep, Retained, ParkedTokens, AdmittedTokens

LEMMA CloseRoom ==
    ASSUME AdmissionInv, NEW r \in Runners, pc[r] = "loop", game[r] # None,
           NEW why \in Command, BeginClose(r, why)
    PROVE  RoomStep
  <1> USE DEF AdmissionInv, ControlInv, TypeOK
  <1>1. attached' = [attached EXCEPT ![token[r]] = None] /\ admitted' = [admitted EXCEPT ![r] = FALSE]
    BY DEF BeginClose, ReleaseSession, RunnerOK
  <1>2. QED
    BY <1>1 DEF BeginClose, Goto, stopping, RoomStep, AdmittedOK, RetainedStep, Retained,
       ParkedTokens, AdmittedTokens

\* An admitted start takes the room of the runner's token.
LEMMA StartRoom ==
    ASSUME AdmissionInv, NEW r \in Runners, pc[r] = "inspecting", server = "up",
           NEW free, ClaimAndStart(r, free)
    PROVE  /\ \A s \in Runners : AdmittedOK(s)'
           /\ AdmittedTokens' \subseteq AdmittedTokens \cup {token[r]}
           /\ token[r] \in Tokens
  <1> USE DEF AdmissionInv, ControlInv, TypeOK
  <1>1. token[r] \in Tokens
    BY DEF RunnerOK, WithToken
  <1>2. \A s \in Runners : AdmittedOK(s)'
    BY <1>1 DEF ClaimAndStart, Goto, stopping, AdmittedOK
  <1>3. AdmittedTokens' \subseteq AdmittedTokens \cup {token[r]}
    BY <1>1 DEF ClaimAndStart, AdmittedTokens, TokenOK
  <1>4. QED
    BY <1>1, <1>2, <1>3

LEMMA NextRoom ==
    ASSUME AdmissionInv, Next
    PROVE  RoomStep
  <1> USE DEF AdmissionInv
  <1>1. ASSUME NEW r \in Runners, FinishClose(r)
        PROVE  RoomStep
    BY <1>1 DEF FinishClose, Goto, stopping, RoomStep, AdmittedOK, RetainedStep, Retained,
       ParkedTokens, AdmittedTokens, ControlInv, TypeOK
  <1>2. ASSUME NEW r \in Runners, EndGame(r)
        PROVE  RoomStep
    BY <1>2, CloseRoom, Commands DEF EndGame
  <1>3. ASSUME NEW r \in Runners, StopForServer(r)
        PROVE  RoomStep
    BY <1>3, CloseRoom, RoomUntouched, Commands DEF StopForServer, Goto, tables, stopping, ControlInv, TypeOK
  <1>4. ASSUME NEW r \in Runners, NEW start \in Start, ReceiveStart(r, start)
        PROVE  RoomStep
    BY <1>4, CloseRoom, RoomUntouched, Commands DEF ReceiveStart, Goto, tables, stopping, ControlInv, TypeOK
  <1>5. ASSUME NEW r \in Runners, ReserveSession(r)
        PROVE  RoomStep
    <2>1. ~admitted[r] /\ game[r] = None
      BY <1>5 DEF ReserveSession, AdmittedOK, ControlInv, TypeOK, RunnerOK, EmptyHanded
    <2>2. cmd[r].token \in Tokens
      BY <1>5 DEF ReserveSession, ControlInv, RunnerOK, Start
    <2>3. \A s \in Runners : AdmittedOK(s)'
      BY <1>5, <2>1, <2>2 DEF ReserveSession, Goto, stopping, AdmittedOK, ControlInv, TypeOK
    <2>4. Retained' \subseteq Retained
      BY <1>5, <2>1, <2>2 DEF ReserveSession, Retained, ParkedTokens, AdmittedTokens, ControlInv, TypeOK
    <2>5. QED
      BY <2>3, <2>4 DEF RoomStep, RetainedStep
  <1>6. ASSUME NEW r \in Runners, AdmitFree(r)
        PROVE  RoomStep
    <2>1. server = "up" /\ ~Full
      BY <1>6 DEF AdmitFree, Refused
    <2>2. ParkedTokens' = ParkedTokens
      BY <1>6 DEF AdmitFree, ParkedTokens
    <2>3. QED
      BY <1>6, <2>1, <2>2, StartRoom DEF AdmitFree, RoomStep, RetainedStep, Retained
  <1>7. ASSUME NEW r \in Runners, AdmitOver(r)
        PROVE  RoomStep
    <2>1. server = "up"
      BY <1>7 DEF AdmitOver, Refused
    <2>2. PICK t \in Victims(r) :
               /\ parked' = [parked EXCEPT ![t] = None]
               /\ ClaimAndStart(r, ReleaseSaveDirectory(claims, SaveDirectory[parked[t].game]))
      BY <1>7 DEF AdmitOver
    <2>3. t \in ParkedTokens
      BY DEF Victims, Holders, Oldest, ParkedTokens
    <2>4. t \in Retained /\ t \notin AdmittedTokens
      BY <2>3 DEF Retained, ParkedTokens, AdmittedTokens, ControlInv, TokenOK
    <2>5. ParkedTokens' \subseteq ParkedTokens \ {t}
      BY <2>2, <2>3 DEF ParkedTokens, ControlInv, TypeOK
    <2>6. /\ \A s \in Runners : AdmittedOK(s)'
          /\ AdmittedTokens' \subseteq AdmittedTokens \cup {token[r]}
          /\ token[r] \in Tokens
      BY <1>7, <2>1, <2>2, StartRoom DEF AdmitOver
    <2>7. QED
      BY <2>4, <2>5, <2>6 DEF RoomStep, RetainedStep, Retained
  <1>8. ASSUME NEW r \in Runners, StartFails(r)
        PROVE  RoomStep
    BY <1>8 DEF StartFails, Goto, stopping, RoomStep, AdmittedOK, RetainedStep, Retained,
       ParkedTokens, AdmittedTokens, ControlInv, TypeOK
  <1>9. ASSUME NEW r \in Runners, Unwind(r)
        PROVE  RoomStep
    <2>1. token[r] # None /\ attached[token[r]] = r /\ game[r] = None
      BY <1>9 DEF Unwind, ControlInv, RunnerOK, WithToken
    <2>2. /\ attached' = [attached EXCEPT ![token[r]] = None]
          /\ admitted' = [admitted EXCEPT ![r] = FALSE]
      BY <1>9, <2>1 DEF Unwind, ReleaseSession
    <2>3. QED
      BY <1>9, <2>1, <2>2 DEF Unwind, Goto, stopping, RoomStep, AdmittedOK, RetainedStep,
         Retained, ParkedTokens, AdmittedTokens, ControlInv, TypeOK
  <1>10. ASSUME NEW r \in Runners, ParkSession(r)
         PROVE  RoomStep
    <2> DEFINE t == token[r]
    <2>1. t \in Tokens /\ attached[t] = r /\ game[r] # None /\ admitted[r] /\ t \in Retained
      BY <1>10 DEF ParkSession, ControlInv, TypeOK, RunnerOK, WithGame, AdmittedOK, Retained,
         AdmittedTokens
    <2>2. admitted' = [s \in Runners |-> admitted[s] /\ s # r]
      BY <1>10, <2>1 DEF ParkSession, ControlInv, TypeOK
    <2>3. \A s \in Runners : AdmittedOK(s)'
      BY ZenonT(60), <1>10, <2>1, <2>2 DEF ParkSession, stopping, AdmittedOK, ControlInv, TypeOK
    <2>4. ParkedTokens' \subseteq ParkedTokens \cup {t}
      BY <1>10, <2>1 DEF ParkSession, ParkedAfterPark, ParkedTokens, ControlInv, TypeOK
    <2>5. AdmittedTokens' \subseteq AdmittedTokens
      BY <1>10, <2>1, <2>2 DEF ParkSession, AdmittedTokens, ControlInv, TypeOK
    <2>6. QED
      BY <2>1, <2>3, <2>4, <2>5 DEF RoomStep, RetainedStep, Retained
  <1>11. ASSUME NEW r \in Runners, ResumeSession(r)
         PROVE  RoomStep
    <2> DEFINE t == cmd[r].token
    <2>1. CASE parked[t] = None
      BY <1>11, <2>1, RoomUntouched DEF ResumeSession, Goto, stopping, ControlInv, TypeOK
    <2>2. CASE parked[t] # None
      <3>1. t \in Tokens /\ token[r] = None
        BY <1>11 DEF ResumeSession, ControlInv, RunnerOK, Resume, EmptyHanded
      <3>2. server = "up" /\ t \in Retained
        BY <2>2, <3>1 DEF StoppedOK, Retained, ParkedTokens
      <3>3. \A s \in Runners : AdmittedOK(s)'
        BY <1>11, <2>2, <3>1, <3>2 DEF ResumeSession, Goto, stopping, AdmittedOK, ControlInv, TypeOK
      <3>4. ParkedTokens' \subseteq ParkedTokens
        BY <1>11, <2>2, <3>1 DEF ResumeSession, ParkedTokens, ControlInv, TypeOK
      <3>5. AdmittedTokens' \subseteq AdmittedTokens \cup {t}
        BY <1>11, <2>2, <3>1 DEF ResumeSession, AdmittedTokens, ControlInv, TypeOK, TokenOK
      <3>6. QED
        BY <3>2, <3>3, <3>4, <3>5 DEF RoomStep, RetainedStep, Retained
    <2>3. QED
      BY <2>1, <2>2
  <1>12. ASSUME NEW q \in Requests, RequestHolds(q) \/ RequestEnds(q)
         PROVE  RoomStep
    BY <1>12 DEF RequestHolds, RequestEnds, HoldSaveDirectory, RequestDone, stopping, RoomStep,
       AdmittedOK, RetainedStep, Retained, ParkedTokens, AdmittedTokens, ControlInv, TypeOK
  <1>13. ASSUME CloseSessions
         PROVE  RoomStep
    <2>1. \A s \in Runners : admitted[s] => s \in ToStop
      BY DEF ToStop, AdmittedOK, ControlInv, TypeOK, RunnerOK
    <2>2. QED
      BY <1>13, <2>1 DEF CloseSessions, RoomStep, AdmittedOK, RetainedStep, Retained, ParkedTokens,
         AdmittedTokens
  <1>14. ASSUME Alive, Drained \/ DeadlinePasses
         PROVE  RoomStep
    BY <1>14 DEF Drained, DeadlinePasses, tables, RoomStep, AdmittedOK, RetainedStep, Retained,
       ParkedTokens, AdmittedTokens
  <1>15. ASSUME NEW e \in ending, ParkedGameClosed(e)
         PROVE  RoomStep
    BY <1>15, RoomUntouched DEF ParkedGameClosed
  <1>16. ASSUME NEW r \in Runners, Connect(r)
         PROVE  RoomStep
    BY <1>16, RoomUntouched DEF Connect, Goto, tables, stopping, ControlInv, TypeOK
  <1>17. ASSUME NEW r \in Runners, Disconnect(r)
         PROVE  RoomStep
    BY <1>17, RoomUntouched DEF Disconnect, Goto, tables, stopping, ControlInv, TypeOK
  <1>18. ASSUME NEW r \in Runners, InspectFails(r)
         PROVE  RoomStep
    BY <1>18, RoomUntouched DEF InspectFails, Goto, tables, stopping, ControlInv, TypeOK
  <1>19. ASSUME NEW r \in Runners, AdmitRefused(r)
         PROVE  RoomStep
    BY <1>19, RoomUntouched DEF AdmitRefused, Goto, tables, stopping, ControlInv, TypeOK
  <1>20. ASSUME NEW r \in Runners, AdmitAsks(r)
         PROVE  RoomStep
    BY <1>20, RoomUntouched DEF AdmitAsks, Goto, tables, stopping, ControlInv, TypeOK
  <1>21. ASSUME NEW r \in Runners, StartSucceeds(r)
         PROVE  RoomStep
    BY <1>21, RoomUntouched DEF StartSucceeds, Goto, tables, stopping, ControlInv, TypeOK
  <1>22. ASSUME NEW r \in Runners, ParkAsked(r) \/ Leave(r)
         PROVE  RoomStep
    BY <1>22, RoomUntouched DEF ParkAsked, Leave, BeginPark, Goto, tables, stopping, ControlInv, TypeOK
  <1>23. ASSUME NEW r \in Runners, OwnerDone(r) \/ HandoffTimeout(r)
         PROVE  RoomStep
    BY <1>23, RoomUntouched DEF OwnerDone, HandoffTimeout, Goto, tables, stopping, ControlInv, TypeOK
  <1>24. ASSUME NEW r \in Runners, NEW s \in Runners, Handoff(r, s)
         PROVE  RoomStep
    BY <1>24, RoomUntouched DEF Handoff, tables, stopping, ControlInv, TypeOK
  <1>25. ASSUME NEW r \in Runners, NEW t \in Tokens, NEW takeover \in BOOLEAN,
                ReceiveResume(r, t, takeover)
         PROVE  RoomStep
    BY <1>25, RoomUntouched DEF ReceiveResume, Goto, tables, stopping, ControlInv, TypeOK
  <1>26. QED
    BY <1>1, <1>2, <1>3, <1>4, <1>5, <1>6, <1>7, <1>8, <1>9, <1>10, <1>11, <1>12,
       <1>13, <1>14, <1>15, <1>16, <1>17, <1>18, <1>19, <1>20, <1>21, <1>22,
       <1>23, <1>24, <1>25
    DEF Next, RunnerStep, PageStep, StopProgress, StopStep

\* Nothing is parked, and nobody moves, in a server that stops or has stopped.
LEMMA NextStopped ==
    ASSUME AdmissionInv, Next
    PROVE  StoppedOK'
  <1> USE DEF AdmissionInv, ControlInv, TypeOK
  <1>1. Alive
    BY DEF Next, RunnerStep, PageStep, RequestHolds, RequestEnds, StopProgress, StopStep
  <1>2. ASSUME server' = server
        PROVE  (server = "drained" => Released)'
    BY <1>1, <1>2 DEF Alive
  <1>3. ASSUME server' = server, \A t \in Tokens : parked[t] = None => parked'[t] = None
        PROVE  StoppedOK'
    BY <1>2, <1>3 DEF StoppedOK
  <1>4. ASSUME NEW r \in Runners, AdmitOver(r)
        PROVE  StoppedOK'
    <2>1. server' = server /\ server = "up"
      BY <1>4 DEF AdmitOver, Refused, ClaimAndStart, stopping
    <2>2. QED
      BY <2>1 DEF StoppedOK
  <1>5. ASSUME NEW r \in Runners, ParkSession(r)
        PROVE  StoppedOK'
    BY <1>2, <1>5 DEF ParkSession, ParkedAfterPark, stopping, StoppedOK
  <1>6. ASSUME NEW r \in Runners, ResumeSession(r)
        PROVE  StoppedOK'
    BY <1>3, <1>6 DEF ResumeSession, stopping
  <1>7. ASSUME NEW r \in Runners, RunnerStep(r) \/ PageStep(r)
        PROVE  \/ AdmitOver(r) \/ ParkSession(r) \/ ResumeSession(r)
               \/ UNCHANGED <<server, parked>>
    BY <1>7 DEF RunnerStep, PageStep, FinishClose, StopForServer, BeginClose, ReserveSession,
       InspectFails, AdmitRefused, AdmitAsks, AdmitFree, ClaimAndStart, StartSucceeds, StartFails,
       Unwind, Leave, BeginPark, OwnerDone, Handoff, Connect, Disconnect, EndGame, ParkAsked,
       HandoffTimeout, ReceiveStart, ReceiveResume, tables, stopping
  <1>8. ASSUME NEW q \in Requests, RequestHolds(q) \/ RequestEnds(q)
        PROVE  StoppedOK'
    BY <1>3, <1>8 DEF RequestHolds, RequestEnds, HoldSaveDirectory, RequestDone, stopping
  <1>9. ASSUME StopProgress \/ StopStep
        PROVE  StoppedOK'
    <2>1. CloseSessions => StoppedOK'
      BY DEF CloseSessions, StoppedOK
    <2>2. Drained => StoppedOK'
      BY DEF Drained, StoppedOK, Released, tables
    <2>3. DeadlinePasses => StoppedOK'
      BY DEF DeadlinePasses, StoppedOK, tables
    <2>4. (\E e \in ending : ParkedGameClosed(e)) => StoppedOK'
      BY <1>3 DEF ParkedGameClosed
    <2>5. QED
      BY <1>9, <2>1, <2>2, <2>3, <2>4 DEF StopProgress, StopStep
  <1>10. UNCHANGED <<server, parked>> => StoppedOK'
    BY <1>3
  <1>11. QED
    BY <1>4, <1>5, <1>6, <1>7, <1>8, <1>9, <1>10 DEF Next

LEMMA AlwaysAdmission == Spec => []AdmissionInv
  <1>1. Init => AdmissionInv
    <2>1. Init => Retained = {}
      BY DEF Init, Retained, ParkedTokens, AdmittedTokens
    <2>2. QED
      BY SMTT(60), <2>1, InitControl, FS_EmptySet DEF Init, AdmissionInv, StoppedOK, AdmittedOK
  <1>2. AdmissionInv /\ [Next]_vars => AdmissionInv'
    <2>1. SUFFICES ASSUME AdmissionInv, [Next]_vars PROVE AdmissionInv'
      OBVIOUS
    <2>2. ControlInv'
      BY <2>1, NextControl DEF AdmissionInv
    <2>3. CASE Next
      <3>1. RoomStep /\ StoppedOK'
        BY <2>1, <2>3, NextRoom, NextStopped
      <3>2. (Cardinality(Retained) <= MaxRetained)'
        BY <2>1, <3>1, RoomIsKept DEF AdmissionInv, RoomStep
      <3>3. QED
        BY <2>2, <3>1, <3>2 DEF AdmissionInv, RoomStep
    <2>4. CASE UNCHANGED vars
      BY <2>1, <2>2, <2>4 DEF vars, AdmissionInv, StoppedOK, Released, AdmittedOK, Retained,
         ParkedTokens, AdmittedTokens
    <2>5. QED
      BY <2>1, <2>3, <2>4
  <1>3. QED
    BY <1>1, <1>2, PTL DEF Spec

-----------------------------------------------------------------------------
(***************************************************************************)
(* The theorems.                                                           *)
(***************************************************************************)

LEMMA AlwaysControl == Spec => []ControlInv
  BY InitControl, NextControl, PTL DEF Spec

\* The state of the server, its tables and its runners is always well formed.
THEOREM TypeCorrect == Spec => []TypeOK
  <1>1. ControlInv => TypeOK
    BY DEF ControlInv
  <1>2. QED
    BY <1>1, AlwaysControl, PTL

\* A token names one game, and the runner that controls it agrees, at every
\* point of starting, closing, parking and handing over, also during a stop.
THEOREM OneController == Spec => []OneControllerPerToken
  <1>1. ControlInv => OneControllerPerToken
    BY DEF ControlInv, OneControllerPerToken, TypeOK, RunnerOK, TokenOK, EmptyHanded, WithToken,
       WithGame, PCs
  <1>2. QED
    BY <1>1, AlwaysControl, PTL

LEMMA AlwaysClaim == ~LateRequests /\ Spec => []ClaimInv
  <1>1. SUFFICES ASSUME ~LateRequests PROVE Spec => []ClaimInv
    OBVIOUS
  <1>2. Init => ClaimInv
    BY InitClaim
  <1>3. ClaimInv /\ [Next]_vars => ClaimInv'
    BY <1>1, NextClaim
  <1>4. QED
    BY <1>2, <1>3, PTL DEF Spec

LEMMA TagEmpty == \A tag, S : ({tag} \X S) = {} <=> S = {}
  <1>1. TAKE tag, S
  <1>2. CASE S = {}
    BY <1>2
  <1>3. CASE S # {}
    <2>1. PICK x \in S : TRUE
      BY <1>3
    <2>2. <<tag, x>> \in {tag} \X S
      BY <2>1
    <2>3. QED
      BY <1>3, <2>2
  <1>4. QED
    BY <1>2, <1>3

LEMMA DirWriters ==
    ASSUME ClaimInv, NEW d \in Dirs
    PROVE  /\ \A v, w \in Writers(d) : v = w
           /\ claims[d] = "free" <=> Writers(d) = {}
           /\ claims[d] = "parked" <=> KeptIn(d) # {}
  <1>1. DirIs(claims[d], LiveIn(d), Holders(d), EndingIn(d), RequestsIn(d))
    BY DEF ClaimInv, DirOK
  <1>2. KeptIn(d) = EndingIn(d) \cup {parked[t] : t \in Holders(d)}
    BY DEF KeptIn, EndingIn, Holders, ParkedTokens
  <1>3. AtMostOne(KeptIn(d)) /\ (KeptIn(d) = {} <=> EndingIn(d) = {} /\ Holders(d) = {})
    BY <1>1, <1>2 DEF DirIs, AtMostOne
  <1>4. claims[d] \in {"free", "live", "parked"}
    BY DEF ClaimInv, ControlInv, TypeOK
  <1>5. \/ Writers(d) = {} \/ Writers(d) = {"live"} \X LiveIn(d)
        \/ Writers(d) = {"kept"} \X KeptIn(d) \/ Writers(d) = {"request"} \X RequestsIn(d)
    BY <1>1, <1>3, <1>4 DEF DirIs, Writers
  <1>6. \A v, w \in Writers(d) : v = w
    BY <1>1, <1>3, <1>5 DEF DirIs, AtMostOne
  <1>7. Writers(d) = {} <=> LiveIn(d) = {} /\ KeptIn(d) = {} /\ RequestsIn(d) = {}
    <2> DEFINE L == {"live"} \X LiveIn(d)
               K == {"kept"} \X KeptIn(d)
               Q == {"request"} \X RequestsIn(d)
    <2>1. (L = {} <=> LiveIn(d) = {}) /\ (K = {} <=> KeptIn(d) = {})
             /\ (Q = {} <=> RequestsIn(d) = {})
      BY TagEmpty, ZenonT(40)
    <2>2. Writers(d) = L \cup K \cup Q
      BY Zenon DEF Writers
    <2> HIDE DEF L, K, Q
    <2>3. L \cup K \cup Q = {} <=> L = {} /\ K = {} /\ Q = {}
      OBVIOUS
    <2>4. QED
      BY <2>1, <2>2, <2>3, Zenon
  <1>8. QED
    BY <1>1, <1>3, <1>4, <1>6, <1>7 DEF DirIs

\* Unless a save request takes a claim during a stop, no save directory ever has
\* two writers, however sockets, takeovers, parkings and stops interleave.
THEOREM Exclusion == ~LateRequests /\ Spec => []SaveExclusion
  <1>1. ClaimInv => SaveExclusion
    BY DirWriters DEF SaveExclusion
  <1>2. QED
    BY <1>1, AlwaysClaim, PTL

\* Under the same condition no claim outlives its holder or lies about it.
THEOREM ClaimsAreTrue == ~LateRequests /\ Spec => []ClaimsMatchWriters
  <1>1. ClaimInv => ClaimsMatchWriters
    BY DirWriters DEF ClaimsMatchWriters
  <1>2. QED
    BY <1>1, AlwaysClaim, PTL

\* Games in use and games kept never exceed the limit, although a start and a
\* stop each give their room back in a step of its own, and whichever game
\* makes room for another.
THEOREM LimitHolds == Spec => []WithinCapacity
  <1>1. AdmissionInv => WithinCapacity
    <2>1. SUFFICES ASSUME AdmissionInv PROVE WithinCapacity
      OBVIOUS
    <2> DEFINE Playing == {r \in Runners : game[r] # None /\ pc[r] # "closing"}
               f == [r \in Playing |-> token[r]]
    <2>2. \A r \in Playing : token[r] \in AdmittedTokens /\ attached[token[r]] = r
      BY <2>1 DEF AdmissionInv, AdmittedOK, ControlInv, TypeOK, RunnerOK, AdmittedTokens
    <2>3. f \in Injection(Playing, AdmittedTokens)
      BY <2>2 DEF Injection, IsInjective
    <2>4. IsFiniteSet(Playing) /\ Cardinality(Playing) <= Cardinality(AdmittedTokens)
      BY <2>3, RetainedIsFinite, FS_Injection
    <2>5. /\ Cardinality(Playing) \in Nat /\ Cardinality(AdmittedTokens) \in Nat
          /\ Cardinality(ParkedTokens) \in Nat
      BY <2>4, RetainedIsFinite, FS_CardinalityType
    <2>6. Cardinality(ParkedTokens) + Cardinality(AdmittedTokens) <= MaxRetained
      BY <2>1, RetainedCounts DEF AdmissionInv, RetainedCount
    <2>7. QED
      BY <2>4, <2>5, <2>6 DEF WithinCapacity
  <1>2. QED
    BY <1>1, AlwaysAdmission, PTL

\* A stop that has waited for everything it waits for leaves nothing parked and
\* nobody starting or playing, whatever was starting, parking or being handed
\* over when it began.
THEOREM StopIsComplete == Spec => []StopLeavesNoGame
  <1>1. AdmissionInv => StopLeavesNoGame
    BY DEF AdmissionInv, StoppedOK, Released, AdmittedOK, StopLeavesNoGame, ParkedTokens, ControlInv,
       TypeOK, RunnerOK, EmptyHanded
  <1>2. QED
    BY <1>1, AlwaysAdmission, PTL

\* A kept game is ended or resumed only for one of the reasons the property
\* lists, and over an approval only when the approval names exactly this parking.
THEOREM KeptForAReason == Spec => ParkedGamesAreKept
  <1>1. ControlInv /\ [Next]_vars =>
            [\A t \in ParkedTokens :
                \/ parked'[t] = parked[t]
                \/ server' # "up"
                \/ RestoredOver(t)
                \/ \E r \in Runners : ResumedBy(r, t) \/ ConfirmedBy(r, t)]_vars
    <2> DEFINE Kept(t) == \/ parked'[t] = parked[t] \/ server' # "up" \/ RestoredOver(t)
                          \/ \E r \in Runners : ResumedBy(r, t) \/ ConfirmedBy(r, t)
    <2>1. SUFFICES ASSUME ControlInv, Next, NEW t \in ParkedTokens
                   PROVE  Kept(t)
      OBVIOUS
    <2>2. t \in Tokens /\ parked[t] # None /\ parked[t] \in Entry
      BY <2>1 DEF ParkedTokens, ControlInv, TypeOK
    <2>3. ASSUME NEW r \in Runners, AdmitOver(r)
          PROVE  Kept(t)
      <3>1. PICK v \in Victims(r) : Approved(r, v) /\ parked' = [parked EXCEPT ![v] = None]
        BY <2>3 DEF AdmitOver
      <3>2. CASE v # t
        BY <2>1, <2>2, <3>1, <3>2 DEF ControlInv, TypeOK
      <3>3. CASE v = t
        <4>1. cmd[r] \in Start /\ pc[r] = "inspecting"
          BY <2>1, <2>3 DEF AdmitOver, ControlInv, RunnerOK
        <4>2. /\ cmd[r].kind = "start" /\ cmd[r].confirmed /\ approval[r] # None
              /\ approval[r].game = cmd[r].game /\ approval[r].token = cmd[r].token
              /\ approval[r].victim = parked[t].at
          BY <2>2, <3>1, <3>3, <4>1 DEF Approved, Start
        <4>3. \/ SaveDirectory[parked[t].game] = SaveDirectory[cmd[r].game]
              \/ \A u \in ParkedTokens : parked[t].at <= parked[u].at
          BY <3>1, <3>3 DEF Victims, Holders, Oldest
        <4>4. QED
          BY <4>1, <4>2, <4>3 DEF ConfirmedBy
      <3>4. QED
        BY <3>2, <3>3
    <2>4. ASSUME NEW r \in Runners, ParkSession(r)
          PROVE  Kept(t)
      <3>1. attached[token[r]] = r /\ t # token[r]
        BY <2>1, <2>2, <2>4 DEF ParkSession, ControlInv, RunnerOK, TokenOK, WithGame
      <3>2. QED
        BY <2>1, <2>2, <2>4, <3>1 DEF ParkSession, ParkedAfterPark, ControlInv, TypeOK
    <2>5. ASSUME NEW r \in Runners, ResumeSession(r)
          PROVE  Kept(t)
      BY <2>1, <2>2, <2>5 DEF ResumeSession, ResumedBy, ControlInv, TypeOK
    <2>6. ASSUME NEW q \in Requests, NEW d \in Dirs, NEW take \in BOOLEAN,
                 HoldSaveDirectory(q, d, take)
          PROVE  Kept(t)
      BY <2>1, <2>2, <2>6 DEF HoldSaveDirectory, Holders, RestoredOver, ControlInv, TypeOK
    <2>7. ASSUME NEW r \in Runners, RunnerStep(r) \/ PageStep(r)
          PROVE  AdmitOver(r) \/ ParkSession(r) \/ ResumeSession(r) \/ UNCHANGED parked
      BY <2>7 DEF RunnerStep, PageStep, FinishClose, StopForServer, BeginClose, ReserveSession,
         InspectFails, AdmitRefused, AdmitAsks, AdmitFree, StartSucceeds, StartFails, Unwind, Leave,
         BeginPark, OwnerDone, Handoff, Connect, Disconnect, EndGame, ParkAsked, HandoffTimeout,
         ReceiveStart, ReceiveResume, tables
    <2>8. StopProgress \/ StopStep => UNCHANGED parked \/ server' # "up"
      BY DEF StopProgress, StopStep, ParkedGameClosed, Drained, CloseSessions, DeadlinePasses, tables
    <2>9. QED
      BY <2>1, <2>3, <2>4, <2>5, <2>6, <2>7, <2>8 DEF Next, RequestHolds, RequestEnds, RequestDone
  <1>2. QED
    BY <1>1, AlwaysControl, PTL DEF Spec, ParkedGamesAreKept

-----------------------------------------------------------------------------
(***************************************************************************)
(* Retention implements SaveOwnership: its steps, seen from one directory,  *)
(* take it, let go of it, keep it or take a kept one over.                  *)
(***************************************************************************)

\* Who may come into a directory. A live game or a request comes only where
\* there is neither, and a game is kept only where one was live.
Arrivals(d) ==
    /\ LiveIn(d)' \subseteq LiveIn(d) \/ (LiveIn(d) = {} /\ RequestsIn(d) = {})
    /\ RequestsIn(d)' \subseteq RequestsIn(d) \/ (LiveIn(d) = {} /\ RequestsIn(d) = {})
    /\ KeptIn(d)' \subseteq KeptIn(d) \/ LiveIn(d) # {}

\* No game and no request holds a directory whose claim is not live.
LEMMA NotLive ==
    ASSUME ClaimInv, NEW d \in Dirs, claims[d] # "live"
    PROVE  LiveIn(d) = {} /\ RequestsIn(d) = {}
  BY DEF ClaimInv, ControlInv, TypeOK, DirOK, DirIs

LEMMA KeptByParking ==
    ASSUME UNCHANGED ending, NEW d \in Dirs,
           \A t \in Tokens : parked'[t] = None \/ parked'[t] = parked[t]
    PROVE  KeptIn(d)' \subseteq KeptIn(d)
  BY DEF KeptIn, ParkedTokens

LEMMA NextArrivals ==
    ASSUME ClaimInv, [Next]_vars, ~LateRequests, NEW d \in Dirs
    PROVE  Arrivals(d)
  <1>1. TypeOK /\ ControlInv
    BY DEF ClaimInv, ControlInv
  <1>2. ASSUME NEW r \in Runners, FinishClose(r) \/ StartFails(r)
        PROVE  Arrivals(d)
    <2>1. game' = [game EXCEPT ![r] = None] /\ UNCHANGED <<parked, ending, request>>
      BY <1>2 DEF FinishClose, StartFails, stopping
    <2>2. LiveIn(d)' \subseteq LiveIn(d)
      BY <1>1, <2>1 DEF LiveIn, TypeOK
    <2>3. QED
      BY <2>1, <2>2, KeptByParking DEF Arrivals, RequestsIn
  <1>3. ASSUME NEW r \in Runners, AdmitFree(r) \/ AdmitOver(r)
        PROVE  Arrivals(d)
    <2> DEFINE own == SaveDirectory[cmd[r].game]
    <2>1. cmd[r].game \in Games /\ game[r] = None
      BY <1>1, <1>3 DEF AdmitFree, AdmitOver, ControlInv, RunnerOK, WithToken, Start
    <2>2. game' = game \/ game' = [game EXCEPT ![r] = cmd[r].game]
      BY <1>3 DEF AdmitFree, AdmitOver, ClaimAndStart
    <2>3. UNCHANGED <<ending, request>>
      BY <1>3 DEF AdmitFree, AdmitOver, ClaimAndStart, stopping
    <2>4. \A t \in Tokens : parked'[t] = None \/ parked'[t] = parked[t]
      BY <1>1, <1>3 DEF AdmitFree, AdmitOver, TypeOK
    <2>5. own = d => claims[d] # "live"
      BY <1>3 DEF AdmitFree, AdmitOver, Refused, ClaimHeld
    <2>6. own # d => LiveIn(d)' \subseteq LiveIn(d)
      BY <1>1, <2>1, <2>2 DEF LiveIn, TypeOK
    <2>7. QED
      BY <2>3, <2>4, <2>5, <2>6, KeptByParking, NotLive DEF Arrivals, RequestsIn
  <1>4. ASSUME NEW r \in Runners, ParkSession(r)
        PROVE  Arrivals(d)
    <2>1. game[r] \in Games /\ token[r] \in Tokens
      BY <1>1, <1>4 DEF ParkSession, ControlInv, RunnerOK, WithGame, TypeOK
    <2>2. game' = [game EXCEPT ![r] = None] /\ UNCHANGED <<ending, request>>
      BY <1>4 DEF ParkSession, stopping
    <2>3. LiveIn(d)' \subseteq LiveIn(d)
      BY <1>1, <2>2 DEF LiveIn, TypeOK
    <2>4. \A t \in Tokens \ {token[r]} : parked'[t] = parked[t]
      BY <1>1, <1>4 DEF ParkSession, ParkedAfterPark, TypeOK
    <2>5. parked'[token[r]] = None \/ parked'[token[r]] = [game |-> game[r], at |-> clock + 1]
      BY <1>1, <1>4, <2>1 DEF ParkSession, ParkedAfterPark, TypeOK
    <2>6. CASE SaveDirectory[game[r]] = d
      BY <2>1, <2>2, <2>3, <2>6 DEF Arrivals, LiveIn, RequestsIn
    <2>7. CASE SaveDirectory[game[r]] # d
      <3>1. KeptIn(d)' \subseteq KeptIn(d)
        BY <2>2, <2>4, <2>5, <2>7 DEF KeptIn, ParkedTokens
      <3>2. QED
        BY <2>2, <2>3, <3>1 DEF Arrivals, RequestsIn
    <2>8. QED
      BY <2>6, <2>7
  <1>5. ASSUME NEW r \in Runners, ResumeSession(r)
        PROVE  Arrivals(d)
    <2> DEFINE t == cmd[r].token
    <2>1. t \in Tokens /\ game[r] = None
      BY <1>1, <1>5 DEF ResumeSession, ControlInv, RunnerOK, Resume, EmptyHanded
    <2>2. UNCHANGED <<ending, request>>
      BY <1>5 DEF ResumeSession, stopping
    <2>3. \A u \in Tokens : parked'[u] = None \/ parked'[u] = parked[u]
      BY <1>1, <1>5 DEF ResumeSession, TypeOK
    <2>4. CASE parked[t] # None /\ SaveDirectory[parked[t].game] = d
      <3>1. t \in Holders(d)
        BY <2>1, <2>4 DEF Holders
      <3>2. claims[d] # "live"
        BY <3>1 DEF ClaimInv, DirOK, DirIs
      <3>3. QED
        BY <2>2, <2>3, <3>2, KeptByParking, NotLive DEF Arrivals
    <2>5. CASE parked[t] = None \/ SaveDirectory[parked[t].game] # d
      <3>1. LiveIn(d)' \subseteq LiveIn(d)
        BY <1>1, <1>5, <2>1, <2>5 DEF ResumeSession, LiveIn, TypeOK
      <3>2. QED
        BY <2>2, <2>3, <3>1, KeptByParking DEF Arrivals, RequestsIn
    <2>6. QED
      BY <2>4, <2>5
  <1>6. ASSUME NEW q \in Requests, RequestHolds(q)
        PROVE  Arrivals(d)
    <2>1. PICK at \in Dirs, take \in BOOLEAN : HoldSaveDirectory(q, at, take)
      BY <1>6 DEF RequestHolds
    <2>2. UNCHANGED <<ending, game>>
      BY <2>1 DEF HoldSaveDirectory, stopping
    <2>3. \A t \in Tokens : parked'[t] = None \/ parked'[t] = parked[t]
      BY <1>1, <2>1 DEF HoldSaveDirectory, TypeOK
    <2>4. at = d => claims[d] # "live"
      BY <2>1 DEF HoldSaveDirectory
    <2>5. at # d => RequestsIn(d)' \subseteq RequestsIn(d)
      BY <1>1, <2>1 DEF HoldSaveDirectory, RequestsIn, TypeOK
    <2>6. QED
      BY <2>2, <2>3, <2>4, <2>5, KeptByParking, NotLive DEF Arrivals, LiveIn
  <1>7. ASSUME NEW q \in Requests, RequestEnds(q)
        PROVE  Arrivals(d)
    <2>1. UNCHANGED <<ending, game, parked>> /\ request' = [request EXCEPT ![q] = None]
      BY <1>7 DEF RequestEnds, RequestDone, stopping
    <2>2. RequestsIn(d)' \subseteq RequestsIn(d)
      BY <1>1, <2>1 DEF RequestsIn, TypeOK
    <2>3. QED
      BY <2>1, <2>2, KeptByParking DEF Arrivals, LiveIn
  <1>8. ASSUME CloseSessions
        PROVE  Arrivals(d)
    BY <1>8 DEF CloseSessions, Arrivals, LiveIn, RequestsIn, KeptIn, ParkedTokens
  <1>9. ASSUME NEW e \in ending, ParkedGameClosed(e)
        PROVE  Arrivals(d)
    BY <1>9 DEF ParkedGameClosed, Arrivals, LiveIn, RequestsIn, KeptIn, ParkedTokens
  <1>10. ASSUME NEW r \in Runners,
                \/ Connect(r) \/ Disconnect(r) \/ EndGame(r) \/ StopForServer(r)
                \/ (\E start \in Start : ReceiveStart(r, start))
                \/ ReserveSession(r) \/ InspectFails(r) \/ AdmitRefused(r) \/ AdmitAsks(r)
                \/ StartSucceeds(r) \/ Unwind(r) \/ ParkAsked(r) \/ Leave(r)
                \/ OwnerDone(r) \/ HandoffTimeout(r) \/ (\E s \in Runners : Handoff(r, s))
                \/ (\E t \in Tokens, take \in BOOLEAN : ReceiveResume(r, t, take))
         PROVE  UNCHANGED <<game, parked, ending, request>>
    BY <1>10 DEF Connect, Disconnect, EndGame, StopForServer, ReceiveStart, BeginClose,
       ReserveSession, InspectFails, AdmitRefused, AdmitAsks, StartSucceeds, Unwind, ParkAsked,
       Leave, BeginPark, OwnerDone, HandoffTimeout, Handoff, ReceiveResume, tables, stopping
  <1>11. Drained \/ DeadlinePasses \/ UNCHANGED vars => UNCHANGED <<game, parked, ending, request>>
    BY DEF Drained, DeadlinePasses, tables, vars
  <1>12. UNCHANGED <<game, parked, ending, request>> => Arrivals(d)
    BY DEF Arrivals, LiveIn, RequestsIn, KeptIn, ParkedTokens
  <1>13. QED
    BY <1>2, <1>3, <1>4, <1>5, <1>6, <1>7, <1>8, <1>9, <1>10, <1>11, <1>12
    DEF Next, RunnerStep, PageStep, StopProgress, StopStep

-----------------------------------------------------------------------------
\* The user a directory has, by kind: nobody, or one live game, kept game or request.
Nobody(d) == LiveIn(d) = {} /\ KeptIn(d) = {} /\ RequestsIn(d) = {}

OneLive(d) == (\E r \in Runners : LiveIn(d) = {r}) /\ KeptIn(d) = {} /\ RequestsIn(d) = {}

OneKept(d) == (\E e \in Entry : KeptIn(d) = {e}) /\ LiveIn(d) = {} /\ RequestsIn(d) = {}

OneRequest(d) == (\E q \in Requests : RequestsIn(d) = {q}) /\ LiveIn(d) = {} /\ KeptIn(d) = {}

LEMMA UserKinds ==
    ASSUME ClaimInv, NEW d \in Dirs
    PROVE  Nobody(d) \/ OneLive(d) \/ OneKept(d) \/ OneRequest(d)
  <1>1. DirIs(claims[d], LiveIn(d), Holders(d), EndingIn(d), RequestsIn(d)) /\ TypeOK
    BY DEF ClaimInv, DirOK, ControlInv
  <1>2. KeptIn(d) = EndingIn(d) \cup {parked[t] : t \in Holders(d)}
    BY DEF KeptIn, EndingIn, Holders, ParkedTokens
  <1>3. AtMostOne(KeptIn(d)) /\ AtMostOne(LiveIn(d)) /\ AtMostOne(RequestsIn(d))
    BY <1>1, <1>2 DEF DirIs, AtMostOne
  <1>4. LiveIn(d) \subseteq Runners /\ RequestsIn(d) \subseteq Requests /\ KeptIn(d) \subseteq Entry
    BY <1>1 DEF LiveIn, RequestsIn, KeptIn, ParkedTokens, TypeOK
  <1>5. \/ LiveIn(d) = {} /\ RequestsIn(d) = {}
        \/ KeptIn(d) = {} /\ RequestsIn(d) = {}
        \/ KeptIn(d) = {} /\ LiveIn(d) = {}
    BY <1>1, <1>2 DEF DirIs
  <1>6. \A S : AtMostOne(S) => S = {} \/ \E x \in S : S = {x}
    BY DEF AtMostOne
  <1>7. QED
    BY <1>3, <1>4, <1>5, <1>6 DEF Nobody, OneLive, OneKept, OneRequest

\* What Writers says of each kind.
LEMMA WriterKinds ==
    ASSUME NEW L, NEW K, NEW Q, NEW W,
           W = ({"live"} \X L) \cup ({"kept"} \X K) \cup ({"request"} \X Q)
    PROVE  /\ L = {} /\ K = {} /\ Q = {} => W = {}
           /\ \A x : L = {x} /\ K = {} /\ Q = {} => W = {<<"live", x>>}
           /\ \A x : K = {x} /\ L = {} /\ Q = {} => W = {<<"kept", x>>}
           /\ \A x : Q = {x} /\ L = {} /\ K = {} => W = {<<"request", x>>}
  <1>1. \A tag, S : S = {} => ({tag} \X S) = {}
    BY TagEmpty
  <1>2. \A tag, x : ({tag} \X {x}) = {<<tag, x>>}
    OBVIOUS
  <1>3. QED
    BY <1>1, <1>2

\* The same, as SaveOwnership counts a directory's users.
OneOf(d, tag, S) == Ownership!One(Writers(d), {tag} \X S)

KindOK(d) ==
    \/ Nobody(d) /\ Writers(d) = {}
    \/ OneLive(d) /\ OneOf(d, "live", Runners)
    \/ OneKept(d) /\ OneOf(d, "kept", Entry)
    \/ OneRequest(d) /\ OneOf(d, "request", Requests)

KindsOK == \A d \in Dirs : KindOK(d)

LEMMA Users == ClaimInv => KindsOK
  <1>1. SUFFICES ASSUME ClaimInv, NEW d \in Dirs PROVE KindOK(d)
    BY DEF KindsOK
  <1>2. Writers(d) = ({"live"} \X LiveIn(d)) \cup ({"kept"} \X KeptIn(d))
                        \cup ({"request"} \X RequestsIn(d))
    BY Zenon DEF Writers
  <1>3. CASE Nobody(d)
    BY <1>2, <1>3, WriterKinds DEF Nobody, KindOK
  <1>4. CASE OneLive(d)
    <2>1. PICK r \in Runners : LiveIn(d) = {r}
      BY <1>4 DEF OneLive
    <2>2. Writers(d) = {<<"live", r>>}
      BY <1>2, <1>4, <2>1, WriterKinds DEF OneLive
    <2>3. QED
      BY <1>4, <2>2 DEF KindOK, OneOf, Ownership!One
  <1>5. CASE OneKept(d)
    <2>1. PICK e \in Entry : KeptIn(d) = {e}
      BY <1>5 DEF OneKept
    <2>2. Writers(d) = {<<"kept", e>>}
      BY <1>2, <1>5, <2>1, WriterKinds DEF OneKept
    <2>3. QED
      BY <1>5, <2>2 DEF KindOK, OneOf, Ownership!One
  <1>6. CASE OneRequest(d)
    <2>1. PICK q \in Requests : RequestsIn(d) = {q}
      BY <1>6 DEF OneRequest
    <2>2. Writers(d) = {<<"request", q>>}
      BY <1>2, <1>6, <2>1, WriterKinds DEF OneRequest
    <2>3. QED
      BY <1>6, <2>2 DEF KindOK, OneOf, Ownership!One
  <1>7. QED
    BY <1>1, <1>3, <1>4, <1>5, <1>6, UserKinds

\* What a step of SaveOwnership makes of a directory's kinds.
LEMMA Transitions ==
    ASSUME NEW d \in Dirs, Arrivals(d), KindOK(d), KindOK(d)'
    PROVE  Writers(d)' = Writers(d) \/ Ownership!Step(Writers(d), Writers(d)')
  <1> DEFINE live == {"live"} \X Runners
             kept == {"kept"} \X Entry
             req == {"request"} \X Requests
             B == Writers(d)
             A == Writers(d)'
  <1>1. /\ Nobody(d) => B = {}
        /\ OneLive(d) => Ownership!One(B, live)
        /\ OneKept(d) => Ownership!One(B, kept)
        /\ OneRequest(d) => Ownership!One(B, req)
    BY DEF KindOK, OneOf, Nobody, OneLive, OneKept, OneRequest
  <1>2. /\ Nobody(d)' => A = {}
        /\ OneLive(d)' => Ownership!One(A, live)
        /\ OneKept(d)' => Ownership!One(A, kept)
        /\ OneRequest(d)' => Ownership!One(A, req)
    BY DEF KindOK, OneOf, Nobody, OneLive, OneKept, OneRequest
  <1>3. UNCHANGED <<LiveIn(d), KeptIn(d), RequestsIn(d)>> => A = B
    BY DEF Writers
  <1>4. /\ Nobody(d) => Nobody(d)' \/ OneLive(d)' \/ OneRequest(d)'
        /\ OneLive(d) => UNCHANGED <<LiveIn(d), KeptIn(d), RequestsIn(d)>>
                         \/ Nobody(d)' \/ OneKept(d)'
        /\ OneKept(d) => UNCHANGED <<LiveIn(d), KeptIn(d), RequestsIn(d)>>
                         \/ Nobody(d)' \/ OneLive(d)' \/ OneRequest(d)'
        /\ OneRequest(d) => UNCHANGED <<LiveIn(d), KeptIn(d), RequestsIn(d)>> \/ Nobody(d)'
    BY DEF Arrivals, KindOK, Nobody, OneLive, OneKept, OneRequest
  <1>5. \A S : /\ Ownership!One(S, live) => Ownership!One(S, Ownership!Takers)
               /\ Ownership!One(S, req) => Ownership!One(S, Ownership!Takers)
               /\ Ownership!One(S, live) => Ownership!One(S, Ownership!Users)
               /\ Ownership!One(S, kept) => Ownership!One(S, Ownership!Users)
               /\ Ownership!One(S, req) => Ownership!One(S, Ownership!Users)
    BY Zenon DEF Ownership!One, Ownership!Takers, Ownership!Users
  <1> HIDE DEF live, kept, req, A, B
  <1>6. CASE Nobody(d)
    <2>1. A = B \/ Ownership!Take(B, A)
      BY <1>1, <1>2, <1>4, <1>5, <1>6 DEF Ownership!Take
    <2>2. QED
      BY <2>1 DEF Ownership!Step, A, B
  <1>7. CASE OneLive(d)
    <2>1. A = B \/ Ownership!LetGo(B, A) \/ Ownership!Keep(B, A)
      BY <1>1, <1>2, <1>3, <1>4, <1>5, <1>7 DEF Ownership!LetGo, Ownership!Keep, live, kept
    <2>2. QED
      BY <2>1 DEF Ownership!Step, A, B
  <1>8. CASE OneKept(d)
    <2>1. A = B \/ Ownership!LetGo(B, A) \/ Ownership!TakeOver(B, A)
      BY <1>1, <1>2, <1>3, <1>4, <1>5, <1>8 DEF Ownership!LetGo, Ownership!TakeOver, kept
    <2>2. QED
      BY <2>1 DEF Ownership!Step, A, B
  <1>9. CASE OneRequest(d)
    <2>1. A = B \/ Ownership!LetGo(B, A)
      BY <1>1, <1>2, <1>3, <1>4, <1>5, <1>9 DEF Ownership!LetGo
    <2>2. QED
      BY <2>1 DEF Ownership!Step, A, B
  <1>10. QED
    BY <1>6, <1>7, <1>8, <1>9 DEF KindOK

-----------------------------------------------------------------------------
\* Unless a save request takes a claim during a stop, the users of the save
\* directories follow SaveOwnership: a live game and a save request keep their
\* directory until they let go of it, only a kept game is taken over, and a game
\* is kept only in the directory it was played in.
THEOREM Refinement == ~LateRequests /\ Spec => OwnershipSpec
  <1>1. SUFFICES ASSUME ~LateRequests PROVE Spec => OwnershipSpec
    OBVIOUS
  <1> DEFINE users == [d \in Dirs |-> Writers(d)]
  <1>2. Init => Ownership!Init
    <2>1. SUFFICES ASSUME Init, NEW d \in Dirs PROVE Writers(d) = {}
      BY DEF Ownership!Init
    <2>2. LiveIn(d) = {} /\ KeptIn(d) = {} /\ RequestsIn(d) = {}
      BY <2>1 DEF Init, LiveIn, KeptIn, RequestsIn, ParkedTokens
    <2>3. QED
      BY <2>2, WriterKinds, Zenon DEF Writers
  <1>3. ClaimInv' => KindsOK'
    BY Users, PTL
  <1>4. ClaimInv /\ ClaimInv' /\ [Next]_vars => [Ownership!Next]_users
    <2>1. SUFFICES ASSUME ClaimInv, ClaimInv', [Next]_vars, NEW d \in Dirs
                   PROVE  \/ Writers(d)' = Writers(d)
                          \/ Ownership!Step(Writers(d), Writers(d)')
      BY DEF Ownership!Next
    <2>2. QED
      BY <1>1, <1>3, <2>1, Users, NextArrivals, Transitions DEF KindsOK
  <1>5. Spec => []ClaimInv
    BY <1>1, AlwaysClaim
  <1>6. QED
    BY <1>2, <1>4, <1>5, PTL DEF Spec, OwnershipSpec, Ownership!Spec
=============================================================================

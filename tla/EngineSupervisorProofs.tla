------------------------ MODULE EngineSupervisorProofs ------------------------
(***************************************************************************)
(* For any set of engines and any bounds: the type invariant and the five  *)
(* safety properties of EngineSupervisor. All five follow from Duties,     *)
(* which says what the client still owes for the process it holds.         *)
(* The second half is about the layout editor of the same controller.      *)
(***************************************************************************)
EXTENDS EngineSupervisor, LayoutEditor, FiniteSetTheorems, SequenceTheorems, WellFoundedInduction, TLAPS

(* What holds of an owned process and of the absence of one.               *)
(*   - Only an owned process has an open session, a recovery still to be   *)
(*     made or a kill still to be reported, and the state never says that  *)
(*     it has come to rest.                                                *)
(*   - A process that is Failed before it is dead has its recovery queued, *)
(*     and a poll remembers the state it started from.                     *)
(*   - Once a poll has run with the grace over, or the controller is about *)
(*     to leave, the owned process is dead.                                *)
Duties ==
    /\ process = None => ~sessionOpen /\ ~pending /\ ~killed
    /\ state \in {"Stopped", "Exited"} => process = None
    /\ process # None /\ state = "Failed" => pending
    /\ ui = "polling" => prev = state
    /\ late => ~OwnLives
    /\ quit \in {"leaving", "gone"} => ~OwnLives /\ ui = "free"

USE ConstantsAssumption

(* Engines act on their own variables; they only end or, from an unused    *)
(* slot, begin.                                                            *)
LEMMA EngineFrame ==
    ASSUME TypeOK, NEW e \in Engines, EngineStep(e)
    PROVE  /\ UNCHANGED <<process, window, stopReq, graceOver, late, killed, startRep,
                          overdue, state, alive, sessionOpen, pending, prev, ui, quit>>
           /\ phase' \in [Engines -> Phases] /\ (OwnLives' => OwnLives)
  <1>1. CASE HandLaunch(e)
    <2>1. e # process /\ phase' = [phase EXCEPT ![e] = "boot"]
      BY <1>1 DEF HandLaunch, Spawn, Unused
    <2>2. UNCHANGED <<process, window, stopReq, graceOver, late, killed, startRep,
                      overdue, state, alive, sessionOpen, pending, prev, ui, quit>>
      BY <1>1 DEF HandLaunch, clientVars, stopVars, appVars
    <2>. QED  BY <2>1, <2>2 DEF TypeOK, OwnLives, Phases, Live
  <1>2. CASE ~HandLaunch(e)
    <2>1. /\ phase[e] \in Live
          /\ \E p \in {"setup", "window", "closing", "unwind", "dead"} \cup {phase[e]} :
               phase' = [phase EXCEPT ![e] = p]
      <3>1. CASE Boot(e)
        BY <3>1 DEF Boot, Ends, Live
      <3>2. CASE TakeOver(e)
        <4>1. phase' = [phase EXCEPT ![e] = phase[e]]
          BY <3>2 DEF TakeOver, TypeOK
        <4>. QED  BY <4>1, <3>2 DEF TakeOver, Live
      <3>3. CASE TakeOverFails(e) \/ Crash(e) \/ Finish(e)
        BY <3>3 DEF TakeOverFails, Crash, Finish, Ends, Live
      <3>4. CASE OpenWindow(e) \/ StartupFails(e) \/ Obey(e) \/ LoopEnds(e)
        BY <3>4 DEF OpenWindow, StartupFails, Obey, LoopEnds, Close, Live
      <3>. QED  BY <1>2, <3>1, <3>2, <3>3, <3>4 DEF EngineStep
    <2>2. UNCHANGED <<process, window, stopReq, graceOver, late, killed, startRep,
                      overdue, state, alive, sessionOpen, pending, prev, ui, quit>>
      BY <1>2 DEF EngineStep, Boot, TakeOver, TakeOverFails, OpenWindow, StartupFails, Obey,
                  LoopEnds, Close, Finish, Crash, clientVars, stopVars, appVars
    <2>. QED  BY <2>1, <2>2 DEF TypeOK, OwnLives, Phases, Live
  <1>. QED  BY <1>1, <1>2

(* request_stop only talks to an existing window or to none.               *)
LEMMA StopTargetsType == ASSUME TypeOK PROVE StopTargets \subseteq Engines \cup {None}
  BY DEF TypeOK, StopTargets, FindWindow

LEMMA InitInvariant == Init => TypeOK /\ Duties
  <1>. SUFFICES ASSUME Init PROVE TypeOK /\ Duties
    OBVIOUS
  <1>1. TypeOK
    <2>1. /\ phase \in [Engines -> Phases]
          /\ told \in [Engines -> BOOLEAN] /\ took \in [Engines -> BOOLEAN]
          /\ code \in [Engines -> {0, 1}]
      BY DEF Init, Phases
    <2>2. clicks \in 0..MaxClicks /\ hands \in 0..MaxHand
      BY DEF Init
    <2>. QED  BY <2>1, <2>2 DEF Init, TypeOK, States
  <1>2. Duties
    BY DEF Init, Duties, OwnLives
  <1>. QED  BY <1>1, <1>2

(* Every step keeps Duties. The polls are where they are created and paid. *)
LEMMA DutiesStep == ASSUME TypeOK, Duties, Next PROVE Duties'
  <1>1. ASSUME NEW e \in Engines, EngineStep(e) PROVE Duties'
    BY <1>1, EngineFrame DEF Duties
  <1>2. CASE UserStep
    <2>1. CASE Adopt
      BY <2>1 DEF Adopt, Click, Busy, Duties, OwnLives, engineVars, stopVars, appVars
    <2>2. CASE Stop \/ Quit
      BY <2>2 DEF Stop, Quit, Click, Busy, RequestStop, StateAfterStop, Duties, OwnLives,
                  stopVars, appVars
    <2>3. CASE Command \/ RecoverDisplays
      BY <2>3 DEF Command, RecoverDisplays, Click, Duties, OwnLives, engineVars, clientVars,
                  stopVars, appVars
    <2>4. ASSUME NEW e \in Engines, Launch(e) PROVE Duties'
      BY <2>4 DEF Launch, Click, Duties, OwnLives, TypeOK
    <2>. QED  BY <1>2, <2>1, <2>2, <2>3, <2>4 DEF UserStep
  <1>3. CASE PollWindow
    BY <1>3 DEF PollWindow, Duties, OwnLives, engineVars, stopVars
  <1>4. CASE PollStopping
    <2>1. /\ process' = process /\ process # None /\ prev' = prev /\ prev = state
          /\ state' \in {"Failed", "Stopping"} /\ ui' = "free" /\ alive' = TRUE
      BY <1>4 DEF PollStopping, Settle, Duties, OwnLives
    <2>4. state' = "Failed" => pending'
      <3>1. pending' = (alive' /\ (pending \/ (state' = "Failed" /\ state' # prev)))
        BY <1>4 DEF PollStopping, Settle
      <3>. QED  BY <2>1, <3>1 DEF Duties
    <2>2. late' => ~OwnLives'
      BY <1>4, <2>1 DEF PollStopping, Ends, OwnLives, Live, TypeOK
    <2>3. quit \notin {"leaving", "gone"}
      BY <1>4 DEF PollStopping, Duties
    <2>5. quit' = quit
      BY <1>4, <2>1 DEF PollStopping, Settle
    <2>. QED  BY <2>1, <2>2, <2>3, <2>4, <2>5 DEF Duties
  <1>5. CASE PollRunning
    <2>1. /\ process' = process /\ process # None /\ prev' = prev /\ prev = state
          /\ ui' = "free" /\ alive' = TRUE /\ phase' = phase
      BY <1>5 DEF PollRunning, Settle, Duties, OwnLives
    <2>2. state' \in {"Failed", "Running", "Starting", state}
      BY <1>5 DEF PollRunning
    <2>3. state' = "Failed" => pending'
      <3>1. pending' = (alive' /\ (pending \/ (state' = "Failed" /\ state' # prev)))
        BY <1>5 DEF PollRunning, Settle
      <3>. QED  BY <2>1, <3>1 DEF Duties
    <2>4. late' => ~OwnLives'
      BY <1>5 DEF PollRunning, RequestStop, Duties, stopVars
    <2>5. quit \notin {"leaving", "gone"} /\ quit' = quit
      BY <1>5, <2>1 DEF PollRunning, Settle, Duties
    <2>. QED  BY <2>1, <2>2, <2>3, <2>4, <2>5 DEF Duties
  <1>6. CASE PollReaped \/ PollForeign
    <2>1. process' = None /\ alive' = FALSE /\ ui' = "free"
      BY <1>6 DEF PollReaped, PollForeign, Settle
    <2>2. ~sessionOpen'
      <3>1. sessionOpen' = (sessionOpen /\ alive')
        BY <1>6 DEF PollReaped, PollForeign, Settle
      <3>. QED  BY <2>1, <3>1
    <2>3. ~pending'
      <3>1. pending' = (alive' /\ (pending \/ (state' = "Failed" /\ state' # prev)))
        BY <1>6 DEF PollReaped, PollForeign, Settle
      <3>. QED  BY <2>1, <3>1
    <2>4. ~killed'
      BY <1>6 DEF PollReaped, PollForeign, Duties
    <2>. QED  BY <2>1, <2>2, <2>3, <2>4 DEF Duties, OwnLives
  <1>7. CASE QuitTimeout
    BY <1>7 DEF QuitTimeout, Duties, OwnLives, engineVars, clientVars, stopVars
  <1>8. CASE Leave
    BY <1>8 DEF Leave, Busy, RequestStop, StateAfterStop, Duties, OwnLives, stopVars
  <1>9. CASE ControllerCrash \/ Restart
    BY <1>9 DEF ControllerCrash, Restart, Duties, OwnLives, engineVars, clientVars, stopVars
  <1>10. CASE EndSession
    <2>1. /\ process' = process /\ sessionOpen' = sessionOpen /\ pending' = pending
          /\ killed' = killed /\ prev' = prev /\ ui' = ui /\ ui = "free" /\ quit' = "logoff"
      BY <1>10 DEF EndSession
    <2>2. late' => ~OwnLives'
      BY <1>10, <2>1 DEF EndSession, Duties, OwnLives, Busy, stopVars
    <2>3. \/ state' \in {"Stopping", "Stopped", "Failed", "Exited"} /\ process = None
          \/ state' = "Stopping"
          \/ state' = state
      BY <1>10 DEF EndSession, StateAfterStop
    <2>. QED  BY <2>1, <2>2, <2>3 DEF Duties
  <1>11. CASE GraceOver \/ StartOverdue
    BY <1>11 DEF GraceOver, StartOverdue, Duties, OwnLives, engineVars, stopVars, appVars
  <1>. QED
    BY <1>1, <1>2, <1>3, <1>4, <1>5, <1>6, <1>7, <1>8, <1>9, <1>10, <1>11
       DEF Next, PollProcess

(* The type invariant, step by step.                                       *)
LEMMA TypeStep == ASSUME TypeOK, Next PROVE TypeOK'
  <1>1. ASSUME NEW e \in Engines, EngineStep(e) PROVE TypeOK'
    <2>1. /\ told' \in [Engines -> BOOLEAN] /\ took' \in [Engines -> BOOLEAN]
          /\ code' \in [Engines -> {0, 1}]
      BY <1>1 DEF EngineStep, HandLaunch, Spawn, Boot, TakeOver, TakeOverFails, OpenWindow,
                  StartupFails, Obey, LoopEnds, Close, Finish, Crash, Ends, TypeOK
    <2>2. panel' \in {"on", "off", "reported"}
      BY <1>1 DEF EngineStep, HandLaunch, Boot, TakeOver, TakeOverFails, OpenWindow,
                  StartupFails, Obey, LoopEnds, Close, Finish, Crash, TypeOK
    <2>3. clicks' \in 0..MaxClicks /\ hands' \in 0..MaxHand
      BY <1>1 DEF EngineStep, HandLaunch, Boot, TakeOver, TakeOverFails, OpenWindow,
                  StartupFails, Obey, LoopEnds, Close, Finish, Crash, TypeOK, bounds
    <2>. QED  BY <1>1, <2>1, <2>2, <2>3, EngineFrame DEF TypeOK
  <1>2. CASE UserStep
    <2>1. clicks' \in 0..MaxClicks /\ hands' = hands
      <3>1. Click /\ hands' = hands
        BY <1>2 DEF UserStep, Adopt, Stop, Command, RecoverDisplays, Quit, Launch
      <3>2. clicks \in 0..MaxClicks
        BY DEF TypeOK
      <3>3. clicks < MaxClicks /\ clicks' = clicks + 1
        BY <3>1 DEF Click
      <3>. QED  BY <3>1, <3>2, <3>3
    <2>2. CASE Adopt
      <3>1. window' \in Engines \cup {None}
        BY <2>2 DEF Adopt, FindWindow
      <3>2. /\ UNCHANGED <<phase, told, took, code, panel, process, stopReq, graceOver, late>>
            /\ UNCHANGED <<killed, startRep, overdue, sessionOpen, pending, prev, ui, quit>>
            /\ alive' \in BOOLEAN /\ state' \in States
        BY <2>2 DEF Adopt, States, engineVars, stopVars, appVars
      <3>. QED  BY <2>1, <3>1, <3>2 DEF TypeOK
    <2>3. CASE Stop \/ Quit
      <3>1. told' \in [Engines -> BOOLEAN]
        BY <2>3 DEF Stop, Quit, RequestStop, TypeOK
      <3>2. window' \in Engines \cup {None}
        BY <2>3, StopTargetsType DEF Stop, Quit, RequestStop, TypeOK
      <3>3. state' \in States
        BY <2>3 DEF Stop, Quit, StateAfterStop, States, TypeOK
      <3>4. stopReq' \in BOOLEAN /\ graceOver' \in BOOLEAN /\ late' \in BOOLEAN
        BY <2>3 DEF Stop, Quit, RequestStop, TypeOK, stopVars
      <3>. QED  BY <2>1, <2>3, <3>1, <3>2, <3>3, <3>4 DEF Stop, Quit, TypeOK, appVars
    <2>4. CASE Command \/ RecoverDisplays
      <3>1. window' \in Engines \cup {None} /\ panel' \in {"on", "off", "reported"}
        BY <2>4, StopTargetsType
           DEF Command, RecoverDisplays, Recovered, TypeOK, engineVars, clientVars
      <3>. QED  BY <2>1, <2>4, <3>1
                DEF Command, RecoverDisplays, TypeOK, engineVars, clientVars, stopVars, appVars
    <2>5. ASSUME NEW e \in Engines, Launch(e) PROVE TypeOK'
      <3>1. phase' \in [Engines -> Phases] /\ code' \in [Engines -> {0, 1}]
        BY <2>5 DEF Launch, Spawn, TypeOK, Phases
      <3>. QED  BY <2>1, <2>5, <3>1 DEF Launch, TypeOK, States
    <2>. QED  BY <1>2, <2>2, <2>3, <2>4, <2>5 DEF UserStep
  <1>3. CASE PollWindow
    <2>1. window' \in Engines \cup {None}
      BY <1>3 DEF PollWindow, FindWindow, TypeOK
    <2>. QED  BY <1>3, <2>1 DEF PollWindow, TypeOK, engineVars, stopVars, bounds
  <1>4. CASE PollProcess
    <2>1. /\ phase' \in [Engines -> Phases] /\ code' \in [Engines -> {0, 1}]
          /\ told' \in [Engines -> BOOLEAN] /\ took' \in [Engines -> BOOLEAN]
      BY <1>4 DEF PollProcess, PollStopping, PollRunning, PollReaped, PollForeign, Ends,
                  RequestStop, TypeOK, Phases
    <2>2. process' \in Engines \cup {None} /\ window' \in Engines \cup {None}
      BY <1>4, StopTargetsType
         DEF PollProcess, PollStopping, PollRunning, PollReaped, PollForeign, RequestStop, TypeOK
    <2>3. state' \in States
      BY <1>4 DEF PollProcess, PollStopping, PollRunning, PollReaped, PollForeign, TypeOK, States
    <2>4. /\ stopReq' \in BOOLEAN /\ graceOver' \in BOOLEAN /\ late' \in BOOLEAN
          /\ killed' \in BOOLEAN /\ startRep' \in BOOLEAN /\ overdue' \in BOOLEAN
          /\ alive' \in BOOLEAN
      BY <1>4 DEF PollProcess, PollStopping, PollRunning, PollReaped, PollForeign, RequestStop,
                  TypeOK, stopVars
    <2>5. Settle
      BY <1>4 DEF PollProcess, PollStopping, PollRunning, PollReaped, PollForeign
    <2>6. sessionOpen' \in BOOLEAN /\ pending' \in BOOLEAN
      BY <2>5 DEF Settle
    <2>7. panel' \in {"on", "off", "reported"} /\ ui' \in {"free", "polling"}
      BY <2>5 DEF Settle, Recovered, TypeOK
    <2>8. quit' \in {"no", "wait", "leaving", "gone", "crashed", "logoff"}
      BY <2>5 DEF Settle, TypeOK
    <2>9. prev' = prev /\ clicks' = clicks /\ hands' = hands
      BY <1>4 DEF PollProcess, PollStopping, PollRunning, PollReaped, PollForeign, bounds
    <2>. QED  BY <2>1, <2>2, <2>3, <2>4, <2>6, <2>7, <2>8, <2>9 DEF TypeOK
  <1>5. CASE QuitTimeout \/ GraceOver \/ StartOverdue
    <2>1. CASE QuitTimeout
      BY <2>1 DEF QuitTimeout, TypeOK, engineVars, clientVars, stopVars, bounds
    <2>2. CASE GraceOver
      BY <2>2 DEF GraceOver, TypeOK, engineVars, appVars, bounds
    <2>3. CASE StartOverdue
      BY <2>3 DEF StartOverdue, TypeOK, engineVars, stopVars, appVars, bounds
    <2>. QED  BY <1>5, <2>1, <2>2, <2>3
  <1>6. CASE Leave
    <2>1. told' \in [Engines -> BOOLEAN] /\ window' \in Engines \cup {None}
      BY <1>6, StopTargetsType DEF Leave, RequestStop, TypeOK
    <2>2. state' \in States
      BY <1>6 DEF Leave, StateAfterStop, TypeOK, States
    <2>3. stopReq' \in BOOLEAN /\ graceOver' \in BOOLEAN /\ late' \in BOOLEAN
      BY <1>6 DEF Leave, RequestStop, TypeOK, stopVars
    <2>. QED  BY <1>6, <2>1, <2>2, <2>3 DEF Leave, TypeOK, bounds
  <1>7. CASE ControllerCrash \/ Restart
    <2>1. clicks' \in 0..MaxClicks /\ hands' = hands
      BY <1>7 DEF ControllerCrash, Restart, TypeOK
    <2>2. CASE ControllerCrash
      BY <2>1, <2>2 DEF ControllerCrash, TypeOK, engineVars, clientVars, stopVars
    <2>3. CASE Restart
      BY <2>1, <2>3 DEF Restart, TypeOK, States, engineVars
    <2>. QED  BY <1>7, <2>2, <2>3
  <1>8. CASE EndSession
    <2>1. /\ phase' \in [Engines -> Phases] /\ code' \in [Engines -> {0, 1}]
          /\ told' \in [Engines -> BOOLEAN] /\ took' \in [Engines -> BOOLEAN]
      BY <1>8 DEF EndSession, Ends, TypeOK, Phases
    <2>2. window' \in Engines \cup {None} /\ state' \in States
      BY <1>8, StopTargetsType DEF EndSession, StateAfterStop, TypeOK, States
    <2>3. stopReq' \in BOOLEAN /\ graceOver' \in BOOLEAN /\ late' \in BOOLEAN
      BY <1>8 DEF EndSession, TypeOK, stopVars
    <2>. QED  BY <1>8, <2>1, <2>2, <2>3 DEF EndSession, TypeOK, bounds
  <1>. QED  BY <1>1, <1>2, <1>3, <1>4, <1>5, <1>6, <1>7, <1>8 DEF Next

-----------------------------------------------------------------------------
(* The inductive invariant.                                                *)
LEMMA Invariant == Spec => [](TypeOK /\ Duties)
  <1>1. TypeOK /\ Duties /\ [Next]_vars => (TypeOK /\ Duties)'
    <2>1. CASE Next
      BY <2>1, TypeStep, DutiesStep
    <2>2. CASE UNCHANGED vars
      BY <2>2 DEF vars, engineVars, clientVars, stopVars, appVars, bounds, TypeOK, Duties, OwnLives
    <2>. QED  BY <2>1, <2>2
  <1>. QED  BY InitInvariant, <1>1, PTL DEF Spec

(* Every variable keeps to its type.                                       *)
THEOREM TypeCorrect == Spec => []TypeOK
  BY Invariant, PTL

(* A controller that has quit leaves no live engine of its own behind.     *)
THEOREM QuitLeavesNoOrphan == Spec => []NoOrphan
  <1>1. Duties => NoOrphan
    BY DEF Duties, NoOrphan
  <1>. QED  BY Invariant, <1>1, PTL

(* A state of rest means no process and nothing owed.                      *)
THEOREM RestIsSettled == Spec => []SettledIsDone
  <1>1. Duties => SettledIsDone
    BY DEF Duties, SettledIsDone
  <1>. QED  BY Invariant, <1>1, PTL

(* Outside the polls a serving controller neither reaps its process, nor   *)
(* closes a session, nor takes back that it has killed.                    *)
LEMMA OnlyPollsSettle ==
    ASSUME Duties, Next, ~PollProcess, Serving
    PROVE  /\ sessionOpen => sessionOpen'
           /\ killed => killed'
           /\ process # None => process' # None
  <1>1. ASSUME NEW e \in Engines, EngineStep(e)
        PROVE  UNCHANGED <<sessionOpen, killed, process>>
    BY <1>1 DEF EngineStep, HandLaunch, Boot, TakeOver, TakeOverFails, OpenWindow, StartupFails,
                Obey, LoopEnds, Close, Finish, Crash, clientVars, appVars
  <1>2. ASSUME NEW e \in Engines, Launch(e)
        PROVE  sessionOpen' /\ ~killed /\ process = None
    BY <1>2 DEF Launch, Busy, Duties
  <1>3. CASE Adopt \/ Stop \/ Command \/ RecoverDisplays \/ Quit
    BY <1>3 DEF Adopt, Stop, Command, RecoverDisplays, Quit, clientVars, appVars
  <1>4. CASE PollWindow \/ QuitTimeout \/ Leave \/ ControllerCrash \/ EndSession
    BY <1>4 DEF PollWindow, QuitTimeout, Leave, ControllerCrash, EndSession, clientVars
  <1>5. CASE GraceOver \/ StartOverdue
    BY <1>5 DEF GraceOver, StartOverdue, appVars
  <1>6. ~Restart
    BY DEF Restart, Serving
  <1>. QED  BY <1>1, <1>2, <1>3, <1>4, <1>5, <1>6 DEF Next, UserStep

(* A poll that finds the owned process alive keeps all of that, except     *)
(* that it may kill.                                                       *)
LEMMA LivePollKeeps ==
    ASSUME Duties, PollStopping \/ PollRunning
    PROVE  /\ sessionOpen => sessionOpen'
           /\ killed => killed'
           /\ process # None => process' # None
  <1>1. alive' = TRUE /\ sessionOpen' = (sessionOpen /\ alive')
    BY DEF PollStopping, PollRunning, Settle
  <1>2. (killed => killed') /\ process' = process
    BY DEF PollStopping, PollRunning
  <1>. QED  BY <1>1, <1>2

(* Logs are finished after the engine that writes them is dead.            *)
THEOREM LogsWaitForTheEngine == Spec => LogsAfterEngine
  <1>1. ASSUME Duties, Next, Serving, sessionOpen, ~sessionOpen' PROVE ~OwnLives
    <2>1. PollReaped \/ PollForeign
      BY <1>1, OnlyPollsSettle, LivePollKeeps DEF PollProcess
    <2>. QED  BY <2>1 DEF PollReaped, PollForeign, OwnLives
  <1>2. Duties /\ [Next]_vars => [Serving /\ sessionOpen /\ ~sessionOpen' => ~OwnLives]_vars
    BY <1>1
  <1>. QED  BY Invariant, <1>2, PTL DEF Spec, LogsAfterEngine

(* A kill is reported as a failure when the process is reaped.             *)
THEOREM KillsAreFailures == Spec => KillIsFailure
  <1>1. ASSUME Duties, Next, Serving, killed, ~killed' PROVE process' = None /\ state' = "Failed"
    <2>1. PollReaped
      <3>1. ~PollForeign
        BY <1>1 DEF PollForeign
      <3>. QED  BY <1>1, <3>1, OnlyPollsSettle, LivePollKeeps DEF PollProcess
    <2>. QED  BY <1>1, <2>1 DEF PollReaped
  <1>2. Duties /\ [Next]_vars
          => [Serving /\ killed /\ ~killed' => process' = None /\ state' = "Failed"]_vars
    BY <1>1
  <1>. QED  BY Invariant, <1>2, PTL DEF Spec, KillIsFailure

(* A failed engine that is reaped has its display recovery behind it.      *)
THEOREM FailuresRecoverThePanel == Spec => FailureRecoversPanel
  <1>1. ASSUME TypeOK, Duties, Next, Serving, process # None, process' = None, state' = "Failed"
        PROVE  panel' # "off"
    <2>1. PollReaped
      <3>1. ~PollForeign
        BY <1>1 DEF PollForeign
      <3>. QED  BY <1>1, <3>1, OnlyPollsSettle, LivePollKeeps DEF PollProcess
    <2>2. pending \/ state' # prev
      BY <1>1, <2>1 DEF PollReaped, Duties
    <2>3. alive' = FALSE /\ Settle
      BY <2>1 DEF PollReaped
    <2>4. panel' \in Recovered(panel)
      BY <1>1, <2>2, <2>3 DEF Settle
    <2>. QED  BY <2>4 DEF Recovered
  <1>2. TypeOK /\ Duties /\ [Next]_vars
          => [Serving /\ process # None /\ process' = None /\ state' = "Failed"
                => panel' # "off"]_vars
    BY <1>1
  <1>. QED  BY Invariant, <1>2, PTL DEF Spec, FailureRecoversPanel

-----------------------------------------------------------------------------
(***************************************************************************)
(* The layout editor of the same controller.                               *)
(***************************************************************************)

ScreenRecord == [id : Nat, vdd : 0 .. MaxVdd, at : Positions]

\* A layout the editor may hold: the angles alone can be out of order, at an end.
AngleEnds(l) == AnglesOrdered(l) \/ l.enter = 0 \/ l.leave = MaxAngle
Sound(l) == l \in Layout /\ UniqueScreens(l) /\ FpsOrdered(l) /\ AngleEnds(l)

\* The bounds are naturals, and every screen can have a display.
LEMMA EditorBounds ==
  /\ MaxScreens \in Nat /\ MaxScreens > 0 /\ MaxVdd \in Nat /\ MaxVdd > 0
  /\ MaxAngle \in Nat /\ MaxAngle > 0 /\ MaxFps \in Nat /\ MaxFps > 0
  /\ MaxOps \in Nat /\ MaxForeign \in Nat /\ MaxScreens <= MaxVdd + 1
  /\ Names \subseteq Nat \ {0}
  BY EditorAssumption DEF EditorAssumption

\* A valid layout is one the editor may hold.
LEMMA ValidIsSound ==
  ASSUME NEW l \in ValidLayout
  PROVE  Sound(l) /\ validate_layout(l)
  BY DEF ValidLayout, validate_layout, Sound, AngleEnds

\* A set of naturals has a least element, which is what Least chooses.
LEMMA LeastIsLeast ==
  ASSUME NEW T \in SUBSET Nat, T # {}
  PROVE  Least(T) \in T /\ \A m \in T : Least(T) <= m
<1> DEFINE R == OpToRel(<, Nat)
<1>1. IsWellFoundedOn(R, Nat)
  BY NatLessThanWellFounded
<1>2. \A x, y \in Nat : <<x, y>> \in R <=> x < y
  BY DEF OpToRel
<1> HIDE DEF R
<1>3. PICK n \in T : \A y \in T : ~(<<y, n>> \in R)
  BY <1>1, WFMin
<1>4. \A y \in T : ~(y < n)
  BY <1>2, <1>3, Zenon
<1>5. \A m \in T : n <= m
  BY ONLY <1>4, T \in SUBSET Nat, n \in T
<1>6. QED
  BY ONLY <1>5, n \in T DEF Least

\* What a screen or a field that is set leaves of the layout.
LEMMA SetAtIsSound ==
  ASSUME NEW l, Sound(l), NEW i \in DOMAIN l.screens, NEW v \in Positions
  PROVE  Sound([l EXCEPT !.screens[i].at = v])
<1> DEFINE r == [l EXCEPT !.screens[i].at = v]
<1>1. l \in Layout /\ l.screens \in Seq(ScreenRecord) /\ l.screens[i] \in ScreenRecord
  <2>1. l \in Layout /\ l.screens \in Seq(ScreenRecord)
    BY DEF Sound, Layout, ScreenRecord
  <2>2. \A s \in Seq(ScreenRecord) : \A j \in DOMAIN s : s[j] \in ScreenRecord
    OBVIOUS
  <2>3. QED
    BY <2>1, <2>2
<1> DEFINE ss == [l.screens EXCEPT ![i] = [l.screens[i] EXCEPT !.at = v]]
<1>2. [l.screens[i] EXCEPT !.at = v] \in ScreenRecord
  BY <1>1 DEF ScreenRecord
<1>3. ss \in Seq(ScreenRecord) /\ Len(ss) = Len(l.screens) /\ DOMAIN ss = DOMAIN l.screens
  BY <1>1, <1>2
<1>4. \A j \in DOMAIN ss : ss[j].id = l.screens[j].id /\ ss[j].vdd = l.screens[j].vdd
  BY <1>1, <1>3 DEF ScreenRecord
<1>5. r = [l EXCEPT !.screens = ss]
  BY <1>1 DEF Layout
<1> HIDE DEF r, ss
<1>6. /\ r \in Layout /\ r.screens = ss /\ r.enter = l.enter /\ r.leave = l.leave
      /\ r.idle = l.idle /\ r.mid = l.mid /\ r.active = l.active
  BY <1>1, <1>3, <1>5 DEF Layout, ScreenRecord
<1>7. Ids(r) = Ids(l) /\ Vdds(r) = Vdds(l)
  BY <1>3, <1>4, <1>6 DEF Ids, Vdds
<1>8. UniqueScreens(r) /\ FpsOrdered(r) /\ AngleEnds(r)
  BY <1>3, <1>6, <1>7 DEF Sound, UniqueScreens, FpsOrdered, AngleEnds, AnglesOrdered
<1>9. QED
  BY <1>6, <1>8 DEF Sound, r

\* A layout with the same screens is sound if its rates and angles are.
LEMMA SameScreensSound ==
  ASSUME NEW l, Sound(l), NEW r \in Layout, r.screens = l.screens,
         FpsOrdered(r), AngleEnds(r)
  PROVE  Sound(r)
  BY DEF Sound, UniqueScreens, Ids, Vdds

\* The sliders of the rates push each other, those of the angles push each
\* other to their ends.
LEMMA SlidersKeepSound ==
  ASSUME NEW l, Sound(l)
  PROVE  /\ \A v \in 1 .. MaxFps : /\ Sound(SetIdle(l, v))
                                   /\ Sound(SetMid(l, v))
                                   /\ Sound(SetActive(l, v))
         /\ \A v \in 0 .. MaxAngle : Sound(SetEnter(l, v)) /\ Sound(SetLeave(l, v))
<1> USE EditorBounds DEF Lower, Upper
<1>0. /\ l \in Layout /\ l.idle \in Nat /\ l.mid \in Nat /\ l.active \in Nat
      /\ l.enter \in 0 .. MaxAngle /\ l.leave \in 0 .. MaxAngle
      /\ 1 <= l.idle /\ l.idle <= l.mid /\ l.mid <= l.active /\ l.active <= MaxFps
      /\ l.leave < l.enter \/ l.enter = 0 \/ l.leave = MaxAngle
  BY DEF Sound, Layout, FpsOrdered, AngleEnds, AnglesOrdered
\* Three rates in order, set into the layout.
<1>1. ASSUME NEW a \in Nat, NEW b \in Nat, NEW c \in Nat,
             1 <= a, a <= b, b <= c, c <= MaxFps,
             NEW r, r = [l EXCEPT !.idle = a, !.mid = b, !.active = c]
      PROVE  Sound(r)
  <2>1. r \in Layout
    BY <1>0, <1>1 DEF Layout
  <2>2. /\ r.idle = a /\ r.mid = b /\ r.active = c /\ r.enter = l.enter /\ r.leave = l.leave
        /\ r.screens = l.screens
    BY <1>0, <1>1 DEF Layout
  <2>3. FpsOrdered(r) /\ AngleEnds(r)
    BY <1>0, <1>1, <2>2 DEF FpsOrdered, AngleEnds, AnglesOrdered
  <2>4. QED
    BY <2>1, <2>2, <2>3, SameScreensSound
\* Two angles, ordered or at an end, set into the layout.
<1>2. ASSUME NEW a \in 0 .. MaxAngle, NEW b \in 0 .. MaxAngle,
             b < a \/ a = 0 \/ b = MaxAngle,
             NEW r, r = [l EXCEPT !.enter = a, !.leave = b]
      PROVE  Sound(r)
  <2>1. r \in Layout
    BY <1>0, <1>2 DEF Layout
  <2>2. /\ r.idle = l.idle /\ r.mid = l.mid /\ r.active = l.active /\ r.enter = a /\ r.leave = b
        /\ r.screens = l.screens
    BY <1>0, <1>2 DEF Layout
  <2>3. FpsOrdered(r) /\ AngleEnds(r)
    BY <1>0, <1>2, <2>2 DEF FpsOrdered, AngleEnds, AnglesOrdered
  <2>4. QED
    BY <2>1, <2>2, <2>3, SameScreensSound
<1>3. ASSUME NEW v \in 1 .. MaxFps PROVE Sound(SetIdle(l, v))
  <2> DEFINE b == Upper(l.mid, v)
             c == Upper(l.active, b)
  <2>1. /\ v \in Nat /\ b \in Nat /\ c \in Nat /\ 1 <= v /\ v <= b /\ b <= c /\ c <= MaxFps
    BY <1>0
  <2>2. SetIdle(l, v) = [l EXCEPT !.idle = v, !.mid = b, !.active = c]
    BY <1>0 DEF SetIdle, Layout
  <2> HIDE DEF b, c
  <2>3. QED
    BY <1>1, <2>1, <2>2
<1>4. ASSUME NEW v \in 1 .. MaxFps PROVE Sound(SetMid(l, v))
  <2> DEFINE a == Lower(l.idle, v)
             c == Upper(l.active, v)
  <2>1. /\ v \in Nat /\ a \in Nat /\ c \in Nat /\ 1 <= a /\ a <= v /\ v <= c /\ c <= MaxFps
    BY <1>0
  <2>2. SetMid(l, v) = [l EXCEPT !.idle = a, !.mid = v, !.active = c]
    BY <1>0 DEF SetMid, Layout
  <2> HIDE DEF a, c
  <2>3. QED
    BY <1>1, <2>1, <2>2
<1>5. ASSUME NEW v \in 1 .. MaxFps PROVE Sound(SetActive(l, v))
  <2> DEFINE b == Lower(l.mid, v)
             a == Lower(l.idle, b)
  <2>1. /\ v \in Nat /\ b \in Nat /\ a \in Nat /\ 1 <= a /\ a <= b /\ b <= v /\ v <= MaxFps
    BY <1>0
  <2>2. SetActive(l, v) = [l EXCEPT !.idle = a, !.mid = b, !.active = v]
    BY <1>0 DEF SetActive, Layout
  <2> HIDE DEF a, b
  <2>3. QED
    BY <1>1, <2>1, <2>2
<1>6. ASSUME NEW v \in 0 .. MaxAngle PROVE Sound(SetEnter(l, v))
  <2> DEFINE b == IF v > l.leave THEN l.leave ELSE Upper(1, v) - 1
  <2>1. b \in 0 .. MaxAngle /\ (b < v \/ v = 0 \/ b = MaxAngle)
    BY <1>0
  <2>2. SetEnter(l, v) = [l EXCEPT !.enter = v, !.leave = b]
    BY <1>0 DEF SetEnter, Layout
  <2> HIDE DEF b
  <2>3. QED
    BY <1>2, <2>1, <2>2
<1>7. ASSUME NEW v \in 0 .. MaxAngle PROVE Sound(SetLeave(l, v))
  <2> DEFINE a == IF l.enter > v THEN l.enter ELSE Lower(MaxAngle, v + 1)
  <2>1. a \in 0 .. MaxAngle /\ (v < a \/ a = 0 \/ v = MaxAngle)
    BY <1>0
  <2>2. SetLeave(l, v) = [l EXCEPT !.enter = a, !.leave = v]
    BY <1>0 DEF SetLeave, Layout
  <2> HIDE DEF a
  <2>3. QED
    BY <1>2, <2>1, <2>2
<1>8. QED
  BY <1>3, <1>4, <1>5, <1>6, <1>7

\* set_layout_field leaves a layout the editor may hold, whatever the field.
LEMMA SetFieldIsSound ==
  ASSUME NEW l, Sound(l), NEW i \in DOMAIN l.screens,
         NEW f \in Fields, NEW v \in FieldRange(f)
  PROVE  Sound(set_layout_field(l, i, f, v))
<1>1. CASE f = "at"
  BY <1>1, SetAtIsSound DEF FieldRange, set_layout_field
<1>2. CASE f = "enter" \/ f = "leave"
  BY <1>2, SlidersKeepSound DEF FieldRange, set_layout_field
<1>3. CASE f \in {"idle", "mid", "active"}
  BY <1>3, SlidersKeepSound DEF FieldRange, set_layout_field
<1>4. QED
  BY <1>1, <1>2, <1>3 DEF Fields

\* A range of numbers is finite, and counts as it should.
LEMMA FiniteRanges ==
  \A m \in Nat : /\ IsFiniteSet(1 .. m) /\ Cardinality(1 .. m) = m
                /\ IsFiniteSet(0 .. m) /\ Cardinality(0 .. m) = m + 1
<1>1. \A a, b \in Int : IsFiniteSet(a .. b) /\ Cardinality(a .. b) = IF a > b THEN 0 ELSE b - a + 1
  BY FS_Interval, Zenon
<1>2. ASSUME NEW m \in Nat
      PROVE  /\ IsFiniteSet(1 .. m) /\ Cardinality(1 .. m) = m
             /\ IsFiniteSet(0 .. m) /\ Cardinality(0 .. m) = m + 1
  <2>1. 0 \in Int /\ 1 \in Int /\ m \in Int
    OBVIOUS
  <2>2. /\ IsFiniteSet(1 .. m) /\ Cardinality(1 .. m) = IF 1 > m THEN 0 ELSE m - 1 + 1
        /\ IsFiniteSet(0 .. m) /\ Cardinality(0 .. m) = IF 0 > m THEN 0 ELSE m - 0 + 1
    BY ONLY <1>1, <2>1, Zenon
  <2>3. (IF 1 > m THEN 0 ELSE m - 1 + 1) = m /\ (IF 0 > m THEN 0 ELSE m - 0 + 1) = m + 1
    OBVIOUS
  <2>4. QED
    BY <2>2, <2>3
<1>3. QED
  BY <1>2

\* A screen can be numbered and given a display: fewer than the layout may have
\* leave an id and a driver index free.
LEMMA FreeNumbers ==
  ASSUME NEW l, Sound(l), Len(l.screens) < MaxScreens
  PROVE  next_screen_id(l) \in Nat /\ next_free_vdd_index(l) \in 0 .. MaxVdd
<1> USE EditorBounds
<1>1. l.screens \in Seq(ScreenRecord) /\ Len(l.screens) \in Nat
  BY DEF Sound, Layout, ScreenRecord
<1> DEFINE n == Len(l.screens)
\* No more numbers are taken than there are screens.
<1>2. ASSUME NEW S, IsFiniteSet(S), NEW T, IsFiniteSet(T), Cardinality(S) < Cardinality(T)
      PROVE  T \ S # {}
  <2> SUFFICES ASSUME T \subseteq S PROVE FALSE
    OBVIOUS
  <2>1. T \in SUBSET S
    OBVIOUS
  <2>2. Cardinality(T) <= Cardinality(S)
    BY <1>2, <2>1, FS_Subset
  <2>3. Cardinality(T) \in Nat /\ Cardinality(S) \in Nat
    BY <1>2, FS_CardinalityType
  <2>4. QED
    BY <1>2, <2>2, <2>3
<1>3. /\ IsFiniteSet(Ids(l)) /\ IsFiniteSet(Vdds(l))
      /\ Cardinality(Ids(l)) = n /\ Cardinality(Vdds(l)) = n
  <2>1. IsFiniteSet(1 .. n)
    BY <1>1, FiniteRanges
  <2>2. ASSUME NEW S, NEW f \in Surjection(1 .. n, S) PROVE IsFiniteSet(S)
    BY <2>1, <2>2, FS_Surjection
  <2>3. DOMAIN l.screens = 1 .. n
    BY <1>1
  <2>4. IsFiniteSet(Ids(l))
    <3> DEFINE f == [i \in 1 .. n |-> l.screens[i].id]
    <3>1. f \in [1 .. n -> Ids(l)] /\ \A e \in Ids(l) : \E i \in 1 .. n : f[i] = e
      BY <2>3, Zenon DEF Ids
    <3> HIDE DEF f
    <3>2. f \in Surjection(1 .. n, Ids(l))
      BY <3>1, Zenon DEF Surjection
    <3>3. QED
      BY <2>2, <3>2
  <2>5. IsFiniteSet(Vdds(l))
    <3> DEFINE f == [i \in 1 .. n |-> l.screens[i].vdd]
    <3>1. f \in [1 .. n -> Vdds(l)] /\ \A e \in Vdds(l) : \E i \in 1 .. n : f[i] = e
      BY <2>3, Zenon DEF Vdds
    <3> HIDE DEF f
    <3>2. f \in Surjection(1 .. n, Vdds(l))
      BY <3>1, Zenon DEF Surjection
    <3>3. QED
      BY <2>2, <3>2
  <2>6. Cardinality(Ids(l)) = n /\ Cardinality(Vdds(l)) = n
    BY DEF Sound, UniqueScreens
  <2>7. QED
    BY <2>4, <2>5, <2>6
<1>4. next_screen_id(l) \in Nat
  <2>0. MaxScreens + 1 \in Nat
    OBVIOUS
  <2>1. IsFiniteSet(1 .. MaxScreens + 1) /\ Cardinality(1 .. MaxScreens + 1) = MaxScreens + 1
    BY ONLY <2>0, FiniteRanges
  <2>2. (1 .. MaxScreens + 1) \ Ids(l) # {}
    BY <1>1, <1>2, <1>3, <2>1
  <2>3. (1 .. MaxScreens + 1) \ Ids(l) \in SUBSET Nat
    OBVIOUS
  <2>4. QED
    BY <2>2, <2>3, LeastIsLeast DEF next_screen_id
<1>5. next_free_vdd_index(l) \in 0 .. MaxVdd
  <2>1. IsFiniteSet(0 .. MaxVdd) /\ Cardinality(0 .. MaxVdd) = MaxVdd + 1
    BY FiniteRanges
  <2>2. (0 .. MaxVdd) \ Vdds(l) # {}
    BY <1>1, <1>2, <1>3, <2>1
  <2>3. (0 .. MaxVdd) \ Vdds(l) \in SUBSET Nat
    OBVIOUS
  <2>4. QED
    BY <2>2, <2>3, LeastIsLeast DEF next_free_vdd_index
<1>6. QED
  BY <1>4, <1>5

\* With other screens it is still a layout.
LEMMA OtherScreens ==
  ASSUME NEW l \in Layout, NEW ss \in Seq(ScreenRecord)
  PROVE  /\ [l EXCEPT !.screens = ss] \in Layout
         /\ [l EXCEPT !.screens = ss].screens = ss
  BY DEF Layout, ScreenRecord

\* A layout with a screen more is a layout.
LEMMA AddedIsLayout ==
  ASSUME NEW l, Sound(l), Len(l.screens) < MaxScreens
  PROVE  add_screen(l) \in Layout
<1>1. l \in Layout /\ l.screens \in Seq(ScreenRecord) /\ Len(l.screens) \in 1 .. MaxScreens
  BY DEF Sound, Layout, ScreenRecord, UniqueScreens
<1>2. Last(l.screens) \in ScreenRecord
  <2>1. \A s \in Seq(ScreenRecord) : Len(s) \in 1 .. MaxScreens => s[Len(s)] \in ScreenRecord
    OBVIOUS
  <2>2. QED
    BY <1>1, <2>1 DEF Last
<1> DEFINE s == [id |-> next_screen_id(l), vdd |-> next_free_vdd_index(l),
                 at |-> Last(l.screens).at]
<1>3. Last(l.screens).at \in Positions
  BY <1>2 DEF ScreenRecord
<1>4. s \in ScreenRecord
  BY <1>3, FreeNumbers DEF ScreenRecord
<1> HIDE DEF s
<1>5. Append(l.screens, s) \in Seq(ScreenRecord)
  BY <1>1, <1>4
<1>6. add_screen(l) = [l EXCEPT !.screens = Append(l.screens, s)]
  BY <1>1 DEF add_screen, Layout, s
<1>7. QED
  BY <1>1, <1>5, <1>6, OtherScreens

\* A layout with a screen less is a layout.
LEMMA RemovedIsLayout ==
  ASSUME NEW l, Sound(l), NEW i \in Nat \ {0}, i <= Len(l.screens)
  PROVE  remove_screen(l, i) \in Layout
<1>1. l \in Layout /\ l.screens \in Seq(ScreenRecord) /\ Len(l.screens) \in Nat
  BY DEF Sound, Layout, ScreenRecord
<1>2. \A s \in Seq(ScreenRecord) : i <= Len(s) =>
        /\ SubSeq(s, 1, i - 1) \in Seq(ScreenRecord)
        /\ SubSeq(s, i + 1, Len(s)) \in Seq(ScreenRecord)
  BY SubSeqProperties
<1>3. \A s, t \in Seq(ScreenRecord) : s \o t \in Seq(ScreenRecord)
  OBVIOUS
<1>4. RemoveAt(l.screens, i) \in Seq(ScreenRecord)
  BY <1>1, <1>2, <1>3 DEF RemoveAt
<1>5. remove_screen(l, i) = [l EXCEPT !.screens = RemoveAt(l.screens, i)]
  BY DEF remove_screen
<1>6. QED
  BY <1>1, <1>4, <1>5, OtherScreens

\* A layout the code has validated is one load_layout accepts.
LEMMA ValidatedIsValid ==
  ASSUME NEW l \in Layout, validate_layout(l)
  PROVE  l \in ValidLayout /\ Sound(l)
  BY ValidIsSound DEF ValidLayout

\* What the editor keeps of its layout and the layout file, of the presets, and
\* of the mouse: together an inductive invariant.
DocOK ==
  /\ Sound(layout) /\ selected \in 1 .. MaxScreens /\ layout_dirty \in BOOLEAN
  /\ disk \in ValidLayout \cup {Broken} /\ apart \in BOOLEAN
PresetsOK ==
  /\ presets \in [Names -> ValidLayout \cup {Broken, Absent}]
  /\ Range(preset_names) \subseteq Names /\ loaded_preset \in Names \cup {NoPreset}
MouseOK ==
  /\ drag \in [active : BOOLEAN, field : Fields \cup {"none"}, screen : 0 .. MaxScreens]
  /\ held \in BOOLEAN /\ ops \in 0 .. MaxOps /\ foreign \in 0 .. MaxForeign
EditorInv == DocOK /\ PresetsOK /\ MouseOK

\* The screens of a layout the editor may hold are at most as many as allowed.
LEMMA SoundScreens ==
  ASSUME NEW l, Sound(l)
  PROVE  /\ l \in Layout /\ Len(l.screens) \in 1 .. MaxScreens
         /\ DOMAIN l.screens = 1 .. Len(l.screens) /\ DOMAIN l.screens \subseteq 1 .. MaxScreens
<1>1. l \in Layout /\ l.screens \in Seq(ScreenRecord) /\ Len(l.screens) \in 1 .. MaxScreens
  BY DEF Sound, Layout, ScreenRecord, UniqueScreens
<1>2. \A s \in Seq(ScreenRecord) : DOMAIN s = 1 .. Len(s)
  OBVIOUS
<1>3. QED
  BY <1>1, <1>2, EditorBounds

\* The selection of a layout with fewer screens is cut to them.
LEMMA ClampedSelection ==
  ASSUME NEW l, Sound(l), NEW n \in 1 .. MaxScreens
  PROVE  Clamp(n, l) \in 1 .. MaxScreens
  BY SoundScreens, EditorBounds DEF Clamp, Lower

\* The factory layouts are valid.
LEMMA FactoryIsValid ==
  /\ \A i \in DOMAIN Factory : Factory[i] \in ValidLayout
  /\ Factory[1] \in ValidLayout
  /\ Last(Factory) \in ValidLayout
  /\ Range(Factory) \subseteq ValidLayout
<1> DEFINE V == ValidLayout
<1>1. Factory \in Seq(V) /\ Factory # << >>
  BY LayoutsAssumption DEF LayoutsAssumption
<1> HIDE DEF V
<1>2. \A s \in Seq(V) : s # << >> =>
        /\ Len(s) \in DOMAIN s /\ 1 \in DOMAIN s /\ \A i \in DOMAIN s : s[i] \in V
  OBVIOUS
<1>3. QED
  BY <1>1, <1>2 DEF Last, Range, V

\* What the list shows are names.
LEMMA ListedAreNames ==
  ASSUME NEW files, NEW list \in Listed(files)
  PROVE  Range(list) \subseteq Names
<1> DEFINE there == {n \in Names : files[n] # Absent}
<1>1. list \in [1 .. Cardinality(there) -> there]
  BY DEF Listed
<1>2. QED
  BY <1>1 DEF Range

\* Reading the list of presets again, after any of them was written validly.
LEMMA RefreshKeeps ==
  ASSUME NEW files \in [Names -> ValidLayout \cup {Broken, Absent}], NEW star \in Names,
         refresh_layout_presets(files, star)
  PROVE  PresetsOK'
<1>1. presets' = files /\ preset_names' \in Listed(files) /\ loaded_preset' \in {star, NoPreset}
  BY DEF refresh_layout_presets
<1>2. Range(preset_names') \subseteq Names
  BY <1>1, ListedAreNames
<1>3. QED
  BY <1>1, <1>2 DEF PresetsOK

LEMMA EditorInitInv ==
  ASSUME EditorInit
  PROVE  EditorInv
<1> USE EditorBounds
<1>1. layout \in ValidLayout /\ disk \in ValidLayout \cup {Broken}
  BY FactoryIsValid, LayoutsAssumption DEF EditorInit, LayoutsAssumption
<1>2. DocOK
  <2>1. selected = 1 /\ layout_dirty = FALSE /\ apart = (disk = Broken)
    BY DEF EditorInit
  <2>2. apart \in BOOLEAN
    BY ONLY <2>1, Zenon
  <2>3. Sound(layout)
    BY <1>1, ValidIsSound
  <2>4. 1 \in 1 .. MaxScreens
    OBVIOUS
  <2>5. QED
    BY ONLY <1>1, <2>1, <2>2, <2>3, <2>4 DEF DocOK
<1>3. PresetsOK
  <2>1. Range(preset_names) \subseteq Names
    BY ListedAreNames DEF EditorInit
  <2>2. QED
    BY <2>1, LayoutsAssumption DEF EditorInit, PresetsOK, LayoutsAssumption
<1>4. MouseOK
  <2>1. drag = NoDrag /\ held = FALSE /\ ops = 0 /\ foreign = 0
    BY DEF EditorInit
  <2>2. 0 \in 0 .. MaxScreens /\ 0 \in 0 .. MaxOps /\ 0 \in 0 .. MaxForeign
    OBVIOUS
  <2>3. QED
    BY ONLY <2>1, <2>2 DEF MouseOK, NoDrag
<1>5. QED
  BY <1>2, <1>3, <1>4 DEF EditorInv

\* The controls write what load_layout accepts, and leave a layout the editor
\* may hold.
LEMMA SaveKeepsDoc ==
  ASSUME DocOK, save_layout_to_disk
  PROVE  DocOK'
<1>1. CASE validate_layout(layout) /\ disk' = layout /\ layout_dirty' = FALSE /\ apart' = FALSE
  <2>1. layout \in ValidLayout
    BY <1>1 DEF DocOK, Sound, ValidLayout
  <2>2. QED
    BY <1>1, <2>1 DEF DocOK, save_layout_to_disk
<1>2. CASE UNCHANGED <<disk, layout_dirty, apart>>
  BY <1>2 DEF DocOK, save_layout_to_disk
<1>3. QED
  BY <1>1, <1>2 DEF save_layout_to_disk

LEMMA RevertKeepsDoc ==
  ASSUME DocOK, revert_layout_from_disk
  PROVE  DocOK'
<1>1. CASE disk = Broken
  BY <1>1 DEF DocOK, revert_layout_from_disk, docVars
<1>2. CASE disk # Broken
  <2>1. Sound(disk)
    BY <1>2, ValidIsSound DEF DocOK
  <2>2. Clamp(selected, disk) \in 1 .. MaxScreens
    BY <2>1, ClampedSelection DEF DocOK
  <2>3. QED
    BY <1>2, <2>1, <2>2 DEF DocOK, revert_layout_from_disk
<1>3. QED
  BY <1>1, <1>2

LEMMA AddKeepsDoc ==
  ASSUME DocOK, AddScreen
  PROVE  DocOK'
<1> DEFINE l == add_screen(layout)
<1>1. CASE Len(layout.screens) < MaxScreens /\ validate_layout(l)
  <2>1. Sound(l)
    BY <1>1, AddedIsLayout, ValidatedIsValid DEF DocOK
  <2>2. Len(l.screens) \in 1 .. MaxScreens
    BY <2>1, SoundScreens
  <2>3. layout' = l /\ layout_dirty' = TRUE /\ selected' = Len(l.screens)
    BY <1>1 DEF AddScreen, Edited
  <2>4. UNCHANGED <<disk, apart>>
    BY DEF AddScreen
  <2> HIDE DEF l
  <2>5. QED
    BY <2>1, <2>2, <2>3, <2>4 DEF DocOK
<1>2. CASE ~(Len(layout.screens) < MaxScreens /\ validate_layout(l))
  BY <1>2 DEF AddScreen, Keep, DocOK
<1>3. QED
  BY <1>1, <1>2

LEMMA RemoveKeepsDoc ==
  ASSUME DocOK, RemoveScreen
  PROVE  DocOK'
<1> DEFINE l == remove_screen(layout, selected)
<1>1. CASE selected <= Len(layout.screens) /\ validate_layout(l) /\ Len(layout.screens) > 1
  <2>1. Sound(l)
    BY <1>1, RemovedIsLayout, ValidatedIsValid, EditorBounds DEF DocOK
  <2>2. layout' = l /\ layout_dirty' = TRUE /\ selected' = Clamp(selected, layout')
    BY <1>1 DEF RemoveScreen, Edited
  <2>3. UNCHANGED <<disk, apart>>
    BY DEF RemoveScreen
  <2> HIDE DEF l
  <2>4. Clamp(selected, l) \in 1 .. MaxScreens
    BY <2>1, ClampedSelection DEF DocOK
  <2>5. QED
    BY <2>1, <2>2, <2>3, <2>4 DEF DocOK
<1>2. CASE ~(selected <= Len(layout.screens) /\ validate_layout(l) /\ Len(layout.screens) > 1)
  BY <1>2 DEF RemoveScreen, Keep, DocOK
<1>3. QED
  BY <1>1, <1>2

LEMMA SavePresetKeeps ==
  ASSUME DocOK, PresetsOK, SavePreset
  PROVE  DocOK' /\ PresetsOK'
<1>1. DocOK'
  BY DEF SavePreset, docVars, DocOK
<1>2. CASE /\ validate_layout(layout)
           /\ \E n \in prompt_preset_name \ {NoPreset} :
                refresh_layout_presets([presets EXCEPT ![n] = layout], n)
  <2>1. PICK n \in Names : refresh_layout_presets([presets EXCEPT ![n] = layout], n)
    BY <1>2 DEF prompt_preset_name
  <2>2. layout \in ValidLayout
    BY <1>2 DEF DocOK, Sound, ValidLayout
  <2>3. [presets EXCEPT ![n] = layout] \in [Names -> ValidLayout \cup {Broken, Absent}]
    BY <2>2 DEF PresetsOK
  <2>4. QED
    BY <1>1, <2>1, <2>3, RefreshKeeps
<1>3. CASE UNCHANGED presetVars
  BY <1>1, <1>3 DEF PresetsOK, presetVars
<1>4. QED
  BY <1>2, <1>3 DEF SavePreset

LEMMA DeletePresetKeeps ==
  ASSUME DocOK, PresetsOK, DeletePreset
  PROVE  DocOK' /\ PresetsOK'
<1>1. DocOK'
  BY DEF DeletePreset, docVars, DocOK
<1>2. CASE /\ loaded_preset # NoPreset
           /\ refresh_layout_presets([presets EXCEPT ![loaded_preset] = Absent], loaded_preset)
  <2>1. loaded_preset \in Names
    BY <1>2 DEF PresetsOK
  <2>2. refresh_layout_presets([presets EXCEPT ![loaded_preset] = Absent], loaded_preset)
    BY <1>2
  <2>3. [presets EXCEPT ![loaded_preset] = Absent] \in [Names -> ValidLayout \cup {Broken, Absent}]
    BY DEF PresetsOK
  <2>4. QED
    BY <1>1, <2>1, <2>2, <2>3, RefreshKeeps
<1>3. CASE UNCHANGED presetVars
  BY <1>1, <1>3 DEF PresetsOK, presetVars
<1>4. QED
  BY <1>2, <1>3 DEF DeletePreset

LEMMA LoadingKeeps ==
  ASSUME DocOK, PresetsOK
  PROVE  /\ \A i \in DOMAIN Factory : LoadFactory(i) => DocOK' /\ PresetsOK'
         /\ \A i : LoadPreset(i) => DocOK' /\ PresetsOK'
<1> USE EditorBounds
<1>1. ASSUME NEW l \in ValidLayout, Load(l), UNCHANGED <<disk, apart>>
      PROVE  DocOK'
  <2>1. Sound(l)
    BY ValidIsSound
  <2>2. layout' = l /\ layout_dirty' = TRUE /\ selected' = 1
    BY <1>1 DEF Load, Edited
  <2>3. QED
    BY <1>1, <2>1, <2>2 DEF DocOK
<1>2. ASSUME NEW i \in DOMAIN Factory, LoadFactory(i) PROVE DocOK' /\ PresetsOK'
  <2>1. Factory[i] \in ValidLayout
    BY FactoryIsValid
  <2>2. Load(Factory[i]) /\ UNCHANGED <<disk, apart>> /\ UNCHANGED presetVars
    BY <1>2 DEF LoadFactory
  <2>3. QED
    BY <1>1, <2>1, <2>2 DEF PresetsOK, presetVars
<1>3. ASSUME NEW i, LoadPreset(i) PROVE DocOK' /\ PresetsOK'
  <2>1. UNCHANGED <<disk, apart>> /\ UNCHANGED <<presets, preset_names>>
    BY <1>3 DEF LoadPreset
  <2>2. CASE i \in DOMAIN preset_names /\ presets[preset_names[i]] \notin {Broken, Absent}
    <3>1. preset_names[i] \in Names
      BY <2>2 DEF PresetsOK, Range
    <3>2. presets[preset_names[i]] \in ValidLayout
      BY <2>2, <3>1 DEF PresetsOK
    <3>3. Load(presets[preset_names[i]]) /\ loaded_preset' = preset_names[i]
      BY <1>3, <2>2 DEF LoadPreset
    <3>4. DocOK'
      BY <1>1, <2>1, <3>2, <3>3
    <3>5. QED
      BY <2>1, <3>1, <3>3, <3>4 DEF PresetsOK
  <2>3. CASE ~(i \in DOMAIN preset_names /\ presets[preset_names[i]] \notin {Broken, Absent})
    <3>1. UNCHANGED <<layout, layout_dirty, selected, loaded_preset>>
      BY <1>3, <2>3 DEF LoadPreset, Keep
    <3>2. QED
      BY <2>1, <3>1 DEF DocOK, PresetsOK
  <2>4. QED
    BY <2>2, <2>3
<1>4. QED
  BY <1>2, <1>3

\* Whatever a control does, it keeps the layout, the file and the presets so.
LEMMA ExecuteKeeps ==
  ASSUME DocOK, PresetsOK,
         NEW c, execute(c)
  PROVE  DocOK' /\ PresetsOK'
<1>1. CASE save_layout_to_disk
  <2>1. UNCHANGED presetVars
    BY <1>1 DEF save_layout_to_disk
  <2>2. QED
    BY <1>1, <2>1, SaveKeepsDoc DEF PresetsOK, presetVars
<1>2. CASE revert_layout_from_disk
  <2>1. UNCHANGED presetVars
    BY <1>2 DEF revert_layout_from_disk
  <2>2. QED
    BY <1>2, <2>1, RevertKeepsDoc DEF PresetsOK, presetVars
<1>3. CASE AddScreen
  <2>1. UNCHANGED presetVars
    BY <1>3 DEF AddScreen
  <2>2. QED
    BY <1>3, <2>1, AddKeepsDoc DEF PresetsOK, presetVars
<1>4. CASE RemoveScreen
  <2>1. UNCHANGED presetVars
    BY <1>4 DEF RemoveScreen
  <2>2. QED
    BY <1>4, <2>1, RemoveKeepsDoc DEF PresetsOK, presetVars
<1>5. CASE SavePreset
  BY <1>5, SavePresetKeeps
<1>6. CASE DeletePreset
  BY <1>6, DeletePresetKeeps
<1>7. CASE \E i \in DOMAIN Factory : LoadFactory(i)
  BY <1>7, LoadingKeeps
<1>8. CASE \E i \in 1 .. Cardinality(Names) : LoadPreset(i)
  BY <1>8, LoadingKeeps
<1>9. CASE \E i \in 1 .. MaxScreens : SelectScreen(i)
  BY <1>9 DEF SelectScreen, DocOK, PresetsOK, presetVars
<1>10. QED
  BY <1>1, <1>2, <1>3, <1>4, <1>5, <1>6, <1>7, <1>8, <1>9 DEF execute

\* One move of a field by key or wheel.
LEMMA NudgeKeepsDoc ==
  ASSUME DocOK, NEW i \in DOMAIN layout.screens, NEW f \in Fields,
         Nudge(i, f), UNCHANGED <<selected, disk, apart>>
  PROVE  DocOK'
<1>1. PICK v \in FieldRange(f) :
        /\ layout' = set_layout_field(layout, i, f, v)
        /\ layout_dirty' = (layout_dirty \/ validate_layout(set_layout_field(layout, i, f, v)))
  BY DEF Nudge
<1>2. Sound(layout')
  BY <1>1, SetFieldIsSound DEF DocOK
<1>3. layout_dirty' \in BOOLEAN
  BY ONLY <1>1, Zenon
<1>4. QED
  BY <1>2, <1>3 DEF DocOK

\* A press on a screen or a slider.
LEMMA GrabKeeps ==
  ASSUME EditorInv, Grab
  PROVE  DocOK' /\ drag' \in [active : BOOLEAN, field : Fields \cup {"none"}, screen : 0 .. MaxScreens]
<1> DEFINE D == [active : BOOLEAN, field : Fields \cup {"none"}, screen : 0 .. MaxScreens]
<1>0. Sound(layout) /\ DOMAIN layout.screens \subseteq 1 .. MaxScreens /\ drag \in D
  BY SoundScreens DEF EditorInv, DocOK, MouseOK
<1>1. UNCHANGED <<disk, apart>>
  BY DEF Grab
<1>2. CASE \E i \in DOMAIN layout.screens :
             /\ selected' = i /\ drag' = [drag EXCEPT !.active = TRUE, !.screen = i]
             /\ Keep
  <2>1. PICK i \in DOMAIN layout.screens :
          /\ selected' = i /\ drag' = [drag EXCEPT !.active = TRUE, !.screen = i]
          /\ UNCHANGED <<layout, layout_dirty>>
    BY <1>2 DEF Keep
  <2>2. i \in 1 .. MaxScreens /\ i \in 0 .. MaxScreens
    BY <1>0, EditorBounds
  <2>3. drag' \in D
    BY <1>0, <2>1, <2>2
  <2>4. DocOK'
    BY <1>1, <2>1, <2>2 DEF EditorInv, DocOK
  <2>5. QED
    BY <2>3, <2>4
<1>3. CASE \E f \in Fields : \E v \in FieldRange(f) :
             /\ drag' = [drag EXCEPT !.active = TRUE, !.field = f]
             /\ IF selected \in DOMAIN layout.screens
                THEN Edited(set_layout_field(layout, selected, f, v)) ELSE Keep
             /\ UNCHANGED selected
  <2>0. PICK f \in Fields : \E v \in FieldRange(f) :
          /\ drag' = [drag EXCEPT !.active = TRUE, !.field = f]
          /\ IF selected \in DOMAIN layout.screens
             THEN Edited(set_layout_field(layout, selected, f, v)) ELSE Keep
          /\ UNCHANGED selected
    BY <1>3
  <2>1. PICK v \in FieldRange(f) :
          /\ drag' = [drag EXCEPT !.active = TRUE, !.field = f]
          /\ IF selected \in DOMAIN layout.screens
             THEN Edited(set_layout_field(layout, selected, f, v)) ELSE Keep
          /\ UNCHANGED selected
    BY <2>0
  <2>2. drag' \in D
    BY <1>0, <2>1
  <2>3. Sound(layout') /\ layout_dirty' \in BOOLEAN
    <3>1. CASE selected \in DOMAIN layout.screens
      BY <1>0, <2>1, <3>1, SetFieldIsSound DEF Edited
    <3>2. CASE selected \notin DOMAIN layout.screens
      BY <1>0, <2>1, <3>2 DEF Keep, EditorInv, DocOK
    <3>3. QED
      BY <3>1, <3>2
  <2>4. DocOK'
    BY <1>1, <2>1, <2>3 DEF EditorInv, DocOK
  <2>5. QED
    BY <2>2, <2>4
<1>4. QED
  BY <1>2, <1>3 DEF Grab

\* A move of what was pressed.
LEMMA MoveKeepsDoc ==
  ASSUME EditorInv, Move
  PROVE  DocOK'
<1>1. UNCHANGED <<selected, disk, apart>>
  BY DEF Move
<1>2. Sound(layout') /\ layout_dirty' = TRUE
  <2>0. Sound(layout) /\ drag.field \in Fields \cup {"none"}
    BY DEF EditorInv, DocOK, MouseOK
  <2>1. CASE /\ drag.field # "none" /\ selected \in DOMAIN layout.screens
             /\ \E v \in FieldRange(drag.field) :
                  Edited(set_layout_field(layout, selected, drag.field, v))
    BY <2>0, <2>1, SetFieldIsSound DEF Edited
  <2>2. CASE /\ drag.screen \in DOMAIN layout.screens
             /\ \E v \in Positions : Edited(set_layout_field(layout, drag.screen, "at", v))
    <3>1. PICK v \in Positions : Edited(set_layout_field(layout, drag.screen, "at", v))
      BY <2>2
    <3>2. "at" \in Fields /\ v \in FieldRange("at")
      BY DEF Fields, FieldRange
    <3>3. QED
      BY <2>0, <2>2, <3>1, <3>2, SetFieldIsSound DEF Edited
  <2>3. QED
    BY <2>1, <2>2 DEF Move
<1>3. QED
  BY <1>1, <1>2 DEF EditorInv, DocOK

LEMMA EditorNextInv ==
  ASSUME EditorInv, [EditorNext]_editorVars
  PROVE  EditorInv'
<1> DEFINE D == [active : BOOLEAN, field : Fields \cup {"none"}, screen : 0 .. MaxScreens]
<1>0. DocOK /\ PresetsOK /\ MouseOK
  BY DEF EditorInv
<1>1. NoDrag \in D /\ drag \in D /\ held \in BOOLEAN
  <2>1. 0 \in 0 .. MaxScreens
    BY EditorBounds
  <2>2. QED
    BY <1>0, <2>1 DEF NoDrag, MouseOK
\* What a count of an input, or of an edit by hand, leaves.
<1>2. ASSUME Input, UNCHANGED foreign PROVE ops' \in 0 .. MaxOps /\ foreign' \in 0 .. MaxForeign
  BY <1>0, <1>2, EditorBounds DEF Input, MouseOK
<1>3. ASSUME UNCHANGED presetVars PROVE PresetsOK'
  BY <1>0, <1>3 DEF presetVars, PresetsOK
<1>4. ASSUME UNCHANGED <<docVars, apart>> PROVE DocOK'
  BY <1>0, <1>4 DEF docVars, DocOK
<1>5. ASSUME UNCHANGED <<mouseVars, foreign>>, Input PROVE MouseOK'
  <2>1. UNCHANGED <<drag, held>> /\ ops' \in 0 .. MaxOps /\ foreign' \in 0 .. MaxForeign
    BY <1>2, <1>5 DEF mouseVars
  <2>2. QED
    BY <1>0, <2>1 DEF MouseOK
<1>6. CASE Paint
  <2>1. UNCHANGED <<docVars, apart>> /\ UNCHANGED presetVars /\ UNCHANGED <<drag, held, ops, foreign>>
    BY <1>6 DEF Paint, mouseVars
  <2>2. QED
    BY <1>0, <1>3, <1>4, <2>1 DEF MouseOK, EditorInv
<1>7. CASE ClickControl
  <2>1. Input /\ drag' = NoDrag /\ UNCHANGED <<held, foreign>>
    BY <1>7 DEF ClickControl
  <2>2. ops' \in 0 .. MaxOps /\ foreign' \in 0 .. MaxForeign
    BY <1>2, <2>1
  <2>3. MouseOK'
    BY <1>1, <2>1, <2>2 DEF MouseOK
  <2>4. CASE UNCHANGED <<docVars, presetVars, apart>>
    <3>1. UNCHANGED <<docVars, apart>> /\ UNCHANGED presetVars
      BY <2>4
    <3>2. QED
      BY <1>3, <1>4, <2>3, <3>1 DEF EditorInv
  <2>5. CASE \E c \in Hotspots(shown) : execute(c)
    BY <1>0, <2>3, <2>5, ExecuteKeeps DEF EditorInv
  <2>6. QED
    BY <1>7, <2>4, <2>5 DEF ClickControl
<1>8. CASE Grab
  <2>1. Input /\ held' = TRUE /\ UNCHANGED foreign /\ UNCHANGED presetVars
    BY <1>8 DEF Grab
  <2>2. ops' \in 0 .. MaxOps /\ foreign' \in 0 .. MaxForeign
    BY <1>2, <2>1
  <2>3. DocOK' /\ drag' \in D
    BY <1>8, GrabKeeps
  <2>4. QED
    BY <1>3, <2>1, <2>2, <2>3 DEF MouseOK, EditorInv
<1>9. CASE Move
  <2>1. Input /\ UNCHANGED <<mouseVars, foreign>> /\ UNCHANGED presetVars
    BY <1>9 DEF Move
  <2>2. QED
    BY <1>3, <1>5, <1>9, <2>1, MoveKeepsDoc DEF EditorInv
<1>10. CASE Drop
  <2>1. /\ held' = FALSE /\ drag' = NoDrag /\ UNCHANGED <<ops, foreign>>
        /\ UNCHANGED <<docVars, apart>> /\ UNCHANGED presetVars
    BY <1>10 DEF Drop
  <2>2. QED
    BY <1>0, <1>1, <1>3, <1>4, <2>1 DEF MouseOK, EditorInv
<1>11. CASE LoseCapture
  <2>1. /\ held' = FALSE /\ Input /\ UNCHANGED <<drag, foreign>>
        /\ UNCHANGED <<docVars, apart>> /\ UNCHANGED presetVars
    BY <1>11 DEF LoseCapture
  <2>2. ops' \in 0 .. MaxOps /\ foreign' \in 0 .. MaxForeign
    BY <1>2, <2>1
  <2>3. QED
    BY <1>1, <1>3, <1>4, <2>1, <2>2 DEF MouseOK, EditorInv
<1>12. CASE Tab
  <2>1. /\ Input /\ UNCHANGED <<mouseVars, foreign>>
        /\ UNCHANGED <<docVars, apart>> /\ UNCHANGED presetVars
    BY <1>12 DEF Tab
  <2>2. QED
    BY <1>3, <1>4, <1>5, <2>1 DEF EditorInv
<1>13. CASE AdjustFocused
  <2>1. /\ Input /\ UNCHANGED <<mouseVars, foreign>> /\ UNCHANGED presetVars
        /\ UNCHANGED <<selected, disk, apart>> /\ selected \in DOMAIN layout.screens
    BY <1>13 DEF AdjustFocused
  <2>2. \E f \in Fields : Nudge(selected, f)
    BY <1>13 DEF AdjustFocused, Fields
  <2>3. QED
    BY <1>0, <1>3, <1>5, <2>1, <2>2, NudgeKeepsDoc DEF EditorInv
<1>14. CASE Wheel
  <2>1. /\ Input /\ UNCHANGED <<mouseVars, foreign>> /\ UNCHANGED presetVars
        /\ UNCHANGED <<selected, disk, apart>> /\ selected \in DOMAIN layout.screens
        /\ \E f \in Fields : Nudge(selected, f)
    BY <1>14 DEF Wheel
  <2>2. QED
    BY <1>0, <1>3, <1>5, <2>1, NudgeKeepsDoc DEF EditorInv
<1>15. CASE ActivateFocused
  <2>1. Input /\ UNCHANGED <<mouseVars, foreign>> /\ execute(focus_id)
    BY <1>15 DEF ActivateFocused
  <2>2. QED
    BY <1>0, <1>5, <2>1, ExecuteKeeps DEF EditorInv
<1>16. CASE CtrlS
  <2>1. Input /\ UNCHANGED <<mouseVars, foreign>> /\ save_layout_to_disk
    BY <1>16 DEF CtrlS
  <2>2. UNCHANGED presetVars
    BY <2>1 DEF save_layout_to_disk
  <2>3. QED
    BY <1>0, <1>3, <1>5, <2>1, <2>2, SaveKeepsDoc DEF EditorInv
<1>17. CASE Foreign
  <2>1. /\ foreign < MaxForeign /\ foreign' = foreign + 1
        /\ UNCHANGED <<layout, selected, layout_dirty, preset_names, loaded_preset, drag, held, ops>>
    BY <1>17 DEF Foreign, mouseVars
  <2>2. MouseOK'
    <3>1. foreign' \in 0 .. MaxForeign
      BY <1>0, <2>1, EditorBounds DEF MouseOK
    <3>2. QED
      BY <1>0, <2>1, <3>1 DEF MouseOK
  <2>3. CASE /\ \E l \in Range(Factory) \cup {Broken} : disk' = l
             /\ apart' = TRUE /\ UNCHANGED presets
    BY <1>0, <2>1, <2>2, <2>3, FactoryIsValid DEF DocOK, PresetsOK, EditorInv
  <2>4. CASE /\ \E n \in Names, l \in {Broken, Absent, Last(Factory)} : presets' = [presets EXCEPT ![n] = l]
             /\ UNCHANGED <<disk, apart>>
    BY <1>0, <2>1, <2>2, <2>4, FactoryIsValid DEF DocOK, PresetsOK, EditorInv
  <2>5. QED
    BY <1>17, <2>3, <2>4 DEF Foreign
<1>18. CASE Repoint
  <2>1. /\ foreign < MaxForeign /\ foreign' = foreign + 1 /\ apart' = TRUE
        /\ disk' \in Range(Factory) \cup {Broken} /\ presets' \in {presets, [n \in Names |-> Absent]}
        /\ UNCHANGED <<layout, selected, layout_dirty, preset_names, loaded_preset, drag, held, ops>>
    BY <1>18 DEF Repoint, mouseVars
  <2>2. foreign' \in 0 .. MaxForeign
    BY <1>0, <2>1, EditorBounds DEF MouseOK
  <2>3. MouseOK'
    BY <1>0, <2>1, <2>2 DEF MouseOK
  <2>4. DocOK'
    BY <1>0, <2>1, FactoryIsValid DEF DocOK
  <2>5. PresetsOK'
    BY <1>0, <2>1 DEF PresetsOK
  <2>6. QED
    BY <2>3, <2>4, <2>5 DEF EditorInv
<1>19. CASE Over \/ UNCHANGED editorVars
  <2>1. /\ UNCHANGED <<docVars, apart>> /\ UNCHANGED presetVars
        /\ UNCHANGED <<drag, held, ops, foreign>>
    BY <1>19 DEF Over, editorVars, mouseVars
  <2>2. QED
    BY <1>0, <1>3, <1>4, <2>1 DEF MouseOK, EditorInv
<1>20. QED
  BY <1>6, <1>7, <1>8, <1>9, <1>10, <1>11, <1>12, <1>13, <1>14, <1>15, <1>16, <1>17, <1>18, <1>19
     DEF EditorNext

\* How a step leaves the claim that what is clean is on disk: it calls the
\* layout changed, leaves it and the file alone, makes the two equal, knows that
\* the file was written by others, or leaves a layout that cannot be saved.
StaysClean ==
  \/ layout_dirty' = TRUE \/ layout' = disk' \/ apart' = TRUE
  \/ UNCHANGED <<layout, layout_dirty, disk, apart>> \/ ~validate_layout(layout')

LEMMA CleanStep ==
  ASSUME CleanIsOnDisk, StaysClean
  PROVE  CleanIsOnDisk'
<1>1. CASE UNCHANGED <<layout, layout_dirty, disk, apart>>
  BY <1>1 DEF CleanIsOnDisk
<1>2. CASE layout_dirty' = TRUE \/ layout' = disk' \/ apart' = TRUE \/ ~validate_layout(layout')
  BY <1>2 DEF CleanIsOnDisk
<1>3. QED
  BY <1>1, <1>2 DEF StaysClean

LEMMA ExecuteStaysClean ==
  ASSUME NEW c, execute(c)
  PROVE  StaysClean
<1>1. CASE save_layout_to_disk
  BY <1>1 DEF save_layout_to_disk, StaysClean
<1>2. CASE revert_layout_from_disk
  BY <1>2 DEF revert_layout_from_disk, docVars, StaysClean
<1>3. CASE AddScreen
  BY <1>3 DEF AddScreen, Edited, Keep, StaysClean
<1>4. CASE RemoveScreen
  BY <1>4 DEF RemoveScreen, Edited, Keep, StaysClean
<1>5. CASE SavePreset
  BY <1>5 DEF SavePreset, docVars, StaysClean
<1>6. CASE DeletePreset
  BY <1>6 DEF DeletePreset, docVars, StaysClean
<1>7. CASE \E i \in DOMAIN Factory : LoadFactory(i)
  BY <1>7 DEF LoadFactory, Load, Edited, StaysClean
<1>8. CASE \E i \in 1 .. Cardinality(Names) : LoadPreset(i)
  BY <1>8 DEF LoadPreset, Load, Edited, Keep, StaysClean
<1>9. CASE \E i \in 1 .. MaxScreens : SelectScreen(i)
  BY <1>9 DEF SelectScreen, StaysClean
<1>10. QED
  BY <1>1, <1>2, <1>3, <1>4, <1>5, <1>6, <1>7, <1>8, <1>9 DEF execute

LEMMA NextStaysClean ==
  ASSUME [EditorNext]_editorVars
  PROVE  StaysClean
<1>1. CASE Paint \/ Drop \/ LoseCapture \/ Tab \/ Over \/ UNCHANGED editorVars
  <2>1. UNCHANGED <<docVars, apart>>
    BY <1>1 DEF Paint, Drop, LoseCapture, Tab, Over, editorVars
  <2>2. QED
    BY <2>1 DEF docVars, StaysClean
<1>2. CASE ClickControl
  <2>1. CASE UNCHANGED <<docVars, presetVars, apart>>
    BY <2>1 DEF docVars, StaysClean
  <2>2. CASE \E c \in Hotspots(shown) : execute(c)
    BY <2>2, ExecuteStaysClean
  <2>3. QED
    BY <1>2, <2>1, <2>2 DEF ClickControl
<1>3. CASE Grab
  BY <1>3 DEF Grab, Keep, Edited, StaysClean
<1>4. CASE Move
  BY <1>4 DEF Move, Edited, StaysClean
<1>5. ASSUME NEW i, NEW f, Nudge(i, f) PROVE StaysClean
  BY <1>5 DEF Nudge, StaysClean
<1>6. CASE AdjustFocused
  BY <1>5, <1>6 DEF AdjustFocused
<1>7. CASE Wheel
  BY <1>5, <1>7 DEF Wheel
<1>8. CASE ActivateFocused
  BY <1>8, ExecuteStaysClean DEF ActivateFocused
<1>9. CASE CtrlS
  BY <1>9 DEF CtrlS, save_layout_to_disk, StaysClean
<1>10. CASE Foreign \/ Repoint
  BY <1>10 DEF Foreign, Repoint, StaysClean
<1>11. QED
  BY <1>1, <1>2, <1>3, <1>4, <1>6, <1>7, <1>8, <1>9, <1>10 DEF EditorNext

\* The invariant of the editor, for every set of layouts, names and bounds.
LEMMA EditorInvariant == EditorSpec => []EditorInv
<1>1. EditorInit => EditorInv
  BY EditorInitInv
<1>2. EditorInv /\ [EditorNext]_editorVars => EditorInv'
  BY EditorNextInv
<1>3. QED
  BY <1>1, <1>2, PTL DEF EditorSpec

\* The editor's state keeps its type: the layout that is edited stays a layout
\* of at most MaxScreens screens, a drag names a screen and a field there can
\* be, and the star of the presets names a preset (AppState).
THEOREM EditorTypeCorrect == EditorSpec => []EditorTypeOK
<1>1. EditorInv => EditorTypeOK
  <2>1. ValidLayout \subseteq Layout
    BY DEF ValidLayout
  <2>2. QED
    BY <2>1 DEF EditorInv, DocOK, PresetsOK, MouseOK, Sound, EditorTypeOK
<1>2. QED
  BY <1>1, EditorInvariant, PTL

\* Neither the layout the engine reloads nor a preset is ever written with a
\* layout that load_layout would refuse, though keys and sliders can leave the
\* edited layout one (save_layout, validate_layout).
THEOREM WrittenLayoutsAreValid == EditorSpec => []OnlyValidIsWritten
<1>1. EditorInv => OnlyValidIsWritten
  BY ValidIsSound DEF EditorInv, DocOK, PresetsOK, OnlyValidIsWritten
<1>2. QED
  BY <1>1, EditorInvariant, PTL

\* Whatever is added, removed, loaded or slid, ids and displays stay unique and
\* the capture rates ordered; the capture angles leave their order only with
\* one of them at the end of its slider (add_screen, set_layout_field).
THEOREM TheEndsAloneAreRefused == EditorSpec => []OnlyTheEndsAreRefused
<1>1. EditorInv => OnlyTheEndsAreRefused
  BY DEF EditorInv, DocOK, Sound, AngleEnds, OnlyTheEndsAreRefused
<1>2. QED
  BY <1>1, EditorInvariant, PTL

\* A layout that is not called changed and could be saved is the one of the
\* file, unless somebody else wrote the file or app.json names another
\* (layout_dirty, Save and Revert).
THEOREM CleanLayoutIsOnDisk == EditorSpec => []CleanIsOnDisk
<1>1. EditorInit => CleanIsOnDisk
  BY DEF EditorInit, CleanIsOnDisk
<1>2. CleanIsOnDisk /\ [EditorNext]_editorVars => CleanIsOnDisk'
  BY NextStaysClean, CleanStep
<1>3. QED
  BY <1>1, <1>2, PTL DEF EditorSpec
=============================================================================

------------------------------- MODULE Engine -------------------------------
(***************************************************************************)
(* The main loop (main.cpp), the command slot of the window model and the  *)
(* windows that write it (HUDWindow.cpp, WindowControllerBase.cpp).  Two   *)
(* threads share the window model without a lock:                          *)
(*                                                                         *)
(*   M   the main loop: draws the window, executes the command that is in  *)
(*       the slot, and closes device and connection at the end;            *)
(*   K   the keyboard thread, which runs the handlers of buttons and       *)
(*       checkboxes.                                                       *)
(*                                                                         *)
(* A third, R, is the receiver thread of the connection, of which only the *)
(* step that meets a closed device is shown.                               *)
(*                                                                         *)
(* The connection is what M sees of it: whether its socket is open,        *)
(* whether its receiver thread runs and whether it hosts; closing it       *)
(* returns (XLinkKaiConnection looks inside).  M's writes at the end of a  *)
(* command are one step: a press between two of them is lost, like one     *)
(* before both, or is made after both.                                     *)
(***************************************************************************)
EXTENDS Naturals

CONSTANTS
    Methods,       \* the values of mConnectionMethod with a device of their own
    Promiscuous    \* those whose device drops its wrapper when it is closed

ASSUME MethodAssumption == Promiscuous \subseteq Methods /\ "none" \notin Methods

VARIABLES
    mCommand, mCommandAfterWait, mEngineStatus, mConnectionMethod,
    mHosting,         \* what the user has ticked
    mStopProgram, gRunning,
    window,           \* what is on the screen, and where the user wants to go
    mOldHosting,      \* the HUD's copy of mHosting
    pcK,              \* a press K has looked the status up for, not yet written
    pcM, lDevice, lOldMethod, lWaitEntry, lTimer,
    device,           \* what became of the device the connection knows
    captures,         \* the device's receiver thread exists
    socketOpen,       \* the connection has been opened
    receives,         \* the connection's receiver thread exists
    connectionHosts   \* mHosting of the connection

slot       == <<mCommand, mCommandAfterWait, mEngineStatus>>
user       == <<mHosting, mConnectionMethod, window, mOldHosting, pcK>>
ending     == <<mStopProgram, gRunning>>
wait       == <<lWaitEntry, lTimer>>
handset    == <<lDevice, device, captures>>
connection == <<socketOpen, receives, connectionHosts>>
vars == <<slot, user, ending, wait, handset, connection, pcM, lOldMethod>>

Windows  == {"HUD", "leaving", "other", "returning", "none"}
Commands == {"StartEngine", "StopEngine", "WaitForTime", "ReConnect", "SetHosting", "NoCommand"}
MSteps   == {"process", "switch", "open", "device", "threads", "stopDevice",
             "exit", "exitConnection", "ended", "crashed"}
Presses  == {"none", "StartEngine", "StopEngine"}

FlagsOK ==
    /\ mHosting \in BOOLEAN /\ mOldHosting \in BOOLEAN /\ connectionHosts \in BOOLEAN
    /\ mStopProgram \in BOOLEAN /\ gRunning \in BOOLEAN /\ lWaitEntry \in BOOLEAN
    /\ captures \in BOOLEAN /\ socketOpen \in BOOLEAN /\ receives \in BOOLEAN

ValuesOK ==
    /\ mCommand \in Commands /\ mCommandAfterWait \in {"StopEngine", "NoCommand"}
    /\ mEngineStatus \in {"Idle", "Running", "Error"}
    /\ mConnectionMethod \in Methods /\ lOldMethod \in Methods
    /\ lDevice \in Methods \cup {"none"}
    /\ window \in Windows /\ pcK \in Presses /\ pcM \in MSteps
    /\ lTimer \in {"off", "running", "due"} /\ device \in {"none", "new", "open", "closed"}

\* The variables keep their types.
TypeOK == FlagsOK /\ ValuesOK

\* The HUD, the wizard, or no window at all: then the engine is started at once.
Init ==
    /\ window \in {"HUD", "other", "none"}
    /\ mCommand = IF window = "none" THEN "StartEngine" ELSE "NoCommand"
    /\ mCommandAfterWait = "NoCommand" /\ mEngineStatus = "Idle"
    /\ mConnectionMethod \in Methods /\ lOldMethod = mConnectionMethod
    /\ mHosting = FALSE /\ mOldHosting = FALSE /\ connectionHosts = FALSE
    /\ mStopProgram = FALSE /\ gRunning = TRUE
    /\ pcK = "none" /\ pcM = "process"
    /\ lDevice = "none" /\ device = "none" /\ captures = FALSE
    /\ lWaitEntry = TRUE /\ lTimer = "off"
    /\ socketOpen = FALSE /\ receives = FALSE

-----------------------------------------------------------------------------
(* M, the main loop.                                                       *)

MGoto(from, to) == pcM = from /\ pcM' = to

\* The HUD on the screen notices that the checkbox has changed.
Draw ==
    IF window \in {"HUD", "leaving"} /\ mOldHosting # mHosting
    THEN mOldHosting' = mHosting /\ mCommand' = "SetHosting"
    ELSE /\ mOldHosting' = (mOldHosting /\ window # "returning")
         /\ UNCHANGED mCommand

\* The windows are drawn and then replaced as the user wanted; a new HUD has not
\* seen any hosting.  A signal, or Process saying that the program stops, ends
\* the loop.
MProcess ==
    /\ pcM = "process"
    /\ IF gRunning /\ ~mStopProgram
       THEN /\ pcM' = "switch"
            /\ Draw
            /\ window' = CASE window = "leaving" -> "other" [] window = "returning" -> "HUD"
                           [] OTHER -> window
            /\ UNCHANGED gRunning
       ELSE /\ pcM' = "exit"
            /\ gRunning' = FALSE
            /\ UNCHANGED <<mOldHosting, mCommand, window>>
    /\ UNCHANGED <<mCommandAfterWait, mEngineStatus, mHosting, mConnectionMethod,
                   pcK, mStopProgram, wait, handset, connection, lOldMethod>>

\* The wizard takes any end of Process for its own, a quit as well: the HUD is shown
\* and the loop goes round once more.
MWizardQuit ==
    /\ MGoto("process", "switch") /\ gRunning /\ mStopProgram
    /\ window \in {"other", "returning"} /\ window' = "HUD"
    /\ mOldHosting' = FALSE
    /\ UNCHANGED <<slot, mHosting, mConnectionMethod, pcK, ending, wait, handset, connection,
                   lOldMethod>>

\* The device for the selected method, and a new connection when the method has
\* changed since the last start.  A device and a connection that are replaced
\* know each other, so neither is destroyed: they are out of M's sight.
MStartEngine ==
    /\ MGoto("switch", "open") /\ mCommand = "StartEngine"
    /\ LET known == lDevice = mConnectionMethod
           kept == lOldMethod = mConnectionMethod
       IN /\ device' = IF known THEN device ELSE "new"
          /\ captures' = (captures /\ known)
          /\ socketOpen' = (socketOpen /\ kept)
          /\ receives' = (receives /\ kept)
          /\ connectionHosts' = (connectionHosts /\ kept)
    /\ lDevice' = mConnectionMethod
    /\ lOldMethod' = mConnectionMethod
    /\ UNCHANGED <<slot, user, ending, wait>>

\* Leaving the switch with an error, and a stop after a while.
Fail ==
    /\ mEngineStatus' = "Error"
    /\ mCommand' = "WaitForTime" /\ mCommandAfterWait' = "StopEngine"
    /\ pcM' = "process"

\* lXLinkKaiConnection->Open: an open connection stays open, unless its thread is
\* reopening it.
MOpenConnection ==
    /\ pcM = "open"
    /\ \/ socketOpen' = TRUE /\ pcM' = "device" /\ UNCHANGED slot
       \/ /\ ~socketOpen \/ receives
          /\ mCommand' = "WaitForTime" /\ mCommandAfterWait' = "NoCommand"
          /\ pcM' = "process"
          /\ UNCHANGED <<mEngineStatus, socketOpen>>
    /\ UNCHANGED <<user, ending, wait, handset, receives, connectionHosts, lOldMethod>>

\* lDevice->Open: without an adapter to capture on there is no wrapper to start.
MOpenDevice ==
    /\ pcM = "device"
    /\ \/ device' = "open" /\ pcM' = "threads" /\ UNCHANGED slot
       \/ device' = "new" /\ Fail
    /\ UNCHANGED <<user, ending, wait, lDevice, captures, connection, lOldMethod>>

\* Mutant of MStartThreads: whether the connection's thread starts is not looked at.
MStartThreadsAnyway ==
    /\ pcM = "threads" /\ pcM' = "process"
    /\ captures' = TRUE
    /\ receives' \in {receives, TRUE}
    /\ mEngineStatus' = "Running" /\ mCommand' = "NoCommand" /\ UNCHANGED mCommandAfterWait
    /\ UNCHANGED <<user, ending, wait, lDevice, device, socketOpen, connectionHosts,
                   lOldMethod>>

\* Both receiver threads.  A connection whose receiver thread runs already may
\* just be reopening its socket, and then refuses.
MStartThreads ==
    /\ pcM = "threads"
    /\ captures' = TRUE
    /\ \/ /\ receives' = TRUE /\ pcM' = "process"
          /\ mEngineStatus' = "Running" /\ mCommand' = "NoCommand"
          /\ UNCHANGED mCommandAfterWait
       \/ receives /\ UNCHANGED receives /\ Fail
    /\ UNCHANGED <<user, ending, wait, lDevice, device, socketOpen, connectionHosts,
                   lOldMethod>>

\* Mutant of MWait: the wait is entered again without waiting for its end.
MWaitRestarted ==
    /\ MGoto("switch", "process") /\ mCommand = "WaitForTime"
    /\ lTimer' = "running"
    /\ UNCHANGED <<slot, lWaitEntry, user, ending, handset, connection, lOldMethod>>

\* Mutant of MWait: what comes after the wait is taken from the wrong field.
MWaitSwapped ==
    /\ MGoto("switch", "process") /\ mCommand = "WaitForTime"
    /\ IF lWaitEntry
       THEN lWaitEntry' = FALSE /\ lTimer' = "running" /\ UNCHANGED slot
       ELSE /\ lTimer = "due"
            /\ lWaitEntry' = TRUE /\ lTimer' = "off"
            /\ mCommand' = mEngineStatus
            /\ UNCHANGED <<mCommandAfterWait, mEngineStatus>>
    /\ UNCHANGED <<user, ending, handset, connection, lOldMethod>>

\* The timer is started on entry, unless an interrupted wait has left it running.
MWait ==
    /\ MGoto("switch", "process") /\ mCommand = "WaitForTime"
    /\ IF lWaitEntry
       THEN lWaitEntry' = FALSE /\ lTimer' = "running" /\ UNCHANGED slot
       ELSE /\ lTimer = "due"
            /\ lWaitEntry' = TRUE /\ lTimer' = "off"
            /\ mCommand' = mCommandAfterWait
            /\ UNCHANGED <<mCommandAfterWait, mEngineStatus>>
    /\ UNCHANGED <<user, ending, handset, connection, lOldMethod>>

\* The wait goes on.
MWaiting ==
    /\ MGoto("switch", "process") /\ mCommand = "WaitForTime"
    /\ ~lWaitEntry /\ lTimer # "due"
    /\ UNCHANGED <<slot, wait, user, ending, handset, connection, lOldMethod>>

CloseConnection ==
    /\ socketOpen' = FALSE /\ receives' = FALSE
    /\ UNCHANGED connectionHosts

\* Mutant of MStopEngine: the device is closed first.
MStopDeviceFirst ==
    /\ MGoto("switch", "stopDevice") /\ mCommand = "StopEngine"
    /\ device' = IF lDevice = "none" THEN device ELSE "closed"
    /\ captures' = FALSE
    /\ UNCHANGED <<slot, user, ending, wait, lDevice, connection, lOldMethod>>

\* Command::StopEngine, first half.
MStopEngine ==
    /\ MGoto("switch", "stopDevice") /\ mCommand = "StopEngine"
    /\ CloseConnection
    /\ UNCHANGED <<slot, user, ending, wait, handset, lOldMethod>>

\* Mutant of MStopDevice: the device's thread is not joined.
MStopDeviceUnjoined ==
    /\ pcM = "stopDevice"
    /\ IF lDevice = "none"
       THEN pcM' = "crashed" /\ UNCHANGED <<slot, handset>>
       ELSE /\ pcM' = "process"
            /\ device' = "closed" /\ UNCHANGED captures /\ lDevice' = "none"
            /\ mEngineStatus' = "Idle" /\ mCommand' = "NoCommand"
            /\ UNCHANGED mCommandAfterWait
    /\ UNCHANGED <<user, ending, wait, connection, lOldMethod>>

\* Second half; a stop that comes twice finds no device.
MStopDevice ==
    /\ pcM = "stopDevice"
    /\ IF lDevice = "none"
       THEN pcM' = "crashed" /\ UNCHANGED <<slot, handset>>
       ELSE /\ pcM' = "process"
            /\ device' = "closed" /\ captures' = FALSE /\ lDevice' = "none"
            /\ mEngineStatus' = "Idle" /\ mCommand' = "NoCommand"
            /\ UNCHANGED mCommandAfterWait
    /\ UNCHANGED <<user, ending, wait, connection, lOldMethod>>

\* Command::ReConnect; the device joins a network, if there is one.
MReConnect ==
    /\ MGoto("switch", "process") /\ mCommand = "ReConnect"
    /\ mCommand' = "NoCommand"
    /\ UNCHANGED <<mCommandAfterWait, mEngineStatus, user, ending, wait, handset,
                   connection, lOldMethod>>

\* Command::SetHosting stays in the slot.
MSetHosting ==
    /\ MGoto("switch", "process") /\ mCommand = "SetHosting"
    /\ connectionHosts' = mHosting
    /\ UNCHANGED <<slot, user, ending, wait, handset, socketOpen, receives, lOldMethod>>

MNoCommand ==
    /\ MGoto("switch", "process") /\ mCommand = "NoCommand"
    /\ UNCHANGED <<slot, user, ending, wait, handset, connection, lOldMethod>>

\* After the loop: the device is closed first, and then the connection.
MExitDevice ==
    /\ MGoto("exit", "exitConnection")
    /\ mEngineStatus' = "Idle" /\ mCommand' = "NoCommand"
    /\ IF lDevice = "none"
       THEN UNCHANGED <<device, captures>>
       ELSE device' = "closed" /\ captures' = FALSE
    /\ UNCHANGED <<mCommandAfterWait, user, ending, wait, lDevice, connection, lOldMethod>>

\* Mutant of MExitConnection: the receiver thread is joined but not told to stop.
MExitUntold ==
    /\ MGoto("exitConnection", "ended") /\ ~receives
    /\ CloseConnection
    /\ lDevice' = "none"
    /\ UNCHANGED <<slot, user, ending, wait, device, captures, lOldMethod>>

MExitConnection ==
    /\ MGoto("exitConnection", "ended")
    /\ CloseConnection
    /\ lDevice' = "none"
    /\ UNCHANGED <<slot, user, ending, wait, device, captures, lOldMethod>>

Execute ==
    \/ MStartEngine \/ MOpenConnection \/ MOpenDevice \/ MStartThreads
    \/ MWait \/ MWaiting \/ MStopEngine \/ MStopDevice
    \/ MReConnect \/ MSetHosting \/ MNoCommand
M == MProcess \/ MWizardQuit \/ Execute \/ MExitDevice \/ MExitConnection

-----------------------------------------------------------------------------
(* K, the keyboard thread, the signal handler and the clock.               *)

Alive == pcM \notin {"ended", "crashed"}
OnHUD == Alive /\ pcK = "none" /\ window \in {"HUD", "leaving"}
InputOnly == UNCHANGED <<ending, wait, handset, connection, pcM, lOldMethod>>

\* The button that starts and stops: it reads the status ...
KPress ==
    /\ OnHUD
    /\ \/ mEngineStatus = "Idle" /\ pcK' = "StartEngine"
       \/ mEngineStatus = "Running" /\ pcK' = "StopEngine"
    /\ UNCHANGED <<slot, mHosting, mConnectionMethod, window, mOldHosting>> /\ InputOnly

\* ... and then writes the command.
KCommand ==
    /\ Alive /\ pcK # "none" /\ pcK' = "none"
    /\ mCommand' = pcK
    /\ UNCHANGED <<mCommandAfterWait, mEngineStatus, mHosting, mConnectionMethod, window,
                   mOldHosting>> /\ InputOnly

KReConnect ==
    /\ OnHUD /\ mConnectionMethod \in Promiscuous
    /\ mCommand' = "ReConnect"
    /\ UNCHANGED <<mCommandAfterWait, mEngineStatus, user>> /\ InputOnly

KToggleHosting ==
    /\ OnHUD
    /\ mHosting' = ~mHosting
    /\ UNCHANGED <<slot, mConnectionMethod, window, mOldHosting, pcK>> /\ InputOnly

KLeaveHUD ==
    /\ OnHUD /\ window' = "leaving"
    /\ UNCHANGED <<slot, mConnectionMethod, mHosting, mOldHosting, pcK>> /\ InputOnly

\* The wizard selects a method; a window that is not the HUD is done.
KSelectMethod ==
    /\ Alive /\ pcK = "none" /\ window = "other"
    /\ mConnectionMethod' \in Methods
    /\ UNCHANGED <<slot, mHosting, window, mOldHosting, pcK>> /\ InputOnly

KReturnToHUD ==
    /\ Alive /\ pcK = "none" /\ window = "other" /\ window' = "returning"
    /\ UNCHANGED <<slot, mConnectionMethod, mHosting, mOldHosting, pcK>> /\ InputOnly

\* 'q', or a signal.
Quit ==
    /\ Alive
    /\ \/ window # "none" /\ mStopProgram' = TRUE /\ UNCHANGED gRunning
       \/ gRunning' = FALSE /\ UNCHANGED mStopProgram
    /\ UNCHANGED <<slot, user, wait, handset, connection, pcM, lOldMethod>>

K == KPress \/ KCommand \/ KReConnect \/ KToggleHosting \/ KLeaveHUD \/ KSelectMethod
     \/ KReturnToHUD

\* R sends a frame to a device whose wrapper Close has dropped.
RInject ==
    /\ Alive /\ receives /\ lDevice \in Promiscuous /\ device = "closed"
    /\ pcM' = "crashed"
    /\ UNCHANGED <<slot, user, ending, wait, handset, connection, lOldMethod>>

TimerExpires ==
    /\ lTimer = "running" /\ lTimer' = "due"
    /\ UNCHANGED <<slot, user, ending, lWaitEntry, handset, connection, pcM, lOldMethod>>

-----------------------------------------------------------------------------

Next == M \/ K \/ Quit \/ RInject \/ TimerExpires
Spec == Init /\ [][Next]_vars

(* The main loop runs, the clock advances and a press that has begun ends;  *)
(* nothing is assumed of the user.                                          *)
Fairness == WF_vars(M) /\ WF_vars(TimerExpires) /\ WF_vars(KCommand)
FairSpec == Spec /\ Fairness

-----------------------------------------------------------------------------

(* Properties.                                                             *)

AtRest == pcM \in {"process", "switch"}
Looping == pcM \notin {"exitConnection", "ended", "crashed"}

\* The HUD offers "Start Engine" (status Idle) only when neither receiver thread
\* of an earlier run is left: a start would otherwise meet threads it did not make.
IdleIsDown == AtRest /\ mEngineStatus = "Idle" => ~receives /\ ~captures

\* The bridge is never half up: whatever failed, was pressed twice or was cut
\* short, frames are taken from the air exactly when XLink Kai is listened to.
BothOrNeither == AtRest => (receives <=> captures)

\* As long as the loop runs, the connection's thread never finds its device closed
\* (StopEngine closes the connection first); closing a device drops its wrapper.
StopsInOrder == receives /\ device = "closed" => ~Looping

\* WaitForTime, "a delay without making the UI unresponsive", ends by itself
\* whatever commands have interrupted earlier waits.
WaitEnds == mCommand = "WaitForTime" ~> mCommand # "WaitForTime"

\* A quit by key or by signal gets through, whatever command is in the slot.
QuitEnds == mStopProgram \/ ~gRunning ~> ~Alive
=============================================================================

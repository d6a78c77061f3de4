---------------------------- MODULE EngineProofs ----------------------------
(***************************************************************************)
(* Theorems about the main loop: for every set of methods, and however the *)
(* user's presses, failures and waits interleave, the loop never leaves    *)
(* half a bridge behind and never an old one.                              *)
(***************************************************************************)
EXTENDS Engine, TLAPS

-----------------------------------------------------------------------------
(* The inductive invariant.                                                *)

\* A device is present exactly between a start and the end of a stop; without one
\* nothing runs, and it is of the method that was started last.
DeviceInv ==
    /\ lDevice \in {"none", lOldMethod}
    /\ pcM \in {"open", "device", "threads"} => lDevice # "none"
    /\ Looping /\ lDevice = "none" => ~receives /\ ~captures
    /\ Looping /\ device = "closed" => lDevice = "none"

\* Both threads are made and dropped together, except in the middle of a stop,
\* which drops the connection's first.
ThreadsInv ==
    /\ Looping /\ pcM # "stopDevice" => (receives <=> captures)
    /\ pcM = "stopDevice" => ~receives

\* The status goes back to Idle only when both are gone.
IdleInv == Looping /\ mEngineStatus = "Idle" => ~receives /\ ~captures

IInv == TypeOK /\ DeviceInv /\ ThreadsInv /\ IdleInv

LEMMA InitHolds == Init => IInv
  BY MethodAssumption DEF Init, IInv, TypeOK, FlagsOK, ValuesOK, DeviceInv, ThreadsInv, IdleInv, Looping,
     Commands, MSteps, Presses, Windows

LEMMA FlagsStep == FlagsOK /\ [Next]_vars => FlagsOK'
<1> SUFFICES ASSUME FlagsOK, [Next]_vars PROVE FlagsOK'
  OBVIOUS
<1> USE DEF FlagsOK
<1>1. CASE MProcess
  BY <1>1, Zenon DEF MProcess, Draw, wait, handset, connection
<1>2. CASE MWizardQuit
  BY <1>2, Zenon DEF MWizardQuit, MGoto, slot, ending, wait, handset, connection
<1>3. CASE MStartEngine
  BY <1>3, Zenon DEF MStartEngine, MGoto, slot, user, ending, wait
<1>4. CASE MOpenConnection
  BY <1>4, Zenon DEF MOpenConnection, slot, user, ending, wait, handset
<1>5. CASE MOpenDevice
  BY <1>5, Zenon DEF MOpenDevice, Fail, slot, user, ending, wait, connection
<1>6. CASE MStartThreads
  BY <1>6, Zenon DEF MStartThreads, Fail, user, ending, wait
<1>7. CASE MWait
  BY <1>7, Zenon DEF MWait, MGoto, slot, user, ending, handset, connection
<1>8. CASE MWaiting
  BY <1>8, Zenon DEF MWaiting, MGoto, slot, user, ending, wait, handset, connection
<1>9. CASE MReConnect
  BY <1>9, Zenon DEF MReConnect, MGoto, user, ending, wait, handset, connection
<1>10. CASE MNoCommand
  BY <1>10, Zenon DEF MNoCommand, MGoto, slot, user, ending, wait, handset, connection
<1>11. CASE MStopEngine
  BY <1>11, Zenon DEF MStopEngine, CloseConnection, MGoto, slot, user, ending, wait,
     handset
<1>12. CASE MStopDevice
  BY <1>12, Zenon DEF MStopDevice, slot, user, ending, wait, handset, connection
<1>13. CASE MSetHosting
  BY <1>13, Zenon DEF MSetHosting, MGoto, slot, user, ending, wait, handset
<1>14. CASE MExitDevice
  BY <1>14, Zenon DEF MExitDevice, MGoto, user, ending, wait, connection
<1>15. CASE MExitConnection
  BY <1>15, Zenon DEF MExitConnection, CloseConnection, MGoto, slot, user, ending,
     wait
<1>16. CASE KPress
  BY <1>16, Zenon DEF KPress, OnHUD, Alive, InputOnly, slot, ending, wait, handset,
     connection
<1>17. CASE KCommand
  BY <1>17, Zenon DEF KCommand, Alive, InputOnly, ending, wait, handset, connection
<1>18. CASE KReConnect
  BY <1>18, Zenon DEF KReConnect, OnHUD, Alive, InputOnly, user, ending, wait,
     handset, connection
<1>19. CASE KToggleHosting
  BY <1>19, Zenon DEF KToggleHosting, OnHUD, Alive, InputOnly, slot, ending, wait,
     handset, connection
<1>20. CASE KLeaveHUD
  BY <1>20, Zenon DEF KLeaveHUD, OnHUD, Alive, InputOnly, slot, ending, wait, handset,
     connection
<1>21. CASE KSelectMethod
  BY <1>21, Zenon DEF KSelectMethod, Alive, InputOnly, slot, ending, wait, handset,
     connection
<1>22. CASE KReturnToHUD
  BY <1>22, Zenon DEF KReturnToHUD, Alive, InputOnly, slot, ending, wait, handset,
     connection
<1>23. CASE Quit
  BY <1>23, Zenon DEF Quit, Alive, slot, user, wait, handset, connection
<1>24. CASE RInject
  BY <1>24, Zenon DEF RInject, Alive, slot, user, ending, wait, handset, connection
<1>25. CASE TimerExpires
  BY <1>25, Zenon DEF TimerExpires, slot, user, ending, handset, connection
<1>26. CASE UNCHANGED vars
  BY <1>26, Zenon DEF vars, slot, user, ending, wait, handset, connection
<1> QED
  BY <1>1, <1>2, <1>3, <1>4, <1>5, <1>6, <1>7, <1>8, <1>9, <1>10, <1>11, <1>12, <1>13,
     <1>14, <1>15, <1>16, <1>17, <1>18, <1>19, <1>20, <1>21, <1>22, <1>23, <1>24,
     <1>25, <1>26 DEF Next, M, Execute, K

LEMMA ValuesStep == ValuesOK /\ [Next]_vars => ValuesOK'
<1> SUFFICES ASSUME ValuesOK, [Next]_vars PROVE ValuesOK'
  OBVIOUS
<1> USE MethodAssumption DEF ValuesOK, Commands, MSteps, Presses, Windows
<1>1. CASE MProcess
  BY <1>1 DEF MProcess, Draw, wait, handset, connection
<1>2. CASE MWizardQuit
  BY <1>2 DEF MWizardQuit, MGoto, slot, ending, wait, handset, connection
<1>3. CASE MStartEngine
  BY <1>3 DEF MStartEngine, MGoto, slot, user, ending, wait
<1>4. CASE MOpenConnection
  BY <1>4 DEF MOpenConnection, slot, user, ending, wait, handset
<1>5. CASE MOpenDevice
  BY <1>5 DEF MOpenDevice, Fail, slot, user, ending, wait, connection
<1>6. CASE MStartThreads
  BY <1>6 DEF MStartThreads, Fail, user, ending, wait
<1>7. CASE MWait
  BY <1>7 DEF MWait, MGoto, slot, user, ending, handset, connection
<1>8. CASE MWaiting
  BY <1>8 DEF MWaiting, MGoto, slot, user, ending, wait, handset, connection
<1>9. CASE MReConnect
  BY <1>9 DEF MReConnect, MGoto, user, ending, wait, handset, connection
<1>10. CASE MNoCommand
  BY <1>10 DEF MNoCommand, MGoto, slot, user, ending, wait, handset, connection
<1>11. CASE MStopEngine
  BY <1>11 DEF MStopEngine, CloseConnection, MGoto, slot, user, ending, wait, handset
<1>12. CASE MStopDevice
  BY <1>12 DEF MStopDevice, slot, user, ending, wait, handset, connection
<1>13. CASE MSetHosting
  BY <1>13 DEF MSetHosting, MGoto, slot, user, ending, wait, handset
<1>14. CASE MExitDevice
  BY <1>14 DEF MExitDevice, MGoto, user, ending, wait, connection
<1>15. CASE MExitConnection
  BY <1>15 DEF MExitConnection, CloseConnection, MGoto, slot, user, ending, wait
<1>16. CASE KPress
  BY <1>16 DEF KPress, OnHUD, Alive, InputOnly, slot, ending, wait, handset,
     connection
<1>17. CASE KCommand
  BY <1>17 DEF KCommand, Alive, InputOnly, ending, wait, handset, connection
<1>18. CASE KReConnect
  BY <1>18 DEF KReConnect, OnHUD, Alive, InputOnly, user, ending, wait, handset,
     connection
<1>19. CASE KToggleHosting
  BY <1>19 DEF KToggleHosting, OnHUD, Alive, InputOnly, slot, ending, wait, handset,
     connection
<1>20. CASE KLeaveHUD
  BY <1>20 DEF KLeaveHUD, OnHUD, Alive, InputOnly, slot, ending, wait, handset,
     connection
<1>21. CASE KSelectMethod
  BY <1>21 DEF KSelectMethod, Alive, InputOnly, slot, ending, wait, handset,
     connection
<1>22. CASE KReturnToHUD
  BY <1>22 DEF KReturnToHUD, Alive, InputOnly, slot, ending, wait, handset, connection
<1>23. CASE Quit
  BY <1>23 DEF Quit, Alive, slot, user, wait, handset, connection
<1>24. CASE RInject
  BY <1>24 DEF RInject, Alive, slot, user, ending, wait, handset, connection
<1>25. CASE TimerExpires
  BY <1>25 DEF TimerExpires, slot, user, ending, handset, connection
<1>26. CASE UNCHANGED vars
  BY <1>26 DEF vars, slot, user, ending, wait, handset, connection
<1> QED
  BY <1>1, <1>2, <1>3, <1>4, <1>5, <1>6, <1>7, <1>8, <1>9, <1>10, <1>11, <1>12, <1>13,
     <1>14, <1>15, <1>16, <1>17, <1>18, <1>19, <1>20, <1>21, <1>22, <1>23, <1>24,
     <1>25, <1>26 DEF Next, M, Execute, K

LEMMA ThreadsStep == IInv /\ [Next]_vars => (DeviceInv /\ ThreadsInv /\ IdleInv)'
<1> SUFFICES ASSUME TypeOK, DeviceInv, ThreadsInv, IdleInv, [Next]_vars
             PROVE  (DeviceInv /\ ThreadsInv /\ IdleInv)'
  BY DEF IInv
<1> USE MethodAssumption DEF TypeOK, FlagsOK, ValuesOK, DeviceInv, ThreadsInv, IdleInv, Looping
<1>1. CASE MProcess
  BY <1>1 DEF MProcess, Draw, wait, handset, connection
<1>2. CASE MWizardQuit
  BY <1>2 DEF MWizardQuit, MGoto, slot, ending, wait, handset, connection
<1>3. CASE MStartEngine
  BY <1>3 DEF MStartEngine, MGoto, slot, user, ending, wait
<1>4. CASE MOpenConnection
  BY <1>4 DEF MOpenConnection, slot, user, ending, wait, handset
<1>5. CASE MOpenDevice
  BY <1>5 DEF MOpenDevice, Fail, slot, user, ending, wait, connection
<1>6. CASE MStartThreads
  BY <1>6 DEF MStartThreads, Fail, user, ending, wait
<1>7. CASE MWait
  BY <1>7 DEF MWait, MGoto, slot, user, ending, handset, connection
<1>8. CASE MWaiting
  BY <1>8 DEF MWaiting, MGoto, slot, user, ending, wait, handset, connection
<1>9. CASE MReConnect
  BY <1>9 DEF MReConnect, MGoto, user, ending, wait, handset, connection
<1>10. CASE MNoCommand
  BY <1>10 DEF MNoCommand, MGoto, slot, user, ending, wait, handset, connection
<1>11. CASE MStopEngine
  BY <1>11 DEF MStopEngine, CloseConnection, MGoto, slot, user, ending, wait, handset
<1>12. CASE MStopDevice
  BY <1>12 DEF MStopDevice, slot, user, ending, wait, handset, connection
<1>13. CASE MSetHosting
  BY <1>13 DEF MSetHosting, MGoto, slot, user, ending, wait, handset
<1>14. CASE MExitDevice
  BY <1>14 DEF MExitDevice, MGoto, user, ending, wait, connection
<1>15. CASE MExitConnection
  BY <1>15 DEF MExitConnection, CloseConnection, MGoto, slot, user, ending, wait
<1>16. CASE KPress
  BY <1>16 DEF KPress, OnHUD, Alive, InputOnly, slot, ending, wait, handset,
     connection
<1>17. CASE KCommand
  BY <1>17 DEF KCommand, Alive, InputOnly, ending, wait, handset, connection
<1>18. CASE KReConnect
  BY <1>18 DEF KReConnect, OnHUD, Alive, InputOnly, user, ending, wait, handset,
     connection
<1>19. CASE KToggleHosting
  BY <1>19 DEF KToggleHosting, OnHUD, Alive, InputOnly, slot, ending, wait, handset,
     connection
<1>20. CASE KLeaveHUD
  BY <1>20 DEF KLeaveHUD, OnHUD, Alive, InputOnly, slot, ending, wait, handset,
     connection
<1>21. CASE KSelectMethod
  BY <1>21 DEF KSelectMethod, Alive, InputOnly, slot, ending, wait, handset,
     connection
<1>22. CASE KReturnToHUD
  BY <1>22 DEF KReturnToHUD, Alive, InputOnly, slot, ending, wait, handset, connection
<1>23. CASE Quit
  BY <1>23 DEF Quit, Alive, slot, user, wait, handset, connection
<1>24. CASE RInject
  BY <1>24 DEF RInject, Alive, slot, user, ending, wait, handset, connection
<1>25. CASE TimerExpires
  BY <1>25 DEF TimerExpires, slot, user, ending, handset, connection
<1>26. CASE UNCHANGED vars
  BY <1>26 DEF vars, slot, user, ending, wait, handset, connection
<1> QED
  BY <1>1, <1>2, <1>3, <1>4, <1>5, <1>6, <1>7, <1>8, <1>9, <1>10, <1>11, <1>12, <1>13,
     <1>14, <1>15, <1>16, <1>17, <1>18, <1>19, <1>20, <1>21, <1>22, <1>23, <1>24,
     <1>25, <1>26 DEF Next, M, Execute, K

LEMMA Invariant == Spec => []IInv
  BY InitHolds, FlagsStep, ValuesStep, ThreadsStep, PTL DEF Spec, IInv, TypeOK

-----------------------------------------------------------------------------

\* The command slot, the status and the rest keep their types.
THEOREM EngineTypeCorrect == Spec => []TypeOK
<1>1. IInv => TypeOK
  BY DEF IInv
<1> QED
  BY <1>1, Invariant, PTL

\* The HUD offers a start only when no thread of an earlier run is left (main.cpp,
\* StopEngine, and the failures of StartEngine).
THEOREM IdleMeansDown == Spec => []IdleIsDown
<1>1. IInv => IdleIsDown
  BY DEF IInv, IdleInv, IdleIsDown, AtRest, Looping
<1> QED
  BY <1>1, Invariant, PTL

\* Between commands, either both receiver threads exist or neither does.
THEOREM NeverHalfUp == Spec => []BothOrNeither
<1>1. IInv => BothOrNeither
  BY DEF IInv, ThreadsInv, BothOrNeither, AtRest, Looping
<1> QED
  BY <1>1, Invariant, PTL

\* In the loop a device is closed only after the connection that uses it.
THEOREM StopsConnectionFirst == Spec => []StopsInOrder
<1>1. IInv => StopsInOrder
  BY DEF IInv, DeviceInv, StopsInOrder
<1> QED
  BY <1>1, Invariant, PTL
=============================================================================

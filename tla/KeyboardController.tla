------------------------- MODULE KeyboardController -------------------------
(***************************************************************************)
(* The keyboard thread (KeyboardController.cpp): it reads a key, recognizes *)
(* the sequences a keypad sends (ESC, then O or [, then a letter) and hands *)
(* what it made of it to the windows, until it is told to stop.            *)
(*                                                                         *)
(* A key is one of the classes in KeyClasses; "timeout" is the ERR getch   *)
(* returns when no key came for half a second.                             *)
(***************************************************************************)
EXTENDS Naturals

CONSTANT Keys    \* the classes of keys the user presses

KeyClasses == {"ESC", "bracket", "x", "r", "t", "v", "E", "up", "down", "left", "right",
               "center", "digit", "letter", "back", "q", "timeout"}

ASSUME KeysAssumption == Keys \subseteq KeyClasses

VARIABLES
    lNumCyclesSinceComboKeyPressed,  \* counted up to Patience: more makes no difference
    lComboKeyPressed, lKeyIsKeypad,
    mRunning, mDone,
    pcK                              \* where the thread is

combo    == <<lNumCyclesSinceComboKeyPressed, lComboKeyPressed, lKeyIsKeypad>>
thread   == <<mRunning, mDone, pcK>>
keyboard == <<combo, thread>>

Patience == 4

KeyboardTypeOK ==
    /\ lNumCyclesSinceComboKeyPressed \in 0 .. Patience
    /\ lComboKeyPressed \in BOOLEAN /\ lKeyIsKeypad \in BOOLEAN
    /\ mRunning \in BOOLEAN /\ mDone \in BOOLEAN
    /\ pcK \in {"none", "started", "getch", "returned"}

KeyboardInit ==
    /\ lNumCyclesSinceComboKeyPressed = 0 /\ lComboKeyPressed = FALSE /\ lKeyIsKeypad = FALSE
    /\ mRunning = FALSE /\ mDone = TRUE /\ pcK = "none"

-----------------------------------------------------------------------------
(* What a key of a keypad stands for at the end of its sequence.           *)
Keypad(key) ==
    CASE key = "x" -> "up" [] key = "r" -> "down" [] key = "t" -> "left"
      [] key = "v" -> "right" [] key = "E" -> "center" [] OTHER -> "timeout"

(* Outside of a sequence the letters of a keypad are letters.              *)
Plain(key) == IF key \in {"bracket", "x", "r", "t", "v", "E"} THEN "letter" ELSE key

\* Mutant of Cycles: the turns are not counted.
CyclesStuck == lNumCyclesSinceComboKeyPressed
Cycles == IF lNumCyclesSinceComboKeyPressed = Patience THEN Patience
                                                       ELSE lNumCyclesSinceComboKeyPressed + 1

Opens(key)   == key = "ESC" \/ (lComboKeyPressed /\ key = "bracket")
GivesUp(key) == ~Opens(key) /\ lComboKeyPressed /\ Cycles >= Patience
Closes(key)  == ~Opens(key) /\ lComboKeyPressed /\ Cycles < Patience /\ lKeyIsKeypad
Waits(key)   == ~Opens(key) /\ lComboKeyPressed /\ Cycles < Patience /\ ~lKeyIsKeypad

(* What is handed to the callback; "timeout" is ignored there.             *)
Delivered(key) ==
    CASE Opens(key) \/ Waits(key) -> "timeout"
      [] GivesUp(key)             -> "ESC"
      [] Closes(key)              -> Keypad(key)
      [] OTHER                    -> Plain(key)

ForgetCombo == lNumCyclesSinceComboKeyPressed' = 0 /\ lComboKeyPressed' = FALSE /\ lKeyIsKeypad' = FALSE

(* What the key does to the sequence.                                      *)
Follow(key) ==
    \/ /\ Opens(key)
       /\ lNumCyclesSinceComboKeyPressed' = Cycles
       /\ lComboKeyPressed' = TRUE
       /\ lKeyIsKeypad' = (lKeyIsKeypad \/ key = "bracket")
    \/ /\ Waits(key)
       /\ lNumCyclesSinceComboKeyPressed' = Cycles
       /\ UNCHANGED <<lComboKeyPressed, lKeyIsKeypad>>
    \/ /\ GivesUp(key) \/ Closes(key)
       /\ ForgetCombo
    \/ /\ ~Opens(key) /\ ~lComboKeyPressed
       /\ UNCHANGED combo

-----------------------------------------------------------------------------
(* StartThread; the thread's variables are new.                            *)
StartThread ==
    /\ mDone' = FALSE /\ mRunning' = TRUE /\ pcK' = "started" /\ ForgetCombo

(* The thread looks at mRunning for the first time.                        *)
KBegin ==
    /\ pcK = "started" /\ pcK' = (IF mRunning THEN "getch" ELSE "returned")
    /\ UNCHANGED <<combo, mRunning, mDone>>

(* A turn of the loop with what getch returned; the look at mRunning that  *)
(* follows belongs to it: nothing M does comes between them that K reads.  *)
Turn(key) ==
    /\ pcK = "getch"
    /\ IF mRunning THEN pcK' = "getch" /\ Follow(key) ELSE pcK' = "returned" /\ ForgetCombo
    /\ mDone' = TRUE
    /\ UNCHANGED mRunning

(* StopThread: the request, and the wait until the thread can be joined.   *)
\* Mutant of AskThread: the thread is not told.
AskNothing == UNCHANGED keyboard
AskThread  == mRunning' = FALSE /\ UNCHANGED <<combo, mDone, pcK>>
JoinThread == mDone /\ pcK = "returned" /\ pcK' = "none" /\ UNCHANGED <<combo, mRunning, mDone>>

(* The process is gone, and the thread with it.                            *)
ThreadDies == pcK' = "none" /\ mRunning' = FALSE /\ mDone' = TRUE /\ ForgetCombo

=============================================================================

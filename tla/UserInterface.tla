---------------------------- MODULE UserInterface ----------------------------
(***************************************************************************)
(* The text user interface: the wizard, the HUD and its windows, the       *)
(* settings they edit and the file the settings are kept in                *)
(* (MainWindowController.cpp, WizardController.cpp, HUDController.cpp,      *)
(* WindowControllerBase.cpp, WindowModel.cpp), with the keyboard thread of *)
(* KeyboardController.  Two threads share windows and settings, without a  *)
(* lock:                                                                   *)
(*                                                                         *)
(*   K   the keyboard thread: every key is handled by the window in view   *)
(*   M   the main loop: it draws the window, acts on the buttons pressed   *)
(*       since, replaces windows and writes the file, line by line         *)
(*                                                                         *)
(* The engine's commands (StartStop, ReConnect, mHosting) are the module   *)
(* Engine's.  A text is its length: what is typed is not told apart.       *)
(***************************************************************************)
EXTENDS Window, KeyboardController

CONSTANTS
    Edited,       \* the settings the user changes
    Kept,         \* those whose lines of the file are followed
    Scans,        \* the lists of adapters a scan may find
    Themes        \* the names of the theme directories, in their order

VARIABLES
    controller,             \* the sub controller of the main one
    window,                 \* its window
    mWizardStep,
    settings,               \* the settings of the window model
    mWifiAdapterList, mWifiAdapterSelection,
    mThemeSelector,
    asked,                  \* the flags of the window model that are set
    mWindowDone,            \* ... and the window that set this one, or "none"
    late,                   \* the settings changed after mStopProgram
    pcM, after,             \* where M is, and why it is saving
    exists, file            \* config.txt: what it gives the settings it has a line of

model == <<settings, mWifiAdapterList, mWifiAdapterSelection>>
view  == <<controller, window, mWizardStep, mThemeSelector>>
wishes == <<asked, mWindowDone, late>>
disk  == <<exists, file>>
ui    == <<model, view, wishes, pcM, after, disk>>
vars  == <<keyboard, ui>>

(* The settings that have a control, in the order of the file.             *)
Controlled == <<"mAcknowledgeDataFrames", "mAutoDiscoverPSPVitaNetworks", "mChannel",
                "mConnectionMethod", "mLogLevel", "mOnlyAcceptFromMac", "mReConnectionTimeOutS",
                "mTheme", "mUseSSIDFromHost", "mWifiAdapter", "mXLinkIp", "mXLinkPort">>
Settings   == {Controlled[i] : i \in DOMAIN Controlled}

ASSUME UserInterfaceAssumption ==
    /\ Edited \subseteq Settings /\ Kept \subseteq Settings
    /\ Scans \subseteq Seq(STRING) /\ Themes \in Seq(STRING)

Methods == <<"Plugin options", "Promiscuous options", "Monitor options">>
Levels  == 5
Flags   == {"mOptionsSelected", "mAboutSelected", "mThemeSelected", "mWizardSelected", "mStopProgram"}
OptionSteps == {"Plugin options", "Promiscuous options", "Monitor options"}

TypeOK ==
    /\ KeyboardTypeOK
    /\ controller \in {"wizard", "HUD"}
    /\ window.title \in Titles /\ window.selected \in 0 .. Len(Layout(window))
    /\ window.lit \subseteq DOMAIN Layout(window) /\ window.hidden \subseteq DOMAIN Layout(window)
    /\ window.group.index \in 0 .. IF window.group.size = 0 THEN 1 ELSE window.group.size
    /\ mWizardStep \in {"Set-Up Wizard", "XLink Kai options"} \cup OptionSteps
    /\ DOMAIN settings = Settings
    /\ settings["mConnectionMethod"] \in 0 .. Len(Methods) - 1
    /\ settings["mLogLevel"] \in 0 .. Levels - 1
    /\ mWifiAdapterList \in {<<>>} \cup Scans /\ mWifiAdapterSelection \in Nat
    /\ asked \subseteq Flags /\ mWindowDone \in {"none"} \cup Titles /\ late \subseteq Settings
    /\ pcM \in {"off", "turn", "fill", "open", "save", "hand", "stop", "join",
                "ended", "crashed"}
    /\ after \in {"wizard", "HUD", "stop"}
    /\ exists \in BOOLEAN /\ DOMAIN file \subseteq Kept

-----------------------------------------------------------------------------
(* The settings a program starts with, and those it finds in the file: the *)
(* end of the file is reached, so that any file is accepted, and what is   *)
(* not in it keeps its default.                                            *)
Default ==
    [s \in Settings |->
        CASE s = "mConnectionMethod"     -> 0
          [] s = "mLogLevel"             -> Levels - 1
          [] s = "mChannel"              -> 1
          [] s = "mOnlyAcceptFromMac"    -> 0
          [] s = "mReConnectionTimeOutS" -> 2
          [] s = "mTheme"                -> "Default"
          [] s = "mWifiAdapter"          -> ""
          [] s = "mXLinkIp"              -> 9
          [] s = "mXLinkPort"            -> 5
          [] OTHER                       -> FALSE]

LoadFromFile(lines) ==
    [s \in Settings |-> IF s \in DOMAIN lines THEN lines[s] ELSE Default[s]]

NoLines == [s \in {} |-> Default[s]]

-----------------------------------------------------------------------------
(* Setting up windows.                                                     *)

NoBoxes == AddRadioBoxes(0)

ShowSelector == SetUp("Set-Up Wizard", AddRadioBoxes(Len(Methods)), {})
\* Mutant of ShowOptionsStep: the first adapter is checked from the start.
ShowOptionsStepChecked(title, list) == SetUp(title, SetChecked(AddRadioBoxes(Len(list)), 1), {})
ShowOptionsStep(title, list) == SetUp(title, AddRadioBoxes(Len(list)), {})
ShowXLinkStep == SetUp("XLink Kai options", NoBoxes, {})
(* Re-Connect is for the plugin and the promiscuous method.                *)
ShowHUD == SetUp("HUD", NoBoxes, IF settings["mConnectionMethod"] \in {0, 1} THEN {} ELSE {5})
ShowOptions == SetUp("Options", SetChecked(AddRadioBoxes(Levels), settings["mLogLevel"] + 1), {})
ShowAbout == SetUp("About", NoBoxes, {})
(* GetThemes checks the box of the theme in use, if there is one.          *)
ShowTheme ==
    SetUp("Theme", [AddRadioBoxes(Len(Themes)) EXCEPT !.checked =
                       {i \in DOMAIN Themes : Themes[i] = settings["mTheme"]}], {})

(* What drawing a window changes: the options that only matter when the    *)
(* program connects by itself are shown with the box above them.           *)
Drawn(w) ==
    CASE w.title \in {"Plugin options", "Promiscuous options"} ->
            [w EXCEPT !.hidden = IF settings["mAutoDiscoverPSPVitaNetworks"] THEN {} ELSE {2, 3}]
      [] w.title \in {"Monitor options", "XLink Kai options"} -> [w EXCEPT !.hidden = @ \ {2, 3}]
      [] OTHER -> w

-----------------------------------------------------------------------------
Init ==
    /\ KeyboardInit
    /\ controller = "wizard" /\ window = ShowSelector /\ mWizardStep = "Set-Up Wizard"
    /\ settings = Default /\ mWifiAdapterList = <<>> /\ mWifiAdapterSelection = 0
    /\ mThemeSelector = 0
    /\ asked = {} /\ mWindowDone = "none" /\ late = {}
    /\ pcM = "off" /\ after = "HUD"
    /\ exists = FALSE /\ file = NoLines

-----------------------------------------------------------------------------
(* K: what a key does to the window in view.                               *)

Focus == IF window.selected = 0 THEN QuitText ELSE Object(window, window.selected)

Set(s, value) ==
    /\ s \in Edited
    /\ settings' = [settings EXCEPT ![s] = value]
    /\ late' = IF "mStopProgram" \in asked THEN late \cup {s} ELSE late

(* An arrow key moves the selection.                                       *)
Navigate(key) ==
    /\ key \in Arrows /\ window' = HandleArrow(window, key)
    /\ UNCHANGED <<model, controller, mWizardStep, mThemeSelector, wishes>>

(* A button sets a flag of the window model, or acts at once.              *)
PressButton(key) ==
    /\ key = "center" /\ Focus.kind = "Button"
    /\ asked' = IF Focus.bound \in Flags THEN asked \cup {Focus.bound} ELSE asked
    /\ mWindowDone' = IF Focus.bound \in {"mWindowDone", "saveTheme"} THEN window.title ELSE mWindowDone
    /\ IF Focus.bound = "saveTheme" /\ window.group.size > 0
       THEN Set("mTheme", Themes[mThemeSelector + 1])
       ELSE UNCHANGED <<settings, late>>
    /\ UNCHANGED <<view, mWifiAdapterList, mWifiAdapterSelection>>

(* A check box turns its setting around.                                   *)
PressCheckBox(key) ==
    /\ key = "center" /\ Focus.kind = "CheckBox"
    /\ IF Focus.bound \in Settings THEN Set(Focus.bound, ~settings[Focus.bound])
                                   ELSE UNCHANGED <<settings, late>>
    /\ UNCHANGED <<view, mWifiAdapterList, mWifiAdapterSelection, asked, mWindowDone>>

(* A radio box is checked instead of the others, and its index is stored.  *)
PressRadioBox(key) ==
    /\ key = "center" /\ Focus.kind = "RadioBoxGroup"
    /\ window' = [window EXCEPT !.group = HandleSelect(window.group)]
    /\ IF Checks(window.group)
       THEN LET value == window.group.index - 1
            IN  CASE Focus.bound \in Settings ->
                        Set(Focus.bound, value) /\ UNCHANGED <<mWifiAdapterSelection, mThemeSelector>>
                  [] Focus.bound = "mWifiAdapterSelection" ->
                        mWifiAdapterSelection' = value /\ UNCHANGED <<settings, late, mThemeSelector>>
                  [] Focus.bound = "mThemeSelector" ->
                        mThemeSelector' = value /\ UNCHANGED <<settings, late, mWifiAdapterSelection>>
       ELSE UNCHANGED <<settings, late, mWifiAdapterSelection, mThemeSelector>>
    /\ UNCHANGED <<mWifiAdapterList, controller, mWizardStep, asked, mWindowDone>>

(* A text field takes what it accepts as long as it is not full, and gives *)
(* up its last character.                                                  *)
Type(key) ==
    /\ Focus.kind = "TextField"
    /\ \/ /\ key \in Focus.accepts /\ settings[Focus.bound] < Focus.length
          /\ Set(Focus.bound, settings[Focus.bound] + 1)
       \/ /\ key = "back" /\ settings[Focus.bound] > 0
          /\ Set(Focus.bound, settings[Focus.bound] - 1)
    /\ UNCHANGED <<view, mWifiAdapterList, mWifiAdapterSelection, asked, mWindowDone>>

(* 'q' ends the program, wherever it is typed.                             *)
Quit(key) ==
    /\ key = "q" /\ asked' = asked \cup {"mStopProgram"}
    /\ UNCHANGED <<model, view, mWindowDone, late>>

Meant(key) ==
    \/ key \in Arrows \cup {"q"}
    \/ key = "center" /\ Focus.kind \in {"Button", "CheckBox", "RadioBoxGroup"}
    \/ /\ Focus.kind = "TextField"
       /\ \/ key \in Focus.accepts /\ settings[Focus.bound] < Focus.length
          \/ key = "back" /\ settings[Focus.bound] > 0

Ignore(key) == ~Meant(key) /\ UNCHANGED <<model, view, wishes>>

KeyAction(key) ==
    \/ Navigate(key) \/ PressButton(key) \/ PressCheckBox(key) \/ PressRadioBox(key)
    \/ Type(key) \/ Quit(key) \/ Ignore(key)

KKey(key) ==
    /\ Turn(key) /\ KeyAction(Delivered(key))
    /\ UNCHANGED <<pcM, after, disk>>

KStart == KBegin /\ UNCHANGED ui

-----------------------------------------------------------------------------
(* M: the main loop.                                                       *)

(* What a program has forgotten when it starts.                            *)
Fresh ==
    /\ mWizardStep' = "Set-Up Wizard"
    /\ mWifiAdapterList' = <<>> /\ mWifiAdapterSelection' = 0 /\ mThemeSelector' = 0
    /\ asked' = {} /\ mWindowDone' = "none" /\ late' = {} /\ after' = "HUD"

(* The program starts: with a file it goes to the HUD, without one to the  *)
(* wizard.                                                                 *)
MLaunch ==
    /\ pcM \in {"off", "ended", "crashed"}
    /\ pcM' = "turn"
    /\ settings' = (IF exists THEN LoadFromFile(file) ELSE Default)
    /\ controller' = (IF exists THEN "HUD" ELSE "wizard")
    /\ window' = (IF exists THEN ShowHUD' ELSE ShowSelector)
    /\ Fresh /\ StartThread
    /\ UNCHANGED disk

(* A turn of the loop.  Process begins with the flag of the stop: a        *)
(* program that is to end saves first.                                     *)
\* Mutant of MEndsTurn: the file is not written.
MEndsTurnUnsaved ==
    /\ pcM = "turn" /\ "mStopProgram" \in asked
    /\ pcM' = "stop" /\ after' = "stop"
    /\ UNCHANGED <<keyboard, model, view, wishes, disk>>

MEndsTurn ==
    /\ pcM = "turn" /\ "mStopProgram" \in asked
    /\ pcM' = "open" /\ after' = "stop"
    /\ UNCHANGED <<keyboard, model, view, wishes, disk>>

(* Otherwise it draws the window, and the controller in charge looks at    *)
(* the flags.  (A key between the two is one before or after both: where   *)
(* the flags have an effect, what was drawn is replaced.)                  *)
Turns(c) == pcM = "turn" /\ "mStopProgram" \notin asked /\ controller = c

MDraws ==
    /\ pcM = "turn" /\ "mStopProgram" \notin asked /\ mWindowDone = "none"
    /\ asked = {} \/ controller = "wizard"
    /\ window' = Drawn(window)
    /\ UNCHANGED <<keyboard, model, controller, mWizardStep, mThemeSelector, wishes, pcM, after, disk>>

(* A signal ends the loop without the window model.                        *)
MInterrupt ==
    /\ pcM = "turn" /\ pcM' = "stop"
    /\ UNCHANGED <<keyboard, model, view, wishes, after, disk>>

(* After the selector the adapters are looked up for the next step.        *)
WizardLeavesSelector ==
    /\ Turns("wizard") /\ mWindowDone # "none" /\ mWizardStep = "Set-Up Wizard"
    /\ mWindowDone' = "none"
    /\ mWizardStep' = Methods[settings["mConnectionMethod"] + 1]
    /\ pcM' = "fill"
    /\ UNCHANGED <<keyboard, model, controller, window, mThemeSelector, asked, late, after, disk>>

(* FillWifiAdapters keeps the list when it finds no devices at all; then   *)
(* the window of the step replaces that of the selector.                   *)
WizardFillsAdapters ==
    /\ pcM = "fill" /\ pcM' = "turn"
    /\ \E list \in Scans \cup {mWifiAdapterList} :
        /\ mWifiAdapterList' = list
        /\ window' = ShowOptionsStep(mWizardStep, list)
    /\ UNCHANGED <<keyboard, settings, mWifiAdapterSelection, controller, mWizardStep, mThemeSelector,
                   wishes, after, disk>>

(* After the options the adapter is taken from the list; an index the list *)
(* does not have is an exception nobody catches.                           *)
WizardTakesAdapter ==
    /\ Turns("wizard") /\ mWindowDone # "none" /\ mWizardStep \in OptionSteps
    /\ mWindowDone' = "none"
    /\ IF mWifiAdapterSelection + 1 \in DOMAIN mWifiAdapterList
       THEN /\ settings' = [settings EXCEPT !["mWifiAdapter"] = mWifiAdapterList[mWifiAdapterSelection + 1]]
            /\ mWizardStep' = "XLink Kai options" /\ window' = ShowXLinkStep
            /\ UNCHANGED <<keyboard, pcM>>
       ELSE /\ pcM' = "crashed" /\ ThreadDies
            /\ UNCHANGED <<settings, mWizardStep, window>>
    /\ UNCHANGED <<mWifiAdapterList, mWifiAdapterSelection, controller, mThemeSelector, asked, late,
                   after, disk>>

WizardIsDone ==
    /\ Turns("wizard") /\ mWindowDone # "none" /\ mWizardStep = "XLink Kai options"
    /\ mWindowDone' = "none" /\ pcM' = "open" /\ after' = "wizard"
    /\ UNCHANGED <<keyboard, model, view, asked, late, disk>>

(* The HUD opens the windows asked for, one after the other; the one that  *)
(* is done makes place for the HUD again, after a save.                    *)
HUDDecides ==
    /\ Turns("HUD") /\ (asked # {} \/ mWindowDone # "none")
    /\ window' = IF "mThemeSelected" \in asked THEN ShowTheme
                 ELSE IF "mAboutSelected" \in asked THEN ShowAbout
                 ELSE IF "mOptionsSelected" \in asked THEN ShowOptions ELSE window
    /\ mThemeSelector' = IF "mThemeSelected" \in asked THEN 0 ELSE mThemeSelector
    /\ asked' = asked \cap {"mWizardSelected", "mStopProgram"} /\ mWindowDone' = "none"
    /\ after' = "HUD" /\ pcM' = IF mWindowDone = "none" THEN "hand" ELSE "open"
    /\ UNCHANGED <<keyboard, model, controller, mWizardStep, late, disk>>

(* SaveToFile: the file is emptied, then written and flushed line by line, *)
(* in the order of Controlled.                                             *)
Unwritten == Kept \ DOMAIN file

MOpenFile ==
    /\ pcM = "open" /\ pcM' = "save" /\ exists' = TRUE /\ file' = NoLines
    /\ UNCHANGED <<keyboard, model, view, wishes, after>>

MSaveLine ==
    /\ pcM = "save"
    /\ \E i \in DOMAIN Controlled :
        /\ Unwritten \cap {Controlled[j] : j \in 1 .. i} = {Controlled[i]}
        /\ file' = [s \in DOMAIN file \cup {Controlled[i]} |->
                      IF s = Controlled[i] THEN settings[s] ELSE file[s]]
    /\ UNCHANGED <<keyboard, model, view, wishes, pcM, after, exists>>

(* What follows a save.  A wizard that is told to stop saves once more and *)
(* makes place for the HUD; the HUD stops.                                 *)
MSaved ==
    /\ pcM = "save" /\ Unwritten = {}
    /\ IF after = "stop"
       THEN IF controller = "wizard" THEN pcM' = "open" /\ after' = "wizard" /\ UNCHANGED view
                                     ELSE pcM' = "hand" /\ UNCHANGED <<after, view>>
       ELSE /\ pcM' = "hand" /\ UNCHANGED after
            /\ controller' = "HUD" /\ window' = ShowHUD
            /\ mWizardStep' = "Set-Up Wizard" /\ mThemeSelector' = 0
    /\ UNCHANGED <<keyboard, model, wishes, disk>>

(* MainWindowController::Process: the wizard is set up when it was asked   *)
(* for; otherwise a Process that returned false ends the loop.             *)
MHandOver ==
    /\ pcM = "hand"
    /\ IF "mWizardSelected" \in asked
       THEN /\ asked' = asked \ {"mWizardSelected"} /\ controller' = "wizard" /\ window' = ShowSelector
            /\ pcM' = "turn" /\ after' = "HUD" /\ mThemeSelector' = 0
       ELSE IF after = "stop" THEN pcM' = "stop" /\ UNCHANGED <<asked, controller, window, mThemeSelector, after>>
                              ELSE pcM' = "turn" /\ after' = "HUD" /\ UNCHANGED <<asked, controller, window, mThemeSelector>>
    /\ UNCHANGED <<keyboard, model, mWizardStep, mWindowDone, late, disk>>

(* The end of main: the keyboard thread is stopped and joined.             *)
MStopThread ==
    /\ pcM = "stop" /\ pcM' = "join" /\ AskThread
    /\ UNCHANGED <<model, view, wishes, after, disk>>

MJoinThread ==
    /\ pcM = "join" /\ JoinThread /\ pcM' = "ended"
    /\ UNCHANGED <<model, view, wishes, after, disk>>

(* The process is killed: only the file is left.                           *)
Kill ==
    /\ pcM \notin {"off", "ended", "crashed"}
    /\ pcM' = "off" /\ ThreadDies /\ Fresh
    /\ settings' = Default /\ controller' = "wizard" /\ window' = ShowSelector
    /\ UNCHANGED disk

-----------------------------------------------------------------------------
K == KStart \/ (\E key \in Keys : KKey(key))
M ==
    \/ MDraws \/ MEndsTurn \/ WizardLeavesSelector \/ WizardFillsAdapters \/ WizardTakesAdapter
    \/ WizardIsDone \/ HUDDecides \/ MOpenFile \/ MSaveLine \/ MSaved \/ MHandOver
    \/ MStopThread \/ MJoinThread
Next == K \/ M \/ MLaunch \/ MInterrupt \/ Kill

Spec == Init /\ [][Next]_vars
Fairness ==
    /\ WF_vars(KStart) /\ WF_vars(M)
    /\ SF_vars(\E key \in Keys \ {"ESC", "bracket"} : KKey(key))
FairSpec == Spec /\ Fairness

-----------------------------------------------------------------------------
(* Properties.                                                             *)

(* The window always shows where the next key goes: the object that is     *)
(* selected is the only one lit (a text cannot be), and of a group the box *)
(* mSelectionIndex stands for is lit exactly while the group is selected.  *)
OneIsLit ==
    /\ window.lit = {window.selected} \ ({0} \cup {i \in DOMAIN Layout(window) : Object(window, i).kind = "String"})
    /\ window.group.lit = IF InGroup(window) /\ window.group.size > 0 THEN {window.group.index} ELSE {}

(* Wherever the keys have led, the down key goes to the next box of a      *)
(* group as long as there is one, and otherwise to a lower row as long as  *)
(* there is one, and the up key likewise: mHasUpAction and mHasDownAction, *)
(* which are kept apart from the index, never keep the user in a group or  *)
(* out of one of its boxes (RadioBoxGroup.cpp:64-101, Window.cpp:182-264). *)
Row(w) == Object(w, w.selected).y
Stands(w, box) == w.selected = window.selected /\ w.group.index = box

ArrowsMakeProgress ==
    window.selected # 0 =>
        LET lower  == HandleArrow(window, "down")
            higher == HandleArrow(window, "up")
            box    == window.group.index
        IN  /\ CASE InGroup(window) /\ box < window.group.size -> Stands(lower, box + 1)
                 [] OTHER -> Row(lower) > Row(window) \/ (lower = window /\ Below(window) = {})
            /\ CASE InGroup(window) /\ box > 1 -> Stands(higher, box - 1)
                 [] OTHER -> Row(higher) < Row(window) \/ (higher = window /\ Above(window) = {})

(* The adapter that is taken for the connection is the one whose box is    *)
(* checked in the window, although window, list and selection are filled   *)
(* at different times.                                                     *)
CheckedIsTaken ==
    [][WizardTakesAdapter /\ pcM' # "crashed" /\ window.title \in OptionSteps =>
        \A box \in window.group.checked : settings'["mWifiAdapter"] = mWifiAdapterList[box]]_vars

(* What was set before the user asked the program to end is in the file    *)
(* when it has ended by itself, and a start finds it there.                *)
QuitKeeps ==
    pcM = "ended" /\ after = "stop" =>
        \A s \in Kept \ late : LoadFromFile(file)[s] = settings[s]

(* The sequence of a keypad is always decided: after some more keys, or    *)
(* half seconds without one, ESC or what the keypad meant is delivered.    *)
ComboIsDecided == lComboKeyPressed ~> ~lComboKeyPressed \/ pcM \in {"off", "crashed", "ended"}

(* Who asks the program to end ends it, and with it the keyboard thread,   *)
(* unless it is killed or fails before.                                    *)
StopEnds == "mStopProgram" \in asked ~> pcM \in {"ended", "off", "crashed"}

=============================================================================

------------------------------- MODULE Window -------------------------------
(***************************************************************************)
(* A window of the text user interface and the objects on it (Window.cpp,  *)
(* UIObject.cpp, RadioBoxGroup.cpp and the windows' SetUp functions): what *)
(* is on each window, where, and what the keys do to the selection.        *)
(*                                                                         *)
(* What never changes of a window is its Layout; what the keys change is a *)
(* record:                                                                 *)
(*   title      which window it is                                         *)
(*   selected   mSelectedObject, 0 standing for the code's -1              *)
(*   lit        the objects whose mSelected is set                         *)
(*   hidden     the objects whose mVisible is not set                      *)
(*   group      the radio boxes (no window has two groups)                 *)
(* and a group is                                                          *)
(*   size       how many boxes it has                                      *)
(*   index      mSelectionIndex + 1, 0 before it was selected              *)
(*   lit        the boxes whose mSelected is set                           *)
(*   checked    the boxes whose mChecked is set                            *)
(*   up, down   mHasUpAction and mHasDownAction                            *)
(*                                                                         *)
(* Coordinates are those of a terminal of 24 lines and 80 columns, the     *)
(* least MainWindowController accepts; a larger one keeps their order.     *)
(***************************************************************************)
EXTENDS Integers, Sequences, FiniteSets

Height == 24
Width  == 80

Titles == {"Set-Up Wizard", "Plugin options", "Promiscuous options", "Monitor options",
           "XLink Kai options", "HUD", "Options", "About", "Theme"}

Arrows == {"up", "down", "left", "right"}

-----------------------------------------------------------------------------
(* Objects: what they are, where they are and what they are bound to.      *)

Text(y, x)          == [kind |-> "String",        y |-> y, x |-> x, bound |-> "nothing", accepts |-> {}, length |-> 0]
Press(y, x, action) == [kind |-> "Button",        y |-> y, x |-> x, bound |-> action,    accepts |-> {}, length |-> 0]
Tick(y, x, setting) == [kind |-> "CheckBox",      y |-> y, x |-> x, bound |-> setting,   accepts |-> {}, length |-> 0]
Choice(y, x, setting) ==
    [kind |-> "RadioBoxGroup", y |-> y, x |-> x, bound |-> setting, accepts |-> {}, length |-> 0]
Field(y, x, setting, accepts, length) ==
    [kind |-> "TextField", y |-> y, x |-> x, bound |-> setting, accepts |-> accepts, length |-> length]

NextButton == Press(Height - 2, Width - 10, "mWindowDone")
StepText   == Text(0, Width - 9)
QuitText   == Text(Height - 1, 1)

SelectorStep == <<Choice(2, 4, "mConnectionMethod"), NextButton, StepText, QuitText>>

(* The plugin and the promiscuous device have the same options.            *)
WirelessStep ==
    <<Tick(2, 4, "mAutoDiscoverPSPVitaNetworks"), Tick(4, 4, "mUseSSIDFromHost"),
      Field(3, 4, "mReConnectionTimeOutS", {"digit"}, 4),
      Choice(5, 4, "mWifiAdapterSelection"), NextButton, StepText, QuitText>>

MonitorStep ==
    <<Tick(2, 4, "mAutoDiscoverPSPVitaNetworks"), Tick(3, 4, "mAcknowledgeDataFrames"),
      Field(4, 4, "mOnlyAcceptFromMac", {"digit", "letter"}, 17),
      Field(5, 4, "mChannel", {"digit", "letter"}, 2),
      Choice(6, 4, "mWifiAdapterSelection"), NextButton, StepText, QuitText>>

XLinkStep ==
    <<Field(2, 2, "mXLinkIp", {"digit"}, 15), Field(3, 2, "mXLinkPort", {"digit"}, 5),
      NextButton, StepText, QuitText>>

HUD ==
    <<Text(Height \div 2, Width \div 2 - 4), Text(1, Width - 15), Text(Height - 1, Width \div 2 - 6),
      Press(Height - 2, Width - 31, "mOptionsSelected"), Press(Height - 2, Width - 47, "ReConnect"),
      Press(Height - 2, Width - 18, "StartStop"), Tick(Height - 2, Width - 61, "mHosting"), QuitText>>

Options ==
    <<Press(2, 4, "mWizardSelected"), Press(4, 4, "mThemeSelected"), Press(3, 4, "mAboutSelected"),
      Choice(6, 4, "mLogLevel"), Press(13, 4, "mWindowDone"), Press(14, 4, "mStopProgram"), QuitText>>

About == <<Text(5, 19), Press(Height - 2, Width - 19, "mWindowDone"), QuitText>>

(* The theme selector is only there when there are themes to select from.  *)
Theme(size) ==
    IF size = 0
    THEN <<Press(Height - 2, Width - 20, "saveTheme"), QuitText>>
    ELSE <<Choice(2, 4, "mThemeSelector"), Press(Height - 2, Width - 20, "saveTheme"), QuitText>>

Layout(w) ==
    CASE w.title = "Set-Up Wizard"       -> SelectorStep
      [] w.title = "Plugin options"      -> WirelessStep
      [] w.title = "Promiscuous options" -> WirelessStep
      [] w.title = "Monitor options"     -> MonitorStep
      [] w.title = "XLink Kai options"   -> XLinkStep
      [] w.title = "HUD"                 -> HUD
      [] w.title = "Options"             -> Options
      [] w.title = "About"               -> About
      [] w.title = "Theme"               -> Theme(w.group.size)

-----------------------------------------------------------------------------
(* Setting a window up.                                                    *)

AddRadioBoxes(size) ==
    [size |-> size, index |-> 0, lit |-> {}, checked |-> {}, up |-> FALSE, down |-> size > 1]

SetChecked(group, box) == [group EXCEPT !.checked = {box}]

SetUp(title, group, hidden) ==
    [title |-> title, selected |-> 0, lit |-> {}, hidden |-> hidden, group |-> group]

-----------------------------------------------------------------------------
(* A group of radio boxes, while it is selected.                           *)

\* Mutant of HandleUp: the way down is not opened again.
HandleUpForgets(g) ==
    IF g.index > 1
    THEN [g EXCEPT !.index = g.index - 1, !.lit = (g.lit \ {g.index}) \cup {g.index - 1},
                   !.up = IF g.index - 1 = 1 THEN FALSE ELSE g.up]
    ELSE g

HandleUp(g) ==
    IF g.index > 1
    THEN [g EXCEPT !.index = g.index - 1, !.lit = (g.lit \ {g.index}) \cup {g.index - 1},
                   !.down = TRUE, !.up = IF g.index - 1 = 1 THEN FALSE ELSE g.up]
    ELSE g

\* Mutant of HandleDown: one box too many.
HandleDownPast(g) ==
    IF g.index <= g.size
    THEN [g EXCEPT !.index = g.index + 1, !.lit = (g.lit \ {g.index}) \cup {g.index + 1},
                   !.up = TRUE, !.down = IF g.index = g.size THEN FALSE ELSE g.down]
    ELSE g

HandleDown(g) ==
    IF g.index < g.size
    THEN [g EXCEPT !.index = g.index + 1, !.lit = (g.lit \ {g.index}) \cup {g.index + 1},
                   !.up = IF g.index + 1 > 1 THEN TRUE ELSE g.up,
                   !.down = IF g.index + 1 = g.size THEN FALSE ELSE g.down]
    ELSE g

(* Checking the lit box; a box that is checked already changes nothing.    *)
Checks(g) == g.size > 0 /\ g.index > 0 /\ g.index \notin g.checked
HandleSelect(g) == IF Checks(g) THEN [g EXCEPT !.checked = {g.index}] ELSE g

(* SetSelected of a group: the box it was left at is lit or put out.       *)
\* Mutant: a box once lit stays lit.
SelectGroupKeepsLit(g, on) ==
    LET index == IF g.index = 0 THEN 1 ELSE g.index
    IN  [g EXCEPT !.index = index, !.lit = IF on /\ g.size > 0 THEN @ \cup {index} ELSE @]

SelectGroup(g, on) ==
    LET index == IF g.index = 0 THEN 1 ELSE g.index
    IN  [g EXCEPT !.index = index,
                  !.lit = IF g.size = 0 THEN @ ELSE IF on THEN @ \cup {index} ELSE @ \ {index}]

-----------------------------------------------------------------------------
(* The selection of a window.                                              *)

Object(w, i) == Layout(w)[i]

SetSelected(w, i, on) ==
    CASE Object(w, i).kind = "String" -> w
      [] Object(w, i).kind = "RadioBoxGroup" ->
            [w EXCEPT !.lit = IF on THEN @ \cup {i} ELSE @ \ {i}, !.group = SelectGroup(w.group, on)]
      [] OTHER -> [w EXCEPT !.lit = IF on THEN @ \cup {i} ELSE @ \ {i}]

MoveTo(w, i) == [SetSelected(SetSelected(w, w.selected, FALSE), i, TRUE) EXCEPT !.selected = i]
StartAt(w, i) == [SetSelected(w, i, TRUE) EXCEPT !.selected = i]

Selectable(w) == {i \in DOMAIN Layout(w) : i \notin w.hidden /\ Object(w, i).kind # "String"}

(* The first of the objects that are nearest to the selected one.          *)
Nearest(distance) ==
    CHOOSE i \in DOMAIN distance : \A j \in DOMAIN distance :
        distance[i] < distance[j] \/ (distance[i] = distance[j] /\ i <= j)

Toward(w, distance) ==
    IF DOMAIN distance = {} THEN w ELSE MoveTo(w, Nearest(distance))

Below(w) == {i \in Selectable(w) : Object(w, i).y > Object(w, w.selected).y}
Above(w) == {i \in Selectable(w) : Object(w, i).y < Object(w, w.selected).y}
After(w) == {i \in Selectable(w) : Object(w, i).x > Object(w, w.selected).x}
Before(w) == {i \in Selectable(w) : Object(w, i).x < Object(w, w.selected).x}

InGroup(w) == w.selected # 0 /\ Object(w, w.selected).kind = "RadioBoxGroup"

AdvanceSelectionVertical(w) ==
    CASE w.selected = 0               -> StartAt(w, 1)
      [] InGroup(w) /\ w.group.down   -> [w EXCEPT !.group = HandleDown(w.group)]
      [] OTHER                        -> Toward(w, [i \in Below(w) |-> Object(w, i).y])

RecedeSelectionVertical(w) ==
    CASE w.selected = 0               -> StartAt(w, Len(Layout(w)))
      [] InGroup(w) /\ w.group.up     -> [w EXCEPT !.group = HandleUp(w.group)]
      [] OTHER                        -> Toward(w, [i \in Above(w) |-> -Object(w, i).y])

AdvanceSelectionHorizontal(w) ==
    IF w.selected = 0 THEN StartAt(w, 1) ELSE Toward(w, [i \in After(w) |-> Object(w, i).x])

RecedeSelectionHorizontal(w) ==
    IF w.selected = 0 THEN StartAt(w, 1) ELSE Toward(w, [i \in Before(w) |-> -Object(w, i).x])

HandleArrow(w, key) ==
    CASE key = "up"    -> RecedeSelectionVertical(w)
      [] key = "down"  -> AdvanceSelectionVertical(w)
      [] key = "left"  -> RecedeSelectionHorizontal(w)
      [] key = "right" -> AdvanceSelectionHorizontal(w)

=============================================================================

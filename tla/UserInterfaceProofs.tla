-------------------------- MODULE UserInterfaceProofs --------------------------
(***************************************************************************)
(* The user interface, for any settings kept and edited, any adapters,     *)
(* themes and scans.                                                       *)
(*                                                                         *)
(* First what is on each window (Layout) and what a key does to selection  *)
(* and light (Window); then the invariant UIInv, one lemma for the keys,   *)
(* the wizard, the HUD, the saving and the loop; then what is in the file  *)
(* of a program that was told to stop (StopInv).                           *)
(***************************************************************************)
EXTENDS UserInterface, Induction

-----------------------------------------------------------------------------
(* What is on the windows.                                                 *)

Kinds  == {"String", "Button", "CheckBox", "RadioBoxGroup", "TextField"}
Bounds == Settings \cup Flags \cup
          {"nothing", "mWindowDone", "ReConnect", "StartStop", "mHosting", "mWifiAdapterSelection",
           "mThemeSelector", "saveTheme"}
Objects ==
    [kind : Kinds, y : 0 .. Height, x : 0 .. Width, bound : Bounds, accepts : SUBSET KeyClasses,
     length : Nat]

\* The settings, one by one.
LEMMA SettingsListed ==
    Settings = {"mAcknowledgeDataFrames", "mAutoDiscoverPSPVitaNetworks", "mChannel",
                "mConnectionMethod", "mLogLevel", "mOnlyAcceptFromMac", "mReConnectionTimeOutS",
                "mTheme", "mUseSSIDFromHost", "mWifiAdapter", "mXLinkIp", "mXLinkPort"}
  <1>1. DOMAIN Controlled = 1 .. 12  BY DEF Controlled
  <1>2. 1 .. 12 = {1, 2, 3, 4, 5, 6, 7, 8, 9, 10, 11, 12}  OBVIOUS
  <1> QED  BY <1>1, <1>2 DEF Settings, Controlled

(* What the radio boxes of a window choose, and what the layout of a       *)
(* window with that title is.                                              *)
Chosen(title) ==
    CASE title = "Set-Up Wizard" -> "mConnectionMethod"
      [] title \in OptionSteps   -> "mWifiAdapterSelection"
      [] title = "Options"       -> "mLogLevel"
      [] title = "Theme"         -> "mThemeSelector"
      [] OTHER                   -> "nothing"

Bound(title, object) ==
    /\ object.kind \in {"CheckBox", "TextField"} => object.bound \notin {"mConnectionMethod", "mLogLevel"}
    /\ object.kind = "TextField" => object.bound \in Settings
    /\ object.kind = "RadioBoxGroup" => object.bound = Chosen(title) /\ object.bound # "nothing"

Put(title, object) == object \in Objects /\ Bound(title, object)

Laid(title, layout) ==
    /\ Len(layout) \in Nat /\ DOMAIN layout = 1 .. Len(layout) /\ Len(layout) >= 2
    /\ \A i \in DOMAIN layout : Put(title, layout[i])

\* The names the objects of the windows are bound to are settings, selections or buttons.
LEMMA BoundNames ==
    /\ Flags \subseteq Bounds /\ Settings \subseteq Bounds
    /\ {"nothing", "mWindowDone", "ReConnect", "StartStop", "mHosting", "mWifiAdapterSelection",
        "mThemeSelector", "saveTheme", "mOptionsSelected", "mAboutSelected", "mThemeSelected",
        "mWizardSelected", "mStopProgram"} \subseteq Bounds
  BY DEF Bounds, Flags

\* What a group of each window chooses.
LEMMA ChosenNames ==
    /\ Chosen("Set-Up Wizard") = "mConnectionMethod"
    /\ \A title \in OptionSteps : Chosen(title) = "mWifiAdapterSelection"
    /\ Chosen("Plugin options") = "mWifiAdapterSelection"
    /\ Chosen("Promiscuous options") = "mWifiAdapterSelection"
    /\ Chosen("Monitor options") = "mWifiAdapterSelection"
    /\ Chosen("Options") = "mLogLevel"
    /\ Chosen("Theme") = "mThemeSelector"
  BY DEF Chosen, OptionSteps

\* The two buttons at the lower edge of a wizard's window, and the text below them.
LEMMA EdgePut ==
    \A title : Put(title, NextButton) /\ Put(title, StepText) /\ Put(title, QuitText)
  BY BoundNames
     DEF NextButton, StepText, QuitText, Height, Width, Put, Objects, Kinds, Bound, Press, Text

\* The layouts, window by window.
LEMMA SelectorLaid == Laid("Set-Up Wizard", SelectorStep)
  <1> DEFINE title == "Set-Up Wizard"
             o1 == Choice(2, 4, "mConnectionMethod")
  <1>1. Put(title, o1)
    <2>1. o1 \in Objects
      BY BoundNames, SettingsListed DEF Height, Width, Objects, Kinds, Choice
    <2> QED  BY <2>1, ChosenNames DEF Put, Bound, Choice
  <1>2. SelectorStep = <<o1, NextButton, StepText, QuitText>>  BY DEF SelectorStep
  <1> HIDE DEF o1
  <1>3. \A t : Put(t, o1) => Laid(t, SelectorStep)  BY EdgePut, <1>2 DEF Laid
  <1> QED  BY <1>1, <1>3

LEMMA WirelessLaid ==
    /\ Len(WirelessStep) = 7
    /\ \A title \in {"Plugin options", "Promiscuous options"} : Laid(title, WirelessStep)
  <1> DEFINE o1 == Tick(2, 4, "mAutoDiscoverPSPVitaNetworks")
             o2 == Tick(4, 4, "mUseSSIDFromHost")
             o3 == Field(3, 4, "mReConnectionTimeOutS", {"digit"}, 4)
             o4 == Choice(5, 4, "mWifiAdapterSelection")
  <1>1. \A title : Put(title, o1) /\ Put(title, o2) /\ Put(title, o3)
    BY BoundNames, SettingsListed
       DEF Height, Width, Put, Objects, Kinds, Bound, Tick, Field, KeyClasses
  <1>2. Put("Plugin options", o4) /\ Put("Promiscuous options", o4)
    <2>1. o4 \in Objects
      BY BoundNames DEF Height, Width, Objects, Kinds, Choice
    <2> QED  BY <2>1, ChosenNames DEF Put, Bound, Choice
  <1>3. WirelessStep = <<o1, o2, o3, o4, NextButton, StepText, QuitText>>  BY DEF WirelessStep
  <1> HIDE DEF o1, o2, o3, o4
  <1>4. \A title : Put(title, o4) => Laid(title, WirelessStep)
    BY EdgePut, <1>1, <1>3 DEF Laid
  <1> QED  BY <1>2, <1>3, <1>4

LEMMA MonitorLaid == Laid("Monitor options", MonitorStep)
  <1> DEFINE title == "Monitor options"
             o1 == Tick(2, 4, "mAutoDiscoverPSPVitaNetworks")
             o2 == Tick(3, 4, "mAcknowledgeDataFrames")
             o3 == Field(4, 4, "mOnlyAcceptFromMac", {"digit", "letter"}, 17)
             o4 == Field(5, 4, "mChannel", {"digit", "letter"}, 2)
             o5 == Choice(6, 4, "mWifiAdapterSelection")
  <1>1. Put(title, o1) /\ Put(title, o2) /\ Put(title, o3) /\ Put(title, o4)
    BY BoundNames, SettingsListed
       DEF Height, Width, Put, Objects, Kinds, Bound, Tick, Field, KeyClasses
  <1>2. Put(title, o5)
    <2>1. o5 \in Objects
      BY BoundNames DEF Height, Width, Objects, Kinds, Choice
    <2> QED  BY <2>1, ChosenNames DEF Put, Bound, Choice
  <1>3. MonitorStep = <<o1, o2, o3, o4, o5, NextButton, StepText, QuitText>>  BY DEF MonitorStep
  <1> HIDE DEF o1, o2, o3, o4, o5
  <1>4. \A t : Put(t, o1) /\ Put(t, o2) /\ Put(t, o3) /\ Put(t, o4) /\ Put(t, o5)
                  => Laid(t, MonitorStep)
    BY EdgePut, <1>3 DEF Laid
  <1> QED  BY <1>1, <1>2, <1>4

LEMMA XLinkLaid == Laid("XLink Kai options", XLinkStep)
  <1> DEFINE title == "XLink Kai options"
             o1 == Field(2, 2, "mXLinkIp", {"digit"}, 15)
             o2 == Field(3, 2, "mXLinkPort", {"digit"}, 5)
  <1>1. Put(title, o1) /\ Put(title, o2)
    BY BoundNames, SettingsListed DEF Height, Width, Put, Objects, Kinds, Bound, Field, KeyClasses
  <1>2. XLinkStep = <<o1, o2, NextButton, StepText, QuitText>>  BY DEF XLinkStep
  <1> HIDE DEF o1, o2
  <1>3. \A t : Put(t, o1) /\ Put(t, o2) => Laid(t, XLinkStep)  BY EdgePut, <1>2 DEF Laid
  <1> QED  BY <1>1, <1>3

LEMMA HUDLaid == Len(HUD) = 8 /\ Laid("HUD", HUD)
  <1> DEFINE title == "HUD"
             o1 == Text(Height \div 2, Width \div 2 - 4)
             o2 == Text(1, Width - 15)
             o3 == Text(Height - 1, Width \div 2 - 6)
             o4 == Press(Height - 2, Width - 31, "mOptionsSelected")
             o5 == Press(Height - 2, Width - 47, "ReConnect")
             o6 == Press(Height - 2, Width - 18, "StartStop")
             o7 == Tick(Height - 2, Width - 61, "mHosting")
  <1>1. Put(title, o1) /\ Put(title, o2) /\ Put(title, o3)
    BY BoundNames DEF Height, Width, Put, Objects, Kinds, Bound, Text
  <1>2. Put(title, o4) /\ Put(title, o5) /\ Put(title, o6) /\ Put(title, o7)
    BY BoundNames DEF Height, Width, Put, Objects, Kinds, Bound, Press, Tick
  <1>3. HUD = <<o1, o2, o3, o4, o5, o6, o7, QuitText>>  BY DEF HUD
  <1> HIDE DEF o1, o2, o3, o4, o5, o6, o7
  <1> QED  BY EdgePut, <1>1, <1>2, <1>3 DEF Laid

LEMMA OptionsLaid == Laid("Options", Options)
  <1> DEFINE title == "Options"
             o1 == Press(2, 4, "mWizardSelected")
             o2 == Press(4, 4, "mThemeSelected")
             o3 == Press(3, 4, "mAboutSelected")
             o4 == Choice(6, 4, "mLogLevel")
             o5 == Press(13, 4, "mWindowDone")
             o6 == Press(14, 4, "mStopProgram")
  <1>1. Put(title, o1) /\ Put(title, o2) /\ Put(title, o3) /\ Put(title, o5) /\ Put(title, o6)
    BY BoundNames DEF Height, Width, Put, Objects, Kinds, Bound, Press
  <1>2. Put(title, o4)
    <2>1. o4 \in Objects
      BY BoundNames, SettingsListed DEF Height, Width, Objects, Kinds, Choice
    <2> QED  BY <2>1, ChosenNames DEF Put, Bound, Choice
  <1>3. Options = <<o1, o2, o3, o4, o5, o6, QuitText>>  BY DEF Options
  <1> HIDE DEF o1, o2, o3, o4, o5, o6
  <1> QED  BY EdgePut, <1>1, <1>2, <1>3 DEF Laid

LEMMA AboutLaid == Laid("About", About)
  <1> DEFINE title == "About"
             o1 == Text(5, 19)
             o2 == Press(Height - 2, Width - 19, "mWindowDone")
  <1>1. Put(title, o1) /\ Put(title, o2)
    BY BoundNames DEF Height, Width, Put, Objects, Kinds, Bound, Text, Press
  <1>2. About = <<o1, o2, QuitText>>  BY DEF About
  <1> HIDE DEF o1, o2
  <1> QED  BY EdgePut, <1>1, <1>2 DEF Laid

LEMMA ThemeLaid == \A size : Laid("Theme", Theme(size))
  <1> DEFINE title == "Theme"
             o1 == Choice(2, 4, "mThemeSelector")
             o2 == Press(Height - 2, Width - 20, "saveTheme")
  <1>1. Put(title, o2)
    BY BoundNames DEF Height, Width, Put, Objects, Kinds, Bound, Press
  <1>2. Put(title, o1)
    <2>1. o1 \in Objects
      BY BoundNames DEF Height, Width, Objects, Kinds, Choice
    <2> QED  BY <2>1, ChosenNames DEF Put, Bound, Choice
  <1>3. \A size : Theme(size) = IF size = 0 THEN <<o2, QuitText>> ELSE <<o1, o2, QuitText>>
    BY DEF Theme
  <1> HIDE DEF o1, o2
  <1>4. Laid(title, <<o2, QuitText>>)  BY EdgePut, <1>1 DEF Laid
  <1>5. Laid(title, <<o1, o2, QuitText>>)  BY EdgePut, <1>1, <1>2 DEF Laid
  <1> QED  BY <1>3, <1>4, <1>5

\* Every window has objects on it, each on the terminal and bound as meant.
LEMMA LayoutLaid ==
    ASSUME NEW w, w.title \in Titles
    PROVE  Laid(w.title, Layout(w))
  BY SelectorLaid, WirelessLaid, MonitorLaid, XLinkLaid, HUDLaid, OptionsLaid, AboutLaid, ThemeLaid
     DEF Layout, Titles

-----------------------------------------------------------------------------
(* A window keeps its selection.  What is lit of a window, and of its      *)
(* group, is what is lit when s is the object that is selected; where the  *)
(* up and the down key lead in a group follows from its index.             *)

Groups ==
    [size : Nat, index : Nat, lit : SUBSET Nat, checked : SUBSET Nat, up : BOOLEAN, down : BOOLEAN]
Windows ==
    [title : Titles, selected : Nat, lit : SUBSET Nat, hidden : SUBSET Nat, group : Groups]

GroupIsLit(g, on) ==
    /\ g \in Groups
    /\ g.index <= IF g.size = 0 THEN 1 ELSE g.size
    /\ on => g.index > 0
    /\ g.lit = IF on /\ g.size > 0 THEN {g.index} ELSE {}
    /\ g.up <=> g.index > 1
    /\ g.down <=> (IF g.index = 0 THEN 1 ELSE g.index) < g.size

IsText(w, s)  == s = 0 \/ Object(w, s).kind = "String"
IsGroup(w, s) == s # 0 /\ Object(w, s).kind = "RadioBoxGroup"

IsLit(w, s) ==
    /\ w \in Windows
    /\ w.lit = IF IsText(w, s) THEN {} ELSE {s}
    /\ GroupIsLit(w.group, IsGroup(w, s))

WindowOK(w) ==
    /\ IsLit(w, w.selected)
    /\ w.selected <= Len(Layout(w)) /\ w.hidden \subseteq DOMAIN Layout(w)

Alike(w, v) ==
    /\ v.title = w.title /\ v.hidden = w.hidden
    /\ v.group.size = w.group.size /\ v.group.checked = w.group.checked

\* What the layout depends on.
LEMMA AlikeLayout ==
    ASSUME NEW w, NEW v, Alike(w, v)
    PROVE  Layout(v) = Layout(w)
  BY DEF Alike, Layout

\* The keys move the index of a group that is selected.
LEMMA GroupMoves ==
    ASSUME NEW g, GroupIsLit(g, TRUE)
    PROVE  /\ GroupIsLit(HandleUp(g), TRUE) /\ GroupIsLit(HandleDown(g), TRUE)
           /\ HandleUp(g).size = g.size /\ HandleUp(g).checked = g.checked
           /\ HandleDown(g).size = g.size /\ HandleDown(g).checked = g.checked
           /\ g.up => HandleUp(g).index = g.index - 1
           /\ g.down => HandleDown(g).index = g.index + 1
  <1>1. g \in Groups  BY DEF GroupIsLit
  <1>2. g.up \in BOOLEAN /\ g.down \in BOOLEAN /\ g.index \in Nat /\ g.size \in Nat  BY <1>1 DEF Groups
  <1>3. GroupIsLit(HandleUp(g), TRUE)
    <2> DEFINE lit == (g.lit \ {g.index}) \cup {g.index - 1}
               up  == IF g.index - 1 = 1 THEN FALSE ELSE g.up
    <2>1. CASE g.index > 1
      <3>1. HandleUp(g) = [g EXCEPT !.index = g.index - 1, !.lit = lit, !.down = TRUE, !.up = up]
        BY <2>1 DEF HandleUp
      <3>2. lit = {g.index - 1} /\ lit \in SUBSET Nat  BY <1>1, <1>2, <2>1 DEF GroupIsLit, Groups
      <3>3. up \in BOOLEAN  BY <1>2, Zenon
      <3>4. up <=> g.index - 1 > 1  BY <1>2, <2>1 DEF GroupIsLit
      <3> HIDE DEF lit, up
      <3>5. HandleUp(g) \in Groups  BY <1>1, <1>2, <2>1, <3>1, <3>2, <3>3 DEF Groups
      <3> QED  BY <1>1, <1>2, <2>1, <3>1, <3>2, <3>4, <3>5 DEF GroupIsLit, Groups
    <2>2. CASE ~(g.index > 1)  BY <2>2 DEF HandleUp
    <2> QED  BY <2>1, <2>2
  <1>4. GroupIsLit(HandleDown(g), TRUE)
    <2> DEFINE lit  == (g.lit \ {g.index}) \cup {g.index + 1}
               up   == IF g.index + 1 > 1 THEN TRUE ELSE g.up
               down == IF g.index + 1 = g.size THEN FALSE ELSE g.down
    <2>1. CASE g.index < g.size
      <3>1. HandleDown(g) = [g EXCEPT !.index = g.index + 1, !.lit = lit, !.up = up, !.down = down]
        BY <2>1 DEF HandleDown
      <3>2. lit = {g.index + 1} /\ lit \in SUBSET Nat  BY <1>1, <1>2, <2>1 DEF GroupIsLit, Groups
      <3>3. up \in BOOLEAN /\ down \in BOOLEAN  BY <1>2, Zenon
      <3>4. up /\ (down <=> g.index + 1 < g.size)  BY <1>2, <2>1 DEF GroupIsLit
      <3> HIDE DEF lit, up, down
      <3>5. HandleDown(g) \in Groups  BY <1>1, <1>2, <2>1, <3>1, <3>2, <3>3 DEF Groups
      <3> QED  BY <1>1, <1>2, <2>1, <3>1, <3>2, <3>4, <3>5 DEF GroupIsLit, Groups
    <2>2. CASE ~(g.index < g.size)  BY <2>2 DEF HandleDown
    <2> QED  BY <2>1, <2>2
  <1>5. /\ HandleUp(g).size = g.size /\ HandleUp(g).checked = g.checked
        /\ HandleDown(g).size = g.size /\ HandleDown(g).checked = g.checked
        /\ g.up => HandleUp(g).index = g.index - 1
        /\ g.down => HandleDown(g).index = g.index + 1
    BY <1>1 DEF GroupIsLit, HandleUp, HandleDown, Groups
  <1> QED  BY <1>3, <1>4, <1>5

\* Selecting a group lights the box it was left at, leaving it puts it out.
LEMMA GroupSelected ==
    ASSUME NEW g, NEW was \in BOOLEAN, NEW on \in BOOLEAN, GroupIsLit(g, was)
    PROVE  /\ GroupIsLit(SelectGroup(g, on), on)
           /\ SelectGroup(g, on).size = g.size /\ SelectGroup(g, on).checked = g.checked
  <1>1. g \in Groups  BY DEF GroupIsLit
  <1>2. SelectGroup(g, on) \in Groups
    <2> DEFINE index == IF g.index = 0 THEN 1 ELSE g.index
               lit   == IF g.size = 0 THEN g.lit ELSE IF on THEN g.lit \cup {index} ELSE g.lit \ {index}
    <2>1. SelectGroup(g, on) = [g EXCEPT !.index = index, !.lit = lit]  BY DEF SelectGroup
    <2>2. index \in Nat  BY <1>1 DEF Groups
    <2>3. lit \in SUBSET Nat
      <3> HIDE DEF index
      <3> QED  BY <1>1, <2>2 DEF Groups
    <2> HIDE DEF index, lit
    <2> QED  BY <1>1, <2>1, <2>2, <2>3 DEF Groups
  <1>3. /\ SelectGroup(g, on).size = g.size /\ SelectGroup(g, on).checked = g.checked
        /\ SelectGroup(g, on).index = IF g.index = 0 THEN 1 ELSE g.index
        /\ SelectGroup(g, on).up = g.up /\ SelectGroup(g, on).down = g.down
    BY <1>1 DEF SelectGroup, Groups
  <1>4. SelectGroup(g, on).lit = IF on /\ g.size > 0 THEN {SelectGroup(g, on).index} ELSE {}
    BY <1>1 DEF SelectGroup, Groups, GroupIsLit
  <1> QED  BY <1>1, <1>2, <1>3, <1>4 DEF GroupIsLit, Groups

\* SetSelected puts out the object that was lit ...
LEMMA Deselected ==
    ASSUME NEW w, NEW s \in DOMAIN Layout(w), IsLit(w, s)
    PROVE  /\ IsLit(SetSelected(w, s, FALSE), 0) /\ Alike(w, SetSelected(w, s, FALSE))
           /\ SetSelected(w, s, FALSE).selected = w.selected
  <1> DEFINE v == SetSelected(w, s, FALSE)
  <1>1. w \in Windows /\ w.group \in Groups  BY DEF IsLit, Windows
  <1>2. s # 0  BY <1>1, LayoutLaid DEF Laid, Windows
  <1>3. CASE Object(w, s).kind = "String"
    <2>1. v = w  BY <1>3 DEF SetSelected
    <2> QED  BY <1>2, <1>3, <2>1 DEF IsLit, IsText, IsGroup, Alike
  <1>4. CASE Object(w, s).kind = "RadioBoxGroup"
    <2> DEFINE group == SelectGroup(w.group, FALSE)
    <2>1. v = [w EXCEPT !.lit = w.lit \ {s}, !.group = group]  BY <1>4 DEF SetSelected
    <2>2. /\ GroupIsLit(group, FALSE)
          /\ group.size = w.group.size /\ group.checked = w.group.checked
      BY <1>4, GroupSelected, Zenon DEF IsLit, IsGroup
    <2>3. w.lit \ {s} = {}  BY <1>2, <1>4 DEF IsLit, IsText
    <2>4. group \in Groups  BY <2>2 DEF GroupIsLit
    <2> HIDE DEF group
    <2>5. v \in Windows  BY <1>1, <2>1, <2>3, <2>4 DEF Windows
    <2> QED  BY <1>1, <2>1, <2>2, <2>3, <2>5 DEF IsLit, IsText, IsGroup, Alike, Windows
  <1>5. CASE Object(w, s).kind \notin {"String", "RadioBoxGroup"}
    <2>1. v = [w EXCEPT !.lit = w.lit \ {s}]  BY <1>5 DEF SetSelected
    <2>2. w.lit \ {s} = {}  BY <1>2, <1>5 DEF IsLit, IsText
    <2>3. v \in Windows  BY <1>1, <2>1, <2>2 DEF Windows
    <2>4. GroupIsLit(w.group, FALSE)  BY <1>2, <1>5 DEF IsLit, IsGroup
    <2> QED  BY <1>1, <2>1, <2>2, <2>3, <2>4 DEF IsLit, IsText, IsGroup, Alike, Windows
  <1> QED  BY <1>3, <1>4, <1>5

\* ... and lights the one that is selected instead.
LEMMA Selected ==
    ASSUME NEW w, NEW s \in DOMAIN Layout(w), IsLit(w, 0)
    PROVE  /\ IsLit(SetSelected(w, s, TRUE), s) /\ Alike(w, SetSelected(w, s, TRUE))
           /\ SetSelected(w, s, TRUE).selected = w.selected
  <1> DEFINE v == SetSelected(w, s, TRUE)
  <1>1. w \in Windows /\ w.group \in Groups  BY DEF IsLit, Windows
  <1>2. s # 0 /\ s \in Nat  BY <1>1, LayoutLaid DEF Laid, Windows
  <1>3. w.lit = {} /\ GroupIsLit(w.group, FALSE)  BY DEF IsLit, IsText, IsGroup
  <1>4. CASE Object(w, s).kind = "String"
    <2>1. v = w  BY <1>4 DEF SetSelected
    <2> QED  BY <1>1, <1>3, <1>4, <2>1 DEF IsLit, IsText, IsGroup, Alike
  <1>5. CASE Object(w, s).kind = "RadioBoxGroup"
    <2> DEFINE group == SelectGroup(w.group, TRUE)
    <2>1. v = [w EXCEPT !.lit = w.lit \cup {s}, !.group = group]  BY <1>5 DEF SetSelected
    <2>2. /\ GroupIsLit(group, TRUE)
          /\ group.size = w.group.size /\ group.checked = w.group.checked
      BY <1>3, GroupSelected, Zenon
    <2>3. w.lit \cup {s} = {s} /\ {s} \in SUBSET Nat  BY <1>2, <1>3
    <2>4. group \in Groups  BY <2>2 DEF GroupIsLit
    <2> HIDE DEF group
    <2>5. v \in Windows  BY <1>1, <2>1, <2>3, <2>4 DEF Windows
    <2>6. Alike(w, v) /\ v.selected = w.selected /\ v.lit = {s} /\ v.group = group
      BY <1>1, <2>1, <2>2, <2>3 DEF Alike, Windows
    <2>7. Object(v, s) = Object(w, s)  BY <2>6, AlikeLayout DEF Object
    <2> QED  BY <1>2, <1>5, <2>2, <2>5, <2>6, <2>7 DEF IsLit, IsText, IsGroup
  <1>6. CASE Object(w, s).kind \notin {"String", "RadioBoxGroup"}
    <2>1. v = [w EXCEPT !.lit = w.lit \cup {s}]  BY <1>6 DEF SetSelected
    <2>2. w.lit \cup {s} = {s} /\ {s} \in SUBSET Nat  BY <1>2, <1>3
    <2>3. v \in Windows  BY <1>1, <2>1, <2>2 DEF Windows
    <2>4. Alike(w, v) /\ v.selected = w.selected /\ v.lit = {s} /\ v.group = w.group
      BY <1>1, <2>1, <2>2 DEF Alike, Windows
    <2>5. Object(v, s) = Object(w, s)  BY <2>4, AlikeLayout DEF Object
    <2> QED  BY <1>2, <1>3, <1>6, <2>3, <2>4, <2>5 DEF IsLit, IsText, IsGroup
  <1> QED  BY <1>4, <1>5, <1>6

\* The selection goes where the light is.
LEMMA SelectedSet ==
    ASSUME NEW v, NEW i \in DOMAIN Layout(v), IsLit(v, i), v.hidden \subseteq DOMAIN Layout(v)
    PROVE  /\ WindowOK([v EXCEPT !.selected = i]) /\ Alike(v, [v EXCEPT !.selected = i])
           /\ [v EXCEPT !.selected = i].selected = i
  <1> DEFINE u == [v EXCEPT !.selected = i]
  <1>1. v \in Windows  BY DEF IsLit
  <1>2. i \in Nat /\ i <= Len(Layout(v))  BY <1>1, LayoutLaid DEF Laid, Windows
  <1>3. u \in Windows /\ u.lit = v.lit /\ u.group = v.group /\ u.selected = i /\ Alike(v, u)
    BY <1>1, <1>2 DEF Windows, Alike
  <1>4. Layout(u) = Layout(v) /\ u.hidden = v.hidden  BY <1>3, AlikeLayout DEF Alike
  <1> QED  BY <1>2, <1>3, <1>4 DEF WindowOK, IsLit, IsText, IsGroup, Object

\* Two moves of the selection are one.
LEMMA AlikeTwice ==
    ASSUME NEW w, NEW v, NEW u, Alike(w, v), Alike(v, u)
    PROVE  Alike(w, u)
  BY DEF Alike

\* MoveTo and StartAt.
LEMMA Moved ==
    ASSUME NEW w, WindowOK(w), w.selected # 0, NEW i \in DOMAIN Layout(w)
    PROVE  WindowOK(MoveTo(w, i)) /\ Alike(w, MoveTo(w, i)) /\ MoveTo(w, i).selected = i
  <1> DEFINE v == SetSelected(w, w.selected, FALSE)
             u == SetSelected(v, i, TRUE)
  <1>1. w \in Windows /\ w.selected \in Nat /\ w.hidden \subseteq DOMAIN Layout(w)
    BY DEF WindowOK, IsLit, Windows
  <1>2. w.selected \in DOMAIN Layout(w)  BY <1>1, LayoutLaid DEF Laid, Windows, WindowOK
  <1>3. IsLit(v, 0) /\ Alike(w, v)  BY <1>2, Deselected DEF WindowOK
  <1>4. Layout(v) = Layout(w)  BY <1>3, AlikeLayout
  <1>5. IsLit(u, i) /\ Alike(v, u)  BY <1>3, <1>4, Selected
  <1>6. Layout(u) = Layout(v)  BY <1>5, AlikeLayout
  <1>7. Alike(w, u) /\ u.hidden \subseteq DOMAIN Layout(u)
    BY <1>1, <1>3, <1>4, <1>5, <1>6 DEF Alike
  <1>8. MoveTo(w, i) = [u EXCEPT !.selected = i]  BY DEF MoveTo
  <1> HIDE DEF u, v
  <1>9. i \in DOMAIN Layout(u)  BY <1>4, <1>6
  <1> QED  BY <1>5, <1>7, <1>8, <1>9, SelectedSet, AlikeTwice

\* The first key goes to the first object that can be selected.
LEMMA Started ==
    ASSUME NEW w, WindowOK(w), w.selected = 0, NEW i \in DOMAIN Layout(w)
    PROVE  WindowOK(StartAt(w, i)) /\ Alike(w, StartAt(w, i)) /\ StartAt(w, i).selected = i
  <1> DEFINE u == SetSelected(w, i, TRUE)
  <1>1. w \in Windows /\ w.hidden \subseteq DOMAIN Layout(w) /\ IsLit(w, 0)
    BY DEF WindowOK, IsLit, Windows
  <1>2. IsLit(u, i) /\ Alike(w, u)  BY <1>1, Selected
  <1>3. Layout(u) = Layout(w)  BY <1>2, AlikeLayout
  <1>4. u.hidden \subseteq DOMAIN Layout(u)  BY <1>1, <1>2, <1>3 DEF Alike
  <1>5. StartAt(w, i) = [u EXCEPT !.selected = i]  BY DEF StartAt
  <1> HIDE DEF u
  <1> QED  BY <1>2, <1>3, <1>4, <1>5, SelectedSet, AlikeTwice

\* There is a nearest object where there is any.
LEMMA NearestThere ==
    ASSUME NEW D, D \subseteq Nat, D # {}, NEW distance, DOMAIN distance = D,
           \A i \in D : distance[i] \in (-Width) .. Width
    PROVE  Nearest(distance) \in D
  <1> DEFINE far == {distance[i] + Width : i \in D}
  <1>1. far \subseteq Nat /\ far # {}  BY DEF Width
  <1> HIDE DEF far
  <1>2. PICK least \in far : \A n \in far : least <= n  BY <1>1, LeastNumber
  <1> USE DEF far
  <1> DEFINE near == {i \in D : distance[i] + Width = least}
  <1>3. near \subseteq Nat /\ near # {}  BY <1>2
  <1> HIDE DEF near, far
  <1>4. PICK first \in near : \A i \in near : first <= i  BY <1>3, LeastNumber
  <1>5. first \in D /\ distance[first] + Width = least  BY <1>4 DEF near
  <1>6. ASSUME NEW j \in D
        PROVE  distance[first] < distance[j] \/ (distance[first] = distance[j] /\ first <= j)
    <2>1. least <= distance[j] + Width  BY <1>2 DEF far
    <2>2. distance[j] \in Int /\ distance[first] \in Int /\ Width \in Int  BY <1>5 DEF Width
    <2>3. CASE distance[j] + Width = least  BY <1>4, <1>5, <2>2, <2>3 DEF near
    <2>4. CASE distance[j] + Width # least
      <3>1. distance[first] + Width < distance[j] + Width  BY <1>5, <2>1, <2>2, <2>4
      <3> QED  BY <3>1, <2>2
    <2> QED  BY <2>3, <2>4
  <1> QED  BY <1>5, <1>6 DEF Nearest

\* The selection goes to one of the objects in the way of the key, if there are any.
LEMMA TowardMoves ==
    ASSUME NEW w, WindowOK(w), w.selected # 0, NEW D, D \subseteq DOMAIN Layout(w),
           NEW distance, DOMAIN distance = D, \A i \in D : distance[i] \in (-Width) .. Width
    PROVE  /\ WindowOK(Toward(w, distance)) /\ Alike(w, Toward(w, distance))
           /\ D = {} => Toward(w, distance) = w
           /\ D # {} => Toward(w, distance).selected \in D
  <1>1. w \in Windows  BY DEF WindowOK, IsLit
  <1>2. D \subseteq Nat  BY <1>1, LayoutLaid DEF Laid, Windows
  <1>3. CASE D = {}
    <2>1. Toward(w, distance) = w  BY <1>3 DEF Toward
    <2> QED  BY <1>3, <2>1 DEF Alike
  <1>4. CASE D # {}
    <2>1. Nearest(distance) \in D  BY <1>2, <1>4, NearestThere
    <2>2. Toward(w, distance) = MoveTo(w, Nearest(distance))  BY <1>4 DEF Toward
    <2> QED  BY <1>4, <2>1, <2>2, Moved
  <1> QED  BY <1>3, <1>4

\* Rows and columns are distances on the terminal.
LEMMA Places ==
    ASSUME NEW w, w \in Windows, NEW i \in DOMAIN Layout(w)
    PROVE  /\ Object(w, i).y \in (-Width) .. Width /\ -Object(w, i).y \in (-Width) .. Width
           /\ Object(w, i).x \in (-Width) .. Width /\ -Object(w, i).x \in (-Width) .. Width
  <1>1. Object(w, i) \in Objects  BY LayoutLaid DEF Laid, Put, Windows, Object
  <1>2. Object(w, i).y \in 0 .. 24 /\ Object(w, i).x \in 0 .. 80  BY <1>1 DEF Objects, Height, Width
  <1> QED  BY <1>2 DEF Width

\* A key that only moves in a group.
TurnsTo(w, g, v) ==
    /\ WindowOK(w) /\ InGroup(w)
    /\ GroupIsLit(g, TRUE) /\ g.size = w.group.size /\ g.checked = w.group.checked
    /\ v = [w EXCEPT !.group = g]

\* A key moves the index of the group, and nothing else of the window.
LEMMA GroupPut ==
    ASSUME NEW w, NEW g, NEW v, TurnsTo(w, g, v)
    PROVE  WindowOK(v) /\ Alike(w, v) /\ v.selected = w.selected /\ v.group = g
  <1> USE DEF TurnsTo
  <1>1. w \in Windows /\ g \in Groups  BY DEF WindowOK, IsLit, GroupIsLit
  <1>2. v \in Windows /\ v.lit = w.lit /\ v.selected = w.selected /\ v.group = g /\ Alike(w, v)
    BY <1>1 DEF Windows, Alike
  <1>3. Layout(v) = Layout(w) /\ v.hidden = w.hidden  BY <1>2, AlikeLayout DEF Alike
  <1>4. /\ v.lit = IF IsText(v, v.selected) THEN {} ELSE {v.selected}
        /\ IsGroup(v, v.selected) <=> TRUE
    BY <1>2, <1>3 DEF IsText, IsGroup, InGroup, Object, WindowOK, IsLit
  <1>5. GroupIsLit(v.group, IsGroup(v, v.selected))  BY <1>2, <1>4 DEF GroupIsLit
  <1>6. WindowOK(v)  BY <1>2, <1>3, <1>4, <1>5 DEF WindowOK, IsLit
  <1> QED  BY <1>2, <1>6

\* What is lit while a group is selected.
LEMMA InGroupLit ==
    ASSUME NEW w, WindowOK(w), InGroup(w)
    PROVE  /\ GroupIsLit(w.group, TRUE)
           /\ w.group.down <=> w.group.index < w.group.size
           /\ w.group.up <=> w.group.index > 1
  <1>1. GroupIsLit(w.group, IsGroup(w, w.selected)) /\ IsGroup(w, w.selected)
    BY DEF InGroup, WindowOK, IsLit, IsGroup
  <1>2. GroupIsLit(w.group, TRUE)  BY <1>1 DEF GroupIsLit
  <1> QED  BY <1>2 DEF GroupIsLit, Groups

\* The down and the up key: they move in a group before they leave it.
LEMMA DownMoves ==
    ASSUME NEW w, WindowOK(w), w.selected # 0, NEW v, v = AdvanceSelectionVertical(w)
    PROVE  /\ WindowOK(v) /\ Alike(w, v)
           /\ IF InGroup(w) /\ w.group.index < w.group.size
              THEN v.selected = w.selected /\ v.group.index = w.group.index + 1
              ELSE IF Below(w) = {} THEN v = w ELSE v.selected \in Below(w)
  <1>1. CASE InGroup(w) /\ w.group.down
    <2> DEFINE g == HandleDown(w.group)
    <2>1. v = [w EXCEPT !.group = g]
      BY <1>1 DEF AdvanceSelectionVertical, InGroup
    <2>2. GroupIsLit(w.group, TRUE) /\ w.group.index < w.group.size  BY <1>1, InGroupLit
    <2>3. /\ GroupIsLit(g, TRUE) /\ g.size = w.group.size /\ g.checked = w.group.checked
          /\ g.index = w.group.index + 1
      BY <1>1, <2>2, GroupMoves
    <2> HIDE DEF g
    <2>4. WindowOK(v) /\ Alike(w, v) /\ v.selected = w.selected /\ v.group = g
      <3>1. TurnsTo(w, g, v)  BY <1>1, <2>1, <2>3 DEF TurnsTo
      <3> QED  BY <3>1, GroupPut
    <2> QED  BY <1>1, <2>2, <2>3, <2>4
  <1>2. CASE ~(InGroup(w) /\ w.group.down)
    <2> DEFINE distance == [i \in Below(w) |-> Object(w, i).y]
    <2>1. v = Toward(w, distance)  BY <1>2 DEF AdvanceSelectionVertical
    <2>2. ~(InGroup(w) /\ w.group.index < w.group.size)  BY <1>2, InGroupLit
    <2>3. Below(w) \subseteq DOMAIN Layout(w)  BY DEF Below, Selectable
    <2>4. DOMAIN distance = Below(w) /\ \A i \in Below(w) : distance[i] \in (-Width) .. Width
      BY <2>3, Places DEF WindowOK, IsLit
    <2> HIDE DEF distance
    <2> QED  BY <2>1, <2>2, <2>3, <2>4, TowardMoves
  <1> QED  BY <1>1, <1>2

\* The up key likewise.
LEMMA UpMoves ==
    ASSUME NEW w, WindowOK(w), w.selected # 0, NEW v, v = RecedeSelectionVertical(w)
    PROVE  /\ WindowOK(v) /\ Alike(w, v)
           /\ IF InGroup(w) /\ w.group.index > 1
              THEN v.selected = w.selected /\ v.group.index = w.group.index - 1
              ELSE IF Above(w) = {} THEN v = w ELSE v.selected \in Above(w)
  <1>1. CASE InGroup(w) /\ w.group.up
    <2> DEFINE g == HandleUp(w.group)
    <2>1. v = [w EXCEPT !.group = g]
      BY <1>1 DEF RecedeSelectionVertical, InGroup
    <2>2. GroupIsLit(w.group, TRUE) /\ w.group.index > 1  BY <1>1, InGroupLit
    <2>3. /\ GroupIsLit(g, TRUE) /\ g.size = w.group.size /\ g.checked = w.group.checked
          /\ g.index = w.group.index - 1
      BY <1>1, <2>2, GroupMoves
    <2> HIDE DEF g
    <2>4. WindowOK(v) /\ Alike(w, v) /\ v.selected = w.selected /\ v.group = g
      <3>1. TurnsTo(w, g, v)  BY <1>1, <2>1, <2>3 DEF TurnsTo
      <3> QED  BY <3>1, GroupPut
    <2> QED  BY <1>1, <2>2, <2>3, <2>4
  <1>2. CASE ~(InGroup(w) /\ w.group.up)
    <2> DEFINE distance == [i \in Above(w) |-> -Object(w, i).y]
    <2>1. v = Toward(w, distance)  BY <1>2 DEF RecedeSelectionVertical
    <2>2. ~(InGroup(w) /\ w.group.index > 1)  BY <1>2, InGroupLit
    <2>3. Above(w) \subseteq DOMAIN Layout(w)  BY DEF Above, Selectable
    <2>4. DOMAIN distance = Above(w) /\ \A i \in Above(w) : distance[i] \in (-Width) .. Width
      BY <2>3, Places DEF WindowOK, IsLit
    <2> HIDE DEF distance
    <2> QED  BY <2>1, <2>2, <2>3, <2>4, TowardMoves
  <1> QED  BY <1>1, <1>2

\* The keys for left and right.
LEMMA AcrossMoves ==
    ASSUME NEW w, WindowOK(w), w.selected # 0,
           NEW v \in {AdvanceSelectionHorizontal(w), RecedeSelectionHorizontal(w)}
    PROVE  WindowOK(v) /\ Alike(w, v)
  <1>1. CASE v = AdvanceSelectionHorizontal(w)
    <2> DEFINE distance == [i \in After(w) |-> Object(w, i).x]
    <2>1. v = Toward(w, distance)  BY <1>1 DEF AdvanceSelectionHorizontal
    <2>2. After(w) \subseteq DOMAIN Layout(w)  BY DEF After, Selectable
    <2>3. DOMAIN distance = After(w) /\ \A i \in After(w) : distance[i] \in (-Width) .. Width
      BY <2>2, Places DEF WindowOK, IsLit
    <2> HIDE DEF distance
    <2> QED  BY <2>1, <2>2, <2>3, TowardMoves
  <1>2. CASE v = RecedeSelectionHorizontal(w)
    <2> DEFINE distance == [i \in Before(w) |-> -Object(w, i).x]
    <2>1. v = Toward(w, distance)  BY <1>2 DEF RecedeSelectionHorizontal
    <2>2. Before(w) \subseteq DOMAIN Layout(w)  BY DEF Before, Selectable
    <2>3. DOMAIN distance = Before(w) /\ \A i \in Before(w) : distance[i] \in (-Width) .. Width
      BY <2>2, Places DEF WindowOK, IsLit
    <2> HIDE DEF distance
    <2> QED  BY <2>1, <2>2, <2>3, TowardMoves
  <1> QED  BY <1>1, <1>2

\* Every arrow key leaves a window in order, with the same boxes checked.
LEMMA ArrowKeeps ==
    ASSUME NEW w, WindowOK(w), NEW key \in Arrows
    PROVE  WindowOK(HandleArrow(w, key)) /\ Alike(w, HandleArrow(w, key))
  <1>1. CASE w.selected = 0
    <2>1. Len(Layout(w)) \in DOMAIN Layout(w) /\ 1 \in DOMAIN Layout(w)
      BY LayoutLaid DEF Laid, WindowOK, IsLit, Windows
    <2>2. /\ AdvanceSelectionVertical(w) = StartAt(w, 1)
          /\ AdvanceSelectionHorizontal(w) = StartAt(w, 1)
          /\ RecedeSelectionHorizontal(w) = StartAt(w, 1)
      BY <1>1 DEF AdvanceSelectionVertical, AdvanceSelectionHorizontal, RecedeSelectionHorizontal, InGroup
    <2>3. RecedeSelectionVertical(w) = StartAt(w, Len(Layout(w)))
      BY <1>1 DEF RecedeSelectionVertical, InGroup
    <2>4. HandleArrow(w, key) \in {StartAt(w, 1), StartAt(w, Len(Layout(w)))}
      BY <2>2, <2>3 DEF HandleArrow, Arrows
    <2> QED  BY <1>1, <2>1, <2>4, Started
  <1>2. CASE w.selected # 0
    BY <1>2, DownMoves, UpMoves, AcrossMoves DEF HandleArrow, Arrows
  <1> QED  BY <1>1, <1>2

-----------------------------------------------------------------------------
(* The invariant.  A window is lit where it is selected, and its groups    *)
(* have the boxes of its title; of an options step the box that is checked *)
(* is the adapter that is selected; the settings and the lines of the file *)
(* that are numbers of boxes are ones their groups have.                   *)

Sized(w) ==
    /\ w.title = "Set-Up Wizard" => w.group.size = 3
    /\ w.title = "Options" => w.group.size = 5

Checked(w, selection) == w.title \in OptionSteps => w.group.checked \subseteq {selection + 1}

Boxes(values) ==
    /\ "mConnectionMethod" \in DOMAIN values => values["mConnectionMethod"] \in 0 .. 2
    /\ "mLogLevel" \in DOMAIN values => values["mLogLevel"] \in 0 .. 4

WindowInv == WindowOK(window) /\ Sized(window) /\ Checked(window, mWifiAdapterSelection)
ModelInv ==
    /\ DOMAIN settings = Settings /\ Boxes(settings)
    /\ mWifiAdapterList \in {<<>>} \cup Scans /\ mWifiAdapterSelection \in Nat
WishesTyped ==
    /\ asked \subseteq Flags /\ mWindowDone \in {"none"} \cup Titles /\ late \subseteq Settings
TurnInv ==
    /\ controller \in {"wizard", "HUD"}
    /\ mWizardStep \in {"Set-Up Wizard", "XLink Kai options"} \cup OptionSteps
    /\ pcM \in {"off", "turn", "fill", "open", "save", "hand", "stop", "join", "ended", "crashed"}
    /\ after \in {"wizard", "HUD", "stop"}
    /\ pcM = "fill" => mWizardStep \in OptionSteps
DiskInv == exists \in BOOLEAN /\ DOMAIN file \subseteq Kept /\ Boxes(file)

UIInv == KeyboardTypeOK /\ WindowInv /\ ModelInv /\ WishesTyped /\ TurnInv /\ DiskInv

\* The keyboard thread's own variables.
LEMMA KeyboardTyped ==
    ASSUME KeyboardTypeOK,
           \/ UNCHANGED keyboard \/ KBegin \/ StartThread \/ AskThread \/ JoinThread \/ ThreadDies
           \/ \E key : Turn(key)
    PROVE  KeyboardTypeOK'
  <1> USE DEF KeyboardTypeOK
  <1>1. CASE UNCHANGED keyboard  BY <1>1 DEF keyboard, combo, thread
  <1>2. CASE KBegin  BY <1>2 DEF KBegin, combo
  <1> DEFINE Booleans == /\ mRunning' \in BOOLEAN /\ mDone' \in BOOLEAN
                         /\ lComboKeyPressed' \in BOOLEAN /\ lKeyIsKeypad' \in BOOLEAN
  <1>3. CASE StartThread \/ ThreadDies
    <2>1. Booleans  BY <1>3, Zenon DEF StartThread, ThreadDies, ForgetCombo
    <2>2. lNumCyclesSinceComboKeyPressed' = 0 /\ pcK' \in {"started", "none"}
      BY <1>3 DEF StartThread, ThreadDies, ForgetCombo
    <2> QED  BY <2>1, <2>2 DEF Patience
  <1>4. CASE AskThread \/ JoinThread  BY <1>4 DEF AskThread, JoinThread, combo
  <1>5. ASSUME NEW key, Turn(key) PROVE KeyboardTypeOK'
    <2>1. Cycles \in 0 .. Patience  BY DEF Cycles, Patience
    <2>2. mDone' \in BOOLEAN /\ mRunning' \in BOOLEAN /\ pcK' \in {"getch", "returned"}
      BY <1>5 DEF Turn
    <2>3. CASE ForgetCombo
      <3>1. Booleans  BY <2>2, <2>3, Zenon DEF ForgetCombo
      <3>2. lNumCyclesSinceComboKeyPressed' = 0  BY <2>3 DEF ForgetCombo
      <3> QED  BY <2>2, <3>1, <3>2 DEF Patience
    <2>4. CASE UNCHANGED combo  BY <2>2, <2>4 DEF combo
    <2>5. CASE Opens(key) /\ Follow(key)
      <3>1. lNumCyclesSinceComboKeyPressed' = Cycles /\ lComboKeyPressed' = TRUE
            /\ lKeyIsKeypad' = (lKeyIsKeypad \/ key = "bracket")
        BY <2>5 DEF Follow, Waits, GivesUp, Closes
      <3> QED  BY <2>1, <2>2, <3>1
    <2>6. CASE Waits(key) /\ Follow(key)
      <3>1. lNumCyclesSinceComboKeyPressed' = Cycles /\ UNCHANGED <<lComboKeyPressed, lKeyIsKeypad>>
        <4>1. ~Opens(key) /\ ~GivesUp(key) /\ ~Closes(key) /\ lComboKeyPressed
          BY <2>1, <2>6 DEF Waits, GivesUp, Closes, Patience
        <4> QED  BY <2>6, <4>1, Zenon DEF Follow
      <3> QED  BY <2>1, <2>2, <3>1
    <2> QED  BY <1>5, <2>3, <2>4, <2>5, <2>6 DEF Turn, Follow
  <1> QED  BY <1>1, <1>2, <1>3, <1>4, <1>5

HasBoxes(g, size, checked) == g = [AddRadioBoxes(size) EXCEPT !.checked = checked]
IsOut(g) == GroupIsLit(g, FALSE)
Hides(title, hidden) == hidden = {} \/ (title = "HUD" /\ hidden = {5})
IsSetUp(w, title, group, hidden) == w = SetUp(title, group, hidden)

IsNewGroup(g, size, checked, up, down) ==
    g = [size |-> size, index |-> 0, lit |-> {}, checked |-> checked, up |-> up, down |-> down]

IsMade(g, size, checked, up, down) ==
    /\ g \in Groups /\ g.size = size /\ g.checked = checked /\ g.index = 0 /\ g.lit = {}
    /\ g.up = up /\ g.down = down

\* A group with its boxes, before any of them is lit.
LEMMA GroupMade ==
    ASSUME NEW size \in Nat, NEW checked \in SUBSET Nat, NEW up \in BOOLEAN, NEW down \in BOOLEAN,
           NEW g, IsNewGroup(g, size, checked, up, down)
    PROVE  IsMade(g, size, checked, up, down)
  BY DEF Groups, IsNewGroup, IsMade

\* No box is lit of a group that is new.
LEMMA BoxesMade ==
    ASSUME NEW size \in Nat, NEW checked \in SUBSET Nat, NEW g, HasBoxes(g, size, checked)
    PROVE  IsOut(g) /\ g.size = size /\ g.checked = checked
  <1> DEFINE down == size > 1
             up   == FALSE
  <1>1. up \in BOOLEAN /\ down \in BOOLEAN /\ ~up /\ (down <=> size > 1)  OBVIOUS
  <1>2. IsNewGroup(g, size, checked, up, down)  BY DEF HasBoxes, AddRadioBoxes, IsNewGroup
  <1> HIDE DEF up, down
  <1>3. IsMade(g, size, checked, up, down)  BY <1>1, <1>2, GroupMade
  <1> QED  BY <1>1, <1>3 DEF IsMade, IsOut, GroupIsLit

\* A group none of whose boxes is checked.
LEMMA PlainBoxes ==
    ASSUME NEW size, NEW g, g = AddRadioBoxes(size)
    PROVE  HasBoxes(g, size, {})
  <1> DEFINE down == size > 1
             up   == FALSE
  <1>1. g = [size |-> size, index |-> 0, lit |-> {}, checked |-> {}, up |-> up, down |-> down]
    BY DEF AddRadioBoxes
  <1> HIDE DEF up, down
  <1>2. g = [g EXCEPT !.checked = {}]  BY <1>1
  <1> QED  BY <1>2 DEF HasBoxes

\* Nothing is selected of a window that is set up.
LEMMA Shown ==
    ASSUME NEW title \in Titles, NEW group, IsOut(group),
           NEW hidden, Hides(title, hidden),
           NEW w, IsSetUp(w, title, group, hidden)
    PROVE  WindowOK(w) /\ w.title = title /\ w.group = group
  <1>1. hidden \in SUBSET Nat  BY DEF Hides
  <1>2. GroupIsLit(group, FALSE) /\ group \in Groups  BY DEF IsOut, GroupIsLit
  <1>3. /\ w.title = title /\ w.selected = 0 /\ w.lit = {} /\ w.hidden = hidden /\ w.group = group
        /\ w \in Windows
    BY <1>1, <1>2 DEF IsSetUp, SetUp, Windows
  <1>4. Laid(title, Layout(w))  BY <1>3, LayoutLaid
  <1>5. hidden \subseteq DOMAIN Layout(w)
    <2>1. CASE hidden = {}  BY <2>1
    <2>2. CASE title = "HUD" /\ hidden = {5}
      <3>1. Layout(w) = HUD  BY <1>3, <2>2 DEF Layout
      <3> QED  BY <2>2, <3>1, HUDLaid DEF Laid
    <2> QED  BY <2>1, <2>2 DEF Hides
  <1>6. IsText(w, w.selected) /\ (IsGroup(w, w.selected) <=> FALSE)  BY <1>3 DEF IsText, IsGroup
  <1>7. GroupIsLit(w.group, IsGroup(w, w.selected))  BY <1>2, <1>3, <1>6 DEF GroupIsLit
  <1>8. WindowOK(w)  BY <1>3, <1>4, <1>5, <1>6, <1>7 DEF WindowOK, IsLit, Laid
  <1> QED  BY <1>3, <1>8

\* Every window, as it is when it is set up.
New(w) == WindowOK(w) /\ Sized(w) /\ \A selection : Checked(w, selection)

Fits(title, size, checked) ==
    /\ title = "Set-Up Wizard" => size = 3
    /\ title = "Options" => size = 5
    /\ title \in OptionSteps => checked = {}

\* A window that is not drawn yet hides nothing.
LEMMA HidesNothing == \A title : Hides(title, {})
  BY DEF Hides

\* A window that was just set up has nothing selected and nothing lit.
LEMMA NewShown ==
    ASSUME NEW title \in Titles, NEW size \in Nat, NEW checked \in SUBSET Nat, NEW g,
           HasBoxes(g, size, checked),
           NEW hidden, Hides(title, hidden),
           NEW w, IsSetUp(w, title, g, hidden),
           Fits(title, size, checked)
    PROVE  New(w)
  <1>1. IsOut(g) /\ g.size = size /\ g.checked = checked  BY BoxesMade
  <1>2. WindowOK(w) /\ w.title = title /\ w.group = g  BY <1>1, Shown
  <1> QED  BY <1>1, <1>2 DEF New, Sized, Checked, Fits

\* The windows that are made, one after the other.
LEMMA SelectorShown == New(ShowSelector)
  <1> DEFINE size == 3
             g    == AddRadioBoxes(size)
  <1>1. HasBoxes(g, size, {}) /\ IsSetUp(ShowSelector, "Set-Up Wizard", g, {})
    BY PlainBoxes DEF ShowSelector, Methods, IsSetUp
  <1> HIDE DEF g
  <1>2. size \in Nat /\ {} \in SUBSET Nat /\ "Set-Up Wizard" \in Titles  BY DEF Titles
  <1>3. Fits("Set-Up Wizard", size, {})  BY DEF Fits, OptionSteps
  <1> HIDE DEF size
  <1> QED  BY <1>1, <1>2, <1>3, NewShown, HidesNothing

LEMMA StepShown ==
    ASSUME NEW title \in OptionSteps, NEW list, Len(list) \in Nat
    PROVE  New(ShowOptionsStep(title, list))
  <1> DEFINE size == Len(list)
             g    == AddRadioBoxes(size)
  <1>1. HasBoxes(g, size, {}) /\ IsSetUp(ShowOptionsStep(title, list), title, g, {})
    BY PlainBoxes DEF ShowOptionsStep, IsSetUp
  <1> HIDE DEF g
  <1>2. {} \in SUBSET Nat /\ title \in Titles /\ title \notin {"Set-Up Wizard", "Options"}
    BY DEF Titles, OptionSteps
  <1>3. Fits(title, size, {})  BY <1>2 DEF Fits
  <1> HIDE DEF size
  <1> QED  BY <1>1, <1>2, <1>3, NewShown, HidesNothing DEF size

LEMMA PlainShown ==
    /\ New(ShowXLinkStep) /\ New(ShowAbout)
    /\ \A hidden \in {{}, {5}} : New(SetUp("HUD", NoBoxes, hidden))
  <1>1. HasBoxes(NoBoxes, 0, {})  BY PlainBoxes DEF NoBoxes
  <1>2. 0 \in Nat /\ {} \in SUBSET Nat  OBVIOUS
  <1>3. New(ShowXLinkStep)
    <2>1. IsSetUp(ShowXLinkStep, "XLink Kai options", NoBoxes, {})  BY DEF ShowXLinkStep, IsSetUp
    <2>2. "XLink Kai options" \in Titles /\ Fits("XLink Kai options", 0, {})
      BY DEF Titles, OptionSteps, Fits
    <2> QED  BY <1>1, <1>2, <2>1, <2>2, NewShown, HidesNothing
  <1>4. New(ShowAbout)
    <2>1. IsSetUp(ShowAbout, "About", NoBoxes, {})  BY DEF ShowAbout, IsSetUp
    <2>2. "About" \in Titles /\ Fits("About", 0, {})
      BY DEF Titles, OptionSteps, Fits
    <2> QED  BY <1>1, <1>2, <2>1, <2>2, NewShown, HidesNothing
  <1>5. ASSUME NEW hidden \in {{}, {5}} PROVE New(SetUp("HUD", NoBoxes, hidden))
    <2>1. IsSetUp(SetUp("HUD", NoBoxes, hidden), "HUD", NoBoxes, hidden)  BY DEF IsSetUp
    <2>2. "HUD" \in Titles /\ Fits("HUD", 0, {}) /\ Hides("HUD", hidden)
      BY DEF Titles, OptionSteps, Fits, Hides
    <2> QED  BY <1>1, <1>2, <2>1, <2>2, NewShown
  <1> QED  BY <1>3, <1>4, <1>5

LEMMA OptionsShown ==
    ASSUME settings["mLogLevel"] \in 0 .. 4
    PROVE  New(ShowOptions)
  <1> DEFINE size    == 5
             checked == {settings["mLogLevel"] + 1}
             g       == SetChecked(AddRadioBoxes(size), settings["mLogLevel"] + 1)
  <1>1. HasBoxes(g, size, checked) /\ IsSetUp(ShowOptions, "Options", g, {})
    BY DEF ShowOptions, Levels, SetChecked, HasBoxes, IsSetUp
  <1> HIDE DEF g
  <1>2. size \in Nat /\ checked \in SUBSET Nat /\ "Options" \in Titles
         /\ Fits("Options", size, checked)
    BY DEF Titles, OptionSteps, Fits
  <1> HIDE DEF size, checked
  <1> QED  BY <1>1, <1>2, NewShown, HidesNothing

LEMMA ThemeShown == New(ShowTheme)
  <1> DEFINE checked == {i \in DOMAIN Themes : Themes[i] = settings["mTheme"]}
             size    == Len(Themes)
             g       == [AddRadioBoxes(size) EXCEPT !.checked = checked]
  <1>1. HasBoxes(g, size, checked) /\ IsSetUp(ShowTheme, "Theme", g, {})
    BY DEF ShowTheme, HasBoxes, IsSetUp
  <1>2. checked \in SUBSET Nat /\ size \in Nat  BY UserInterfaceAssumption
  <1> HIDE DEF checked, size, g
  <1>3. "Theme" \in Titles /\ Fits("Theme", size, checked)  BY DEF Titles, OptionSteps, Fits
  <1> QED  BY <1>1, <1>2, <1>3, NewShown, HidesNothing

\* Drawing a window only shows or hides objects.
LEMMA DrawnKeeps ==
    ASSUME NEW w, WindowOK(w)
    PROVE  WindowOK(Drawn(w)) /\ Drawn(w).title = w.title /\ Drawn(w).group = w.group
  <1>1. w \in Windows  BY DEF WindowOK, IsLit
  <1>2. PICK hidden : /\ Drawn(w) = [w EXCEPT !.hidden = hidden] /\ hidden \subseteq DOMAIN Layout(w)
    <2>1. CASE w.title \in {"Plugin options", "Promiscuous options"}
      <3> DEFINE hidden == IF settings["mAutoDiscoverPSPVitaNetworks"] THEN {} ELSE {2, 3}
      <3>1. Drawn(w) = [w EXCEPT !.hidden = hidden]  BY <2>1 DEF Drawn
      <3>2. Layout(w) = WirelessStep  BY <2>1 DEF Layout
      <3>3. DOMAIN Layout(w) = 1 .. 7
        <4>1. Laid(w.title, Layout(w)) /\ Len(Layout(w)) = 7  BY <2>1, <3>2, WirelessLaid
        <4> QED  BY <4>1 DEF Laid
      <3> QED  BY <3>1, <3>3
    <2>2. CASE w.title \in {"Monitor options", "XLink Kai options"}
      <3>1. Drawn(w) = [w EXCEPT !.hidden = w.hidden \ {2, 3}]  BY <2>2 DEF Drawn
      <3> QED  BY <3>1 DEF WindowOK
    <2>3. CASE w.title \notin {"Plugin options", "Promiscuous options", "Monitor options", "XLink Kai options"}
      <3>1. Drawn(w) = w  BY <2>3 DEF Drawn
      <3>2. w = [w EXCEPT !.hidden = w.hidden]  BY <1>1 DEF Windows
      <3> QED  BY <3>1, <3>2 DEF WindowOK
    <2> QED  BY <2>1, <2>2, <2>3
  <1> DEFINE v == [w EXCEPT !.hidden = hidden]
  <1>3. hidden \in SUBSET Nat  BY <1>1, <1>2, LayoutLaid DEF Laid, Windows
  <1>4. /\ v \in Windows /\ v.title = w.title /\ v.selected = w.selected /\ v.lit = w.lit
        /\ v.hidden = hidden /\ v.group = w.group
    BY <1>1, <1>3 DEF Windows
  <1> HIDE DEF v
  <1>5. Layout(v) = Layout(w)  BY <1>4 DEF Layout
  <1>6. WindowOK(v)
    BY <1>2, <1>4, <1>5 DEF WindowOK, IsLit, IsText, IsGroup, Object
  <1> QED  BY <1>2, <1>4, <1>6 DEF v

-----------------------------------------------------------------------------
(* K keeps the invariant.                                                  *)

\* What the next key goes to.
LEMMA FocusBound ==
    ASSUME WindowOK(window)
    PROVE  /\ Put(window.title, Focus)
           /\ Focus.kind = "RadioBoxGroup" => InGroup(window)
  <1>1. window \in Windows  BY DEF WindowOK, IsLit
  <1>2. CASE window.selected = 0
    <2>1. Focus = QuitText /\ QuitText.kind = "String"  BY <1>2 DEF Focus, QuitText, Text
    <2> QED  BY <2>1, EdgePut
  <1>3. CASE window.selected # 0
    <2>1. Focus = Layout(window)[window.selected]  BY <1>3 DEF Focus, Object
    <2>2. window.selected \in DOMAIN Layout(window)
      BY <1>1, <1>3, LayoutLaid DEF Laid, Windows, WindowOK
    <2>3. Put(window.title, Focus)  BY <1>1, <2>1, <2>2, LayoutLaid DEF Laid, Windows
    <2> QED  BY <1>3, <2>1, <2>3 DEF InGroup, Object
  <1> QED  BY <1>2, <1>3

Fills(s, value) ==
    /\ s \in Settings
    /\ s = "mConnectionMethod" => value \in 0 .. 2
    /\ s = "mLogLevel" => value \in 0 .. 4

\* A setting is given a value of its kind ...
LEMMA Filled ==
    ASSUME DOMAIN settings = Settings, Boxes(settings), NEW s, NEW value, Fills(s, value),
           settings' = [settings EXCEPT ![s] = value]
    PROVE  DOMAIN settings' = Settings /\ Boxes(settings')
  <1>1. DOMAIN settings' = Settings  OBVIOUS
  <1>2. "mConnectionMethod" \in Settings /\ "mLogLevel" \in Settings  BY SettingsListed
  <1>3. \A t \in Settings : settings'[t] = IF t = s THEN value ELSE settings[t]  OBVIOUS
  <1> QED  BY <1>1, <1>2, <1>3 DEF Boxes, Fills

\* ... and counts as changed late, if it is.
LEMMA SetKeeps ==
    ASSUME DOMAIN settings = Settings, Boxes(settings), late \subseteq Settings,
           NEW s, NEW value, Fills(s, value), Set(s, value)
    PROVE  DOMAIN settings' = Settings /\ Boxes(settings') /\ late' \subseteq Settings
  <1>1. settings' = [settings EXCEPT ![s] = value]  BY DEF Set
  <1>2. late' \subseteq Settings  BY DEF Set, Fills
  <1> QED  BY <1>1, <1>2, Filled

\* The window with another group in it.
LEMMA GroupReplaced ==
    ASSUME NEW w, WindowOK(w), InGroup(w), NEW h, GroupIsLit(h, TRUE), h.size = w.group.size
    PROVE  LET v == [w EXCEPT !.group = h]
           IN  WindowOK(v) /\ v.title = w.title /\ v.group = h
  <1> DEFINE v == [w EXCEPT !.group = h]
  <1>1. w \in Windows /\ h \in Groups  BY DEF WindowOK, IsLit, GroupIsLit
  <1>2. /\ v \in Windows /\ v.lit = w.lit /\ v.selected = w.selected /\ v.group = h
        /\ v.hidden = w.hidden /\ v.title = w.title
    BY <1>1 DEF Windows
  <1> HIDE DEF v
  <1>3. Layout(v) = Layout(w)  BY <1>2 DEF Layout
  <1>4. /\ v.lit = IF IsText(v, v.selected) THEN {} ELSE {v.selected}
        /\ IsGroup(v, v.selected) <=> TRUE
    BY <1>2, <1>3 DEF IsText, IsGroup, InGroup, Object, WindowOK, IsLit
  <1>5. GroupIsLit(v.group, IsGroup(v, v.selected))  BY <1>2, <1>4 DEF GroupIsLit
  <1>6. WindowOK(v)  BY <1>2, <1>3, <1>4, <1>5 DEF WindowOK, IsLit
  <1> QED  BY <1>2, <1>6 DEF v

\* What a key does keeps the window and the settings.
LEMMA KeyKeeps ==
    ASSUME UIInv, NEW key, KeyAction(key)
    PROVE  WindowInv' /\ ModelInv' /\ WishesTyped' /\ UNCHANGED <<controller, mWizardStep>>
  <1> USE DEF UIInv, ModelInv, WishesTyped
  <1>1. WindowOK(window) /\ window \in Windows /\ window.title \in Titles /\ Put(window.title, Focus)
    BY FocusBound DEF WindowInv, WindowOK, IsLit, Windows
  <1>2. CASE Navigate(key)
    <2>1. key \in Arrows /\ window' = HandleArrow(window, key)  BY <1>2 DEF Navigate
    <2>2. WindowOK(window') /\ Alike(window, window')  BY <1>1, <2>1, ArrowKeeps
    <2>3. UNCHANGED <<model, controller, mWizardStep, mThemeSelector, wishes>>  BY <1>2 DEF Navigate
    <2> QED  BY <2>2, <2>3 DEF WindowInv, Sized, Checked, Alike, model, wishes
  <1>3. CASE PressButton(key)
    <2>1. UNCHANGED <<view, mWifiAdapterList, mWifiAdapterSelection>>  BY <1>3 DEF PressButton
    <2>2. asked' \subseteq Flags /\ mWindowDone' \in {"none"} \cup Titles
      BY <1>1, <1>3 DEF PressButton
    <2>3. Fills("mTheme", Themes[mThemeSelector + 1])  BY SettingsListed DEF Fills
    <2>4. CASE UNCHANGED <<settings, late>>
      BY <2>1, <2>2, <2>4 DEF WindowInv, view
    <2>5. CASE Set("mTheme", Themes[mThemeSelector + 1])
      <3>1. DOMAIN settings' = Settings /\ Boxes(settings') /\ late' \subseteq Settings
        BY <2>3, <2>5, SetKeeps
      <3> QED  BY <2>1, <2>2, <3>1 DEF WindowInv, view
    <2> QED  BY <1>3, <2>4, <2>5 DEF PressButton
  <1>4. CASE PressCheckBox(key)
    <2>1. UNCHANGED <<view, mWifiAdapterList, mWifiAdapterSelection, asked, mWindowDone>>
      BY <1>4 DEF PressCheckBox
    <2>2. CASE UNCHANGED <<settings, late>>
      BY <2>1, <2>2 DEF WindowInv, view
    <2>3. CASE Focus.bound \in Settings /\ Set(Focus.bound, ~settings[Focus.bound])
      <3>1. Fills(Focus.bound, ~settings[Focus.bound])
        BY <1>1, <1>4, <2>3 DEF Fills, Put, Bound, PressCheckBox
      <3>2. DOMAIN settings' = Settings /\ Boxes(settings') /\ late' \subseteq Settings
        BY <2>3, <3>1, SetKeeps
      <3> QED  BY <2>1, <3>2 DEF WindowInv, view
    <2> QED  BY <1>4, <2>2, <2>3 DEF PressCheckBox
  <1>5. CASE PressRadioBox(key)
    <2> DEFINE g == window.group
    <2>1. /\ UNCHANGED <<mWifiAdapterList, controller, mWizardStep, asked, mWindowDone>>
          /\ window' = [window EXCEPT !.group = HandleSelect(g)]
      BY <1>5 DEF PressRadioBox
    <2>2. InGroup(window) /\ Focus.bound = Chosen(window.title) /\ Focus.bound # "nothing"
      BY <1>1, <1>5, FocusBound DEF PressRadioBox, Put, Bound
    <2>3. GroupIsLit(g, TRUE) /\ g \in Groups /\ g.index \in Nat
      BY <1>1, <2>2, InGroupLit DEF GroupIsLit, Groups
    <2>4. CASE ~Checks(g)
      <3>1. window' = window
        BY <1>1, <2>1, <2>4 DEF HandleSelect, Windows
      <3>2. UNCHANGED <<settings, late, mWifiAdapterSelection, mThemeSelector>>
        BY <1>5, <2>4 DEF PressRadioBox
      <3> QED  BY <2>1, <3>1, <3>2 DEF WindowInv
    <2>5. CASE Checks(g)
      <3> DEFINE h == HandleSelect(g)
      <3>1. h = [g EXCEPT !.checked = {g.index}] /\ g.index >= 1 /\ g.index <= g.size
        BY <2>3, <2>5 DEF HandleSelect, Checks, GroupIsLit, Groups
      <3>2. GroupIsLit(h, TRUE) /\ h.size = g.size /\ h.checked = {g.index} /\ h.index = g.index
        <4>1. h \in Groups /\ h.lit = g.lit /\ h.up = g.up /\ h.down = g.down
              /\ h.size = g.size /\ h.checked = {g.index} /\ h.index = g.index
          BY <2>3, <3>1 DEF Groups
        <4> HIDE DEF h
        <4> QED  BY <2>3, <4>1 DEF GroupIsLit
      <3> HIDE DEF h
      <3>3. WindowOK(window') /\ window'.title = window.title /\ window'.group = h
        BY <1>1, <2>1, <2>2, <3>2, GroupReplaced DEF h
      <3>4. Sized(window')  BY <3>2, <3>3 DEF Sized, WindowInv
      <3>5. CASE window.title \in OptionSteps
        <4>1. Focus.bound = "mWifiAdapterSelection"  BY <2>2, <3>5, ChosenNames
        <4>2. mWifiAdapterSelection' = g.index - 1 /\ UNCHANGED <<settings, late>>
          BY <1>5, <2>5, <4>1, SettingsListed DEF PressRadioBox
        <4>3. mWifiAdapterSelection' \in Nat /\ mWifiAdapterSelection' + 1 = g.index
          BY <2>3, <3>1, <4>2
        <4> QED  BY <2>1, <3>2, <3>3, <3>4, <4>2, <4>3 DEF WindowInv, Checked
      <3>6. CASE window.title \notin OptionSteps
        <4>1. Checked(window', mWifiAdapterSelection')  BY <3>3, <3>6 DEF Checked
        <4>2. CASE Focus.bound \in Settings
          <5>1. Set(Focus.bound, g.index - 1) /\ UNCHANGED mWifiAdapterSelection
            BY <1>5, <2>5, <4>2, SettingsListed DEF PressRadioBox
          <5>2. Fills(Focus.bound, g.index - 1)
            <6>1. /\ Focus.bound = "mConnectionMethod" => window.title = "Set-Up Wizard"
                  /\ Focus.bound = "mLogLevel" => window.title = "Options"
              BY <2>2 DEF Chosen
            <6>2. /\ Focus.bound = "mConnectionMethod" => g.size = 3
                  /\ Focus.bound = "mLogLevel" => g.size = 5
              BY <6>1 DEF WindowInv, Sized
            <6> QED  BY <2>3, <3>1, <4>2, <6>2 DEF Fills
          <5>3. DOMAIN settings' = Settings /\ Boxes(settings') /\ late' \subseteq Settings
            BY <5>1, <5>2, SetKeeps
          <5> QED  BY <2>1, <3>3, <3>4, <4>1, <5>1, <5>3 DEF WindowInv
        <4>3. CASE Focus.bound \notin Settings
          <5>1. UNCHANGED <<settings, late>> /\ mWifiAdapterSelection' \in {mWifiAdapterSelection, g.index - 1}
            <6>1. Focus.bound \in {"mWifiAdapterSelection", "mThemeSelector"}
              BY <2>2, <4>3, SettingsListed DEF Chosen
            <6> QED  BY <1>5, <2>5, <4>3, <6>1 DEF PressRadioBox
          <5>2. mWifiAdapterSelection' \in Nat  BY <2>3, <3>1, <5>1
          <5> QED  BY <2>1, <3>3, <3>4, <4>1, <5>1, <5>2 DEF WindowInv
        <4> QED  BY <4>2, <4>3
      <3> QED  BY <3>5, <3>6
    <2> QED  BY <2>4, <2>5
  <1>6. CASE Type(key)
    <2>1. UNCHANGED <<view, mWifiAdapterList, mWifiAdapterSelection, asked, mWindowDone>>
      BY <1>6 DEF Type
    <2>2. \A value : Fills(Focus.bound, value)
      BY <1>1, <1>6 DEF Type, Fills, Put, Bound
    <2>3. DOMAIN settings' = Settings /\ Boxes(settings') /\ late' \subseteq Settings
      BY <1>6, <2>2, SetKeeps DEF Type
    <2> QED  BY <2>1, <2>3 DEF WindowInv, view
  <1>7. CASE Quit(key)
    BY <1>7 DEF Quit, Flags, WindowInv, view, model
  <1>8. CASE Ignore(key)
    BY <1>8 DEF Ignore, WindowInv, view, model, wishes
  <1> QED  BY <1>2, <1>3, <1>4, <1>5, <1>6, <1>7, <1>8 DEF KeyAction

-----------------------------------------------------------------------------
(* M keeps the invariant.                                                  *)

\* The settings of a file, or of none, are ones the windows can show.
LEMMA SettingsFound ==
    /\ DOMAIN Default = Settings /\ Boxes(Default)
    /\ \A lines : DOMAIN LoadFromFile(lines) = Settings
    /\ \A lines : Boxes(lines) => Boxes(LoadFromFile(lines))
  <1>1. "mConnectionMethod" \in Settings /\ "mLogLevel" \in Settings  BY SettingsListed
  <1>2. DOMAIN Default = Settings  BY DEF Default
  <1>3. Default["mConnectionMethod"] = 0 /\ Default["mLogLevel"] = 4  BY <1>1 DEF Default, Levels
  <1>4. Boxes(Default)  BY <1>3 DEF Boxes
  <1>5. ASSUME NEW lines
        PROVE  /\ DOMAIN LoadFromFile(lines) = Settings
               /\ Boxes(lines) => Boxes(LoadFromFile(lines))
    <2>1. DOMAIN LoadFromFile(lines) = Settings  BY DEF LoadFromFile
    <2>2. \A s \in Settings :
            LoadFromFile(lines)[s] = IF s \in DOMAIN lines THEN lines[s] ELSE Default[s]
      BY DEF LoadFromFile
    <2> QED  BY <1>1, <1>3, <2>1, <2>2 DEF Boxes
  <1> QED  BY <1>2, <1>4, <1>5

\* The HUD is shown as it is set up.
LEMMA HUDShown ==
    New(ShowHUD) /\ New(ShowHUD')
  BY PlainShown DEF ShowHUD

\* The windows the wizard and the HUD put in view.
LEMMA WizardKeeps ==
    ASSUME UIInv, WizardLeavesSelector \/ WizardFillsAdapters \/ WizardTakesAdapter \/ WizardIsDone
    PROVE  UIInv'
  <1> USE DEF UIInv
  <1>1. CASE WizardLeavesSelector
    <2>1. /\ UNCHANGED <<keyboard, model, controller, window, mThemeSelector, asked, late, after, disk>>
          /\ mWindowDone' = "none" /\ pcM' = "fill"
          /\ mWizardStep' = Methods[settings["mConnectionMethod"] + 1]
      BY <1>1 DEF WizardLeavesSelector
    <2>2. mWizardStep' \in OptionSteps
      <3>1. settings["mConnectionMethod"] \in {0, 1, 2}  BY SettingsListed DEF ModelInv, Boxes
      <3>2. Methods[0 + 1] \in OptionSteps /\ Methods[1 + 1] \in OptionSteps /\ Methods[2 + 1] \in OptionSteps
        BY DEF Methods, OptionSteps
      <3> QED  BY <2>1, <3>1, <3>2
    <2>3. KeyboardTypeOK'  BY <2>1, KeyboardTyped
    <2>4. WindowInv' /\ ModelInv'  BY <2>1 DEF WindowInv, ModelInv, model
    <2>5. WishesTyped' /\ TurnInv' /\ DiskInv'
      BY <2>1, <2>2 DEF WishesTyped, TurnInv, DiskInv, disk
    <2> QED  BY <2>3, <2>4, <2>5
  <1>2. CASE WizardFillsAdapters
    <2>1. PICK list \in Scans \cup {mWifiAdapterList} :
             mWifiAdapterList' = list /\ window' = ShowOptionsStep(mWizardStep, list)
      BY <1>2 DEF WizardFillsAdapters
    <2>2. /\ UNCHANGED <<keyboard, settings, mWifiAdapterSelection, controller, mWizardStep,
                         mThemeSelector, wishes, after, disk>>
          /\ pcM = "fill" /\ pcM' = "turn"
      BY <1>2 DEF WizardFillsAdapters
    <2>3. list \in {<<>>} \cup Scans /\ Len(list) \in Nat
      BY UserInterfaceAssumption DEF ModelInv
    <2>4. New(window')  BY <2>1, <2>2, <2>3, StepShown DEF TurnInv
    <2>5. KeyboardTypeOK'  BY <2>2, KeyboardTyped
    <2>6. WindowInv' /\ ModelInv'  BY <2>1, <2>2, <2>3, <2>4 DEF WindowInv, ModelInv, New
    <2>7. WishesTyped' /\ TurnInv' /\ DiskInv'
      BY <2>2 DEF WishesTyped, TurnInv, DiskInv, disk, wishes
    <2> QED  BY <2>5, <2>6, <2>7
  <1>3. CASE WizardTakesAdapter
    <2>1. /\ UNCHANGED <<mWifiAdapterList, mWifiAdapterSelection, controller, mThemeSelector, asked,
                         late, after, disk>>
          /\ mWindowDone' = "none" /\ pcM = "turn"
      BY <1>3 DEF WizardTakesAdapter, Turns
    <2>2. CASE mWifiAdapterSelection + 1 \in DOMAIN mWifiAdapterList
      <3> DEFINE adapter == mWifiAdapterList[mWifiAdapterSelection + 1]
      <3>1. /\ settings' = [settings EXCEPT !["mWifiAdapter"] = adapter]
            /\ mWizardStep' = "XLink Kai options" /\ window' = ShowXLinkStep
            /\ UNCHANGED <<keyboard, pcM>>
        BY <1>3, <2>2 DEF WizardTakesAdapter
      <3> HIDE DEF adapter
      <3>2. Fills("mWifiAdapter", adapter)  BY SettingsListed DEF Fills
      <3>3. DOMAIN settings' = Settings /\ Boxes(settings')
        BY <3>1, <3>2, Filled DEF ModelInv
      <3>4. KeyboardTypeOK'  BY <3>1, KeyboardTyped
      <3>5. WindowInv' /\ ModelInv'
        BY <2>1, <3>1, <3>3, PlainShown DEF WindowInv, ModelInv, New
      <3>6. WishesTyped' /\ TurnInv' /\ DiskInv'
        BY <2>1, <3>1 DEF WishesTyped, TurnInv, DiskInv, disk
      <3> QED  BY <3>4, <3>5, <3>6
    <2>3. CASE mWifiAdapterSelection + 1 \notin DOMAIN mWifiAdapterList
      <3>1. pcM' = "crashed" /\ ThreadDies /\ UNCHANGED <<settings, mWizardStep, window>>
        BY <1>3, <2>3 DEF WizardTakesAdapter
      <3>2. KeyboardTypeOK'  BY <3>1, KeyboardTyped
      <3>3. WindowInv' /\ ModelInv'  BY <2>1, <3>1 DEF WindowInv, ModelInv
      <3>4. WishesTyped' /\ TurnInv' /\ DiskInv'
        BY <2>1, <3>1 DEF WishesTyped, TurnInv, DiskInv, disk
      <3> QED  BY <3>2, <3>3, <3>4
    <2> QED  BY <2>2, <2>3
  <1>4. CASE WizardIsDone
    <2>1. /\ UNCHANGED <<keyboard, model, view, asked, late, disk>>
          /\ mWindowDone' = "none" /\ pcM' = "open" /\ after' = "wizard"
      BY <1>4 DEF WizardIsDone
    <2>2. KeyboardTypeOK'  BY <2>1, KeyboardTyped
    <2>3. WindowInv' /\ ModelInv'  BY <2>1 DEF WindowInv, ModelInv, model, view
    <2>4. WishesTyped' /\ TurnInv' /\ DiskInv'
      BY <2>1 DEF WishesTyped, TurnInv, DiskInv, disk, view
    <2> QED  BY <2>2, <2>3, <2>4
  <1> QED  BY <1>1, <1>2, <1>3, <1>4

\* What the HUD decides.
LEMMA HUDKeeps ==
    ASSUME UIInv, HUDDecides
    PROVE  UIInv'
  <1> USE DEF UIInv
  <1>1. /\ UNCHANGED <<keyboard, model, controller, mWizardStep, late, disk>>
        /\ asked' = asked \cap {"mWizardSelected", "mStopProgram"} /\ mWindowDone' = "none"
        /\ after' = "HUD" /\ pcM' \in {"hand", "open"}
        /\ window' \in {ShowTheme, ShowAbout, ShowOptions, window}
    BY DEF HUDDecides
  <1>2. New(ShowTheme) /\ New(ShowAbout) /\ New(ShowOptions)
    BY ThemeShown, PlainShown, OptionsShown, SettingsListed DEF ModelInv, Boxes
  <1>3. KeyboardTypeOK'  BY <1>1, KeyboardTyped
  <1>4. ModelInv' /\ DiskInv' /\ WishesTyped' /\ TurnInv'
    BY <1>1 DEF ModelInv, model, DiskInv, disk, WishesTyped, TurnInv
  <1>5. WindowInv'
    <2>1. CASE window' = window  BY <1>1, <2>1 DEF WindowInv, model
    <2>2. CASE New(window')  BY <2>2 DEF WindowInv, New
    <2> QED  BY <1>1, <1>2, <2>1, <2>2
  <1> QED  BY <1>3, <1>4, <1>5

\* The file is written from the settings.
LEMMA SaveKeeps ==
    ASSUME UIInv, MOpenFile \/ MSaveLine \/ MSaved \/ MHandOver
    PROVE  UIInv'
  <1> USE DEF UIInv
  <1>1. CASE MOpenFile
    <2>1. /\ UNCHANGED <<keyboard, model, view, wishes, after>>
          /\ pcM' = "save" /\ exists' = TRUE /\ file' = NoLines
      BY <1>1 DEF MOpenFile
    <2>2. KeyboardTypeOK'  BY <2>1, KeyboardTyped
    <2>3. WindowInv' /\ ModelInv' /\ WishesTyped' /\ TurnInv'
      BY <2>1 DEF WindowInv, ModelInv, WishesTyped, TurnInv, model, view, wishes
    <2>4. DOMAIN file' = {}  BY <2>1 DEF NoLines
    <2>5. DiskInv'  BY <2>1, <2>4 DEF DiskInv, Boxes
    <2> QED  BY <2>2, <2>3, <2>5
  <1>2. CASE MSaveLine
    <2>1. UNCHANGED <<keyboard, model, view, wishes, pcM, after, exists>>  BY <1>2 DEF MSaveLine
    <2>2. PICK s \in Kept : file' = [t \in DOMAIN file \cup {s} |->
                                       IF t = s THEN settings[t] ELSE file[t]]
      BY <1>2 DEF MSaveLine, Unwritten
    <2>3. KeyboardTypeOK'  BY <2>1, KeyboardTyped
    <2>4. WindowInv' /\ ModelInv' /\ WishesTyped' /\ TurnInv'
      BY <2>1 DEF WindowInv, ModelInv, WishesTyped, TurnInv, model, view, wishes
    <2>5. /\ DOMAIN file' = DOMAIN file \cup {s}
          /\ \A t \in DOMAIN file' : file'[t] = IF t = s THEN settings[t] ELSE file[t]
      BY <2>2
    <2>6. s \in DOMAIN settings  BY UserInterfaceAssumption DEF ModelInv
    <2>7. Boxes(file')  BY <2>5, <2>6 DEF Boxes, DiskInv, ModelInv
    <2>8. DiskInv'  BY <2>1, <2>5, <2>7 DEF DiskInv
    <2> QED  BY <2>3, <2>4, <2>8
  <1>3. CASE MSaved
    <2>1. UNCHANGED <<keyboard, model, wishes, disk>>  BY <1>3 DEF MSaved
    <2>2. KeyboardTypeOK' /\ ModelInv' /\ WishesTyped' /\ DiskInv'
      BY <2>1, KeyboardTyped DEF ModelInv, WishesTyped, DiskInv, model, wishes, disk
    <2>3. pcM' \in {"open", "hand"} /\ after' \in {after, "wizard"}  BY <1>3 DEF MSaved
    <2>4. CASE UNCHANGED view
      BY <2>1, <2>2, <2>3, <2>4 DEF WindowInv, TurnInv, view, model
    <2>5. CASE controller' = "HUD" /\ window' = ShowHUD /\ mWizardStep' = "Set-Up Wizard"
      BY <2>2, <2>3, <2>5, HUDShown DEF WindowInv, TurnInv, New
    <2> QED  BY <1>3, <2>4, <2>5 DEF MSaved
  <1>4. CASE MHandOver
    <2>1. /\ UNCHANGED <<keyboard, model, mWizardStep, mWindowDone, late, disk>>
          /\ asked' \subseteq asked /\ pcM' \in {"turn", "stop"} /\ after' \in {after, "HUD"}
          /\ \/ controller' = "wizard" /\ window' = ShowSelector
             \/ UNCHANGED <<controller, window>>
      BY <1>4 DEF MHandOver
    <2>2. KeyboardTypeOK' /\ ModelInv' /\ WishesTyped' /\ DiskInv'
      BY <2>1, KeyboardTyped DEF ModelInv, WishesTyped, DiskInv, model, disk
    <2>3. TurnInv'  BY <2>1 DEF TurnInv
    <2>4. WindowInv'  BY <2>1, SelectorShown DEF WindowInv, New, model
    <2> QED  BY <2>2, <2>3, <2>4
  <1> QED  BY <1>1, <1>2, <1>3, <1>4

\* The rest of the main loop.
LEMMA LoopKeeps ==
    ASSUME UIInv,
           \/ MDraws \/ MEndsTurn \/ MInterrupt \/ MStopThread \/ MJoinThread \/ MLaunch \/ Kill
    PROVE  UIInv'
  <1> USE DEF UIInv
  <1>1. CASE MDraws
    <2>1. /\ UNCHANGED <<keyboard, model, controller, mWizardStep, mThemeSelector, wishes, pcM, after, disk>>
          /\ window' = Drawn(window)
      BY <1>1 DEF MDraws
    <2>2. KeyboardTypeOK' /\ ModelInv' /\ WishesTyped' /\ DiskInv' /\ TurnInv'
      BY <2>1, KeyboardTyped DEF ModelInv, WishesTyped, DiskInv, TurnInv, model, wishes, disk
    <2>3. WindowInv'  BY <2>1, DrawnKeeps DEF WindowInv, Sized, Checked, model
    <2> QED  BY <2>2, <2>3
  <1>2. CASE MEndsTurn \/ MInterrupt \/ MStopThread \/ MJoinThread
    <2>1. /\ UNCHANGED <<model, view, wishes, disk>> /\ pcM' \in {"open", "stop", "join", "ended"}
          /\ after' \in {after, "stop"}
          /\ UNCHANGED keyboard \/ AskThread \/ JoinThread
      BY <1>2 DEF MEndsTurn, MInterrupt, MStopThread, MJoinThread
    <2>2. KeyboardTypeOK'  BY <2>1, KeyboardTyped
    <2>3. WindowInv' /\ ModelInv' /\ WishesTyped' /\ DiskInv' /\ TurnInv'
      BY <2>1 DEF WindowInv, ModelInv, WishesTyped, DiskInv, TurnInv, model, view, wishes, disk
    <2> QED  BY <2>2, <2>3
  <1>3. CASE MLaunch
    <2>1. /\ pcM' = "turn" /\ Fresh /\ StartThread /\ UNCHANGED disk
          /\ settings' \in {LoadFromFile(file), Default}
          /\ controller' \in {"HUD", "wizard"} /\ window' \in {ShowHUD', ShowSelector}
      BY <1>3 DEF MLaunch
    <2>2. KeyboardTypeOK' /\ DiskInv'  BY <2>1, KeyboardTyped DEF DiskInv, disk
    <2>3. ModelInv' /\ WishesTyped' /\ TurnInv'
      BY <2>1, SettingsFound DEF ModelInv, WishesTyped, TurnInv, Fresh, DiskInv
    <2>4. WindowInv'  BY <2>1, SelectorShown, HUDShown DEF WindowInv, New
    <2> QED  BY <2>2, <2>3, <2>4
  <1>4. CASE Kill
    <2>1. /\ pcM' = "off" /\ Fresh /\ ThreadDies /\ UNCHANGED disk
          /\ settings' = Default /\ controller' = "wizard" /\ window' = ShowSelector
      BY <1>4 DEF Kill
    <2>2. KeyboardTypeOK' /\ DiskInv'  BY <2>1, KeyboardTyped DEF DiskInv, disk
    <2>3. ModelInv' /\ WishesTyped' /\ TurnInv'
      BY <2>1, SettingsFound DEF ModelInv, WishesTyped, TurnInv, Fresh
    <2>4. WindowInv'  BY <2>1, SelectorShown DEF WindowInv, New
    <2> QED  BY <2>2, <2>3, <2>4
  <1> QED  BY <1>1, <1>2, <1>3, <1>4

-----------------------------------------------------------------------------
(* The theorems.                                                           *)

\* The beginning and the steps together.
LEMMA KeyboardStart == KeyboardInit => KeyboardTypeOK
  <1> SUFFICES ASSUME KeyboardInit PROVE KeyboardTypeOK
    OBVIOUS
  <1>1. /\ lComboKeyPressed \in BOOLEAN /\ lKeyIsKeypad \in BOOLEAN
        /\ mRunning \in BOOLEAN /\ mDone \in BOOLEAN
    BY Zenon DEF KeyboardInit
  <1>2. lNumCyclesSinceComboKeyPressed \in 0 .. Patience  BY DEF KeyboardInit, Patience
  <1>3. pcK \in {"none", "started", "getch", "returned"}  BY DEF KeyboardInit
  <1> QED  BY <1>1, <1>2, <1>3, Zenon DEF KeyboardTypeOK

LEMMA UIStart == Init => UIInv
  <1> SUFFICES ASSUME Init PROVE UIInv
    OBVIOUS
  <1> USE DEF Init
  <1>1. KeyboardTypeOK  BY KeyboardStart
  <1>2. WindowInv  BY SelectorShown DEF WindowInv, New
  <1>3. ModelInv /\ WishesTyped  BY SettingsFound DEF ModelInv, WishesTyped
  <1>4. TurnInv  BY DEF TurnInv
  <1>5. DiskInv  BY DEF DiskInv, Boxes, NoLines
  <1> QED  BY <1>1, <1>2, <1>3, <1>4, <1>5 DEF UIInv

LEMMA UIStep == UIInv /\ [Next]_vars => UIInv'
  <1> SUFFICES ASSUME UIInv, [Next]_vars PROVE UIInv'
    OBVIOUS
  <1>1. ASSUME NEW key \in Keys, KKey(key) PROVE UIInv'
    <2>1. Turn(key) /\ KeyAction(Delivered(key)) /\ UNCHANGED <<pcM, after, disk>>
      BY <1>1 DEF KKey
    <2>2. KeyboardTypeOK'  BY <2>1, KeyboardTyped DEF UIInv
    <2>3. WindowInv' /\ ModelInv' /\ WishesTyped' /\ UNCHANGED <<controller, mWizardStep>>
      BY <2>1, KeyKeeps
    <2>4. TurnInv' /\ DiskInv'  BY <2>1, <2>3 DEF UIInv, TurnInv, DiskInv, disk
    <2> QED  BY <2>2, <2>3, <2>4 DEF UIInv
  <1>2. CASE KStart \/ UNCHANGED vars
    <2>1. UNCHANGED <<ui>> /\ (KBegin \/ UNCHANGED keyboard)  BY <1>2 DEF KStart, vars
    <2>2. KeyboardTypeOK'  BY <2>1, KeyboardTyped DEF UIInv
    <2> QED
      BY <2>1, <2>2
         DEF UIInv, WindowInv, ModelInv, WishesTyped, TurnInv, DiskInv, ui, model, view, wishes, disk
  <1>3. CASE M
    BY <1>3, WizardKeeps, HUDKeeps, SaveKeeps, LoopKeeps DEF M
  <1>4. CASE MLaunch \/ MInterrupt \/ Kill  BY <1>4, LoopKeeps
  <1> QED  BY <1>1, <1>2, <1>3, <1>4 DEF Next, K

\* The invariant of the user interface: keyboard, window, settings, wishes, loop and file.
THEOREM UIInvariant == Spec => []UIInv
  <1> QED  BY UIStart, UIStep, PTL DEF Spec

\* The type invariant: whatever the keys and the file do, the selection is an object of the window
\* in view, a group's index one of its boxes, and the method and the log level ones there are
\* (Window.cpp, RadioBoxGroup.cpp, WindowModel.cpp).
THEOREM UserInterfaceTyped == Spec => []TypeOK
  <1>1. UIInv => TypeOK
    <2> SUFFICES ASSUME UIInv PROVE TypeOK
      OBVIOUS
    <2>1. WindowOK(window) /\ window \in Windows /\ window.group \in Groups
      BY DEF UIInv, WindowInv, WindowOK, IsLit, Windows
    <2>2. Laid(window.title, Layout(window))  BY <2>1, LayoutLaid DEF Windows
    <2>3. window.title \in Titles /\ window.selected \in 0 .. Len(Layout(window))
      BY <2>1, <2>2 DEF Windows, WindowOK, Laid
    <2>4. window.lit \subseteq DOMAIN Layout(window) /\ window.hidden \subseteq DOMAIN Layout(window)
      BY <2>1, <2>2, <2>3 DEF WindowOK, IsLit, IsText, Laid
    <2>5. window.group.index \in 0 .. IF window.group.size = 0 THEN 1 ELSE window.group.size
      BY <2>1 DEF WindowOK, IsLit, GroupIsLit, Groups
    <2>6. /\ settings["mConnectionMethod"] \in 0 .. Len(Methods) - 1
          /\ settings["mLogLevel"] \in 0 .. Levels - 1
      BY SettingsListed DEF UIInv, ModelInv, Boxes, Methods, Levels
    <2> QED  BY <2>3, <2>4, <2>5, <2>6
                DEF UIInv, TypeOK, ModelInv, WishesTyped, TurnInv, DiskInv
  <1> QED  BY <1>1, UIInvariant, PTL

\* The object that is selected is the one that is lit, and of a group the box its index stands for
\* (Window.cpp:182-264, RadioBoxGroup.cpp:64-129).
THEOREM SelectedIsLit == Spec => []OneIsLit
  <1>1. UIInv => OneIsLit
    <2> SUFFICES ASSUME UIInv PROVE OneIsLit
      OBVIOUS
    <2>1. WindowOK(window) /\ window \in Windows /\ window.group \in Groups
      BY DEF UIInv, WindowInv, WindowOK, IsLit, Windows
    <2>2. Laid(window.title, Layout(window))  BY <2>1, LayoutLaid DEF Windows
    <2>3. window.selected = 0 \/ window.selected \in DOMAIN Layout(window)
      BY <2>1, <2>2 DEF Windows, WindowOK, Laid
    <2>4. window.lit = {window.selected} \
             ({0} \cup {i \in DOMAIN Layout(window) : Object(window, i).kind = "String"})
      BY <2>1, <2>3 DEF WindowOK, IsLit, IsText
    <2>5. window.group.lit = IF InGroup(window) /\ window.group.size > 0 THEN {window.group.index} ELSE {}
      BY <2>1 DEF WindowOK, IsLit, GroupIsLit, IsGroup, InGroup
    <2> QED  BY <2>4, <2>5 DEF OneIsLit
  <1> QED  BY <1>1, UIInvariant, PTL

\* No box and no row is a place the up and the down key cannot leave, and none they jump over
\* (RadioBoxGroup.cpp:64-101, Window.cpp:182-264).
THEOREM ArrowsLead == Spec => []ArrowsMakeProgress
  <1>1. UIInv => ArrowsMakeProgress
    <2> SUFFICES ASSUME UIInv, window.selected # 0 PROVE ArrowsMakeProgress
      BY DEF ArrowsMakeProgress
    <2> DEFINE lower  == HandleArrow(window, "down")
               higher == HandleArrow(window, "up")
               box    == window.group.index
    <2>1. WindowOK(window) /\ window \in Windows /\ window.group \in Groups
      BY DEF UIInv, WindowInv, WindowOK, IsLit, Windows
    <2>2. lower = AdvanceSelectionVertical(window) /\ higher = RecedeSelectionVertical(window)
      BY DEF HandleArrow
    <2> HIDE DEF lower, higher
    <2>3. /\ Alike(window, lower)
          /\ IF InGroup(window) /\ box < window.group.size
             THEN lower.selected = window.selected /\ lower.group.index = box + 1
             ELSE IF Below(window) = {} THEN lower = window ELSE lower.selected \in Below(window)
      BY <2>1, <2>2, DownMoves
    <2>4. /\ Alike(window, higher)
          /\ IF InGroup(window) /\ box > 1
             THEN higher.selected = window.selected /\ higher.group.index = box - 1
             ELSE IF Above(window) = {} THEN higher = window ELSE higher.selected \in Above(window)
      BY <2>1, <2>2, UpMoves
    <2>5. Layout(lower) = Layout(window) /\ Layout(higher) = Layout(window)
      BY <2>3, <2>4, AlikeLayout
    <2>6. ASSUME NEW i \in Below(window), lower.selected = i PROVE Row(lower) > Row(window)
      BY <2>5, <2>6 DEF Below, Row, Object
    <2>7. ASSUME NEW i \in Above(window), higher.selected = i PROVE Row(higher) < Row(window)
      BY <2>5, <2>7 DEF Above, Row, Object
    <2>8. (CASE InGroup(window) /\ box < window.group.size -> Stands(lower, box + 1)
             [] OTHER -> Row(lower) > Row(window) \/ (lower = window /\ Below(window) = {}))
      BY <2>3, <2>6 DEF Stands
    <2>9. (CASE InGroup(window) /\ box > 1 -> Stands(higher, box - 1)
             [] OTHER -> Row(higher) < Row(window) \/ (higher = window /\ Above(window) = {}))
      BY <2>4, <2>7 DEF Stands
    <2> QED  BY <2>8, <2>9, Zenon DEF ArrowsMakeProgress, lower, higher
  <1> QED  BY <1>1, UIInvariant, PTL

\* The adapter the wizard takes is the one whose box the user sees checked
\* (WizardController.cpp, WindowModel.cpp).
THEOREM TakenIsChecked == Spec => CheckedIsTaken
  <1> DEFINE Taken == \A box \in window.group.checked : settings'["mWifiAdapter"] = mWifiAdapterList[box]
  <1>1. UIInv /\ WizardTakesAdapter /\ pcM' # "crashed" /\ window.title \in OptionSteps => Taken
    <2> SUFFICES ASSUME UIInv, WizardTakesAdapter, pcM' # "crashed", window.title \in OptionSteps,
                        NEW box \in window.group.checked
                 PROVE  settings'["mWifiAdapter"] = mWifiAdapterList[box]
      OBVIOUS
    <2>1. box = mWifiAdapterSelection + 1  BY DEF UIInv, WindowInv, Checked
    <2>2. settings' = [settings EXCEPT !["mWifiAdapter"] = mWifiAdapterList[mWifiAdapterSelection + 1]]
      BY DEF WizardTakesAdapter
    <2>3. "mWifiAdapter" \in DOMAIN settings  BY SettingsListed DEF UIInv, ModelInv
    <2> QED  BY <2>1, <2>2, <2>3
  <1>2. UIInv => [WizardTakesAdapter /\ pcM' # "crashed" /\ window.title \in OptionSteps => Taken]_vars
    BY <1>1
  <1> QED  BY <1>2, UIInvariant, PTL DEF CheckedIsTaken

-----------------------------------------------------------------------------
(* A program that is told to stop: what is in the file is what the         *)
(* settings are, except for what was changed since; the file is only       *)
(* opened again by a program that stops no more.                           *)
Stopping == after = "stop"
StopInv ==
    Stopping =>
        /\ pcM \in {"open", "save", "hand", "stop", "join", "ended"} /\ "mStopProgram" \in asked
        /\ pcM # "open" => \A s \in DOMAIN file \ late : file[s] = settings[s]
        /\ pcM \notin {"open", "save"} => Kept \subseteq DOMAIN file

\* A key that comes after the stop changes only what is late.
LEMMA KeysAreLate ==
    ASSUME UIInv, "mStopProgram" \in asked, NEW key, KeyAction(key)
    PROVE  /\ "mStopProgram" \in asked' /\ late \subseteq late'
           /\ \A s \in Settings \ late' : settings'[s] = settings[s]
  <1>1. ASSUME NEW s, NEW value, Set(s, value)
        PROVE  late \subseteq late' /\ \A t \in Settings \ late' : settings'[t] = settings[t]
    <2>1. settings' = [settings EXCEPT ![s] = value] /\ late' = late \cup {s}  BY <1>1 DEF Set
    <2>2. DOMAIN settings = Settings  BY DEF UIInv, ModelInv
    <2> QED  BY <2>1, <2>2
  <1>2. CASE UNCHANGED <<settings, late>>
    <2>1. "mStopProgram" \in asked'
      BY DEF KeyAction, Navigate, PressButton, PressCheckBox, PressRadioBox, Type, Quit, Ignore, wishes
    <2> QED  BY <1>2, <2>1
  <1>3. ASSUME NEW s, NEW value, Set(s, value), UNCHANGED asked
        PROVE  /\ "mStopProgram" \in asked' /\ late \subseteq late'
               /\ \A t \in Settings \ late' : settings'[t] = settings[t]
    BY <1>1, <1>3
  <1>4. CASE Navigate(key) \/ Quit(key) \/ Ignore(key)
    BY <1>2, <1>4 DEF Navigate, Quit, Ignore, model, wishes
  <1>5. CASE PressButton(key)
    <2>1. "mStopProgram" \in asked'  BY <1>5 DEF PressButton
    <2>2. UNCHANGED <<settings, late>> \/ Set("mTheme", Themes[mThemeSelector + 1])
      BY <1>5 DEF PressButton
    <2> QED  BY <1>1, <1>2, <2>1, <2>2
  <1>6. CASE PressCheckBox(key)
    <2>1. UNCHANGED <<settings, late>> \/ Set(Focus.bound, ~settings[Focus.bound])
      BY <1>6 DEF PressCheckBox
    <2>2. UNCHANGED asked  BY <1>6 DEF PressCheckBox
    <2> QED  BY <1>2, <1>3, <2>1, <2>2
  <1>7. CASE PressRadioBox(key)
    <2>1. UNCHANGED asked  BY <1>7 DEF PressRadioBox
    <2>2. UNCHANGED <<settings, late>> \/ Set(Focus.bound, window.group.index - 1)
      <3>1. Focus.bound = Chosen(window.title) /\ Focus.bound # "nothing"
        BY <1>7, FocusBound DEF PressRadioBox, Put, Bound, UIInv, WindowInv
      <3>2. Focus.bound \in Settings \cup {"mWifiAdapterSelection", "mThemeSelector"}
        BY <3>1, SettingsListed DEF Chosen
      <3> QED  BY <1>7, <3>2, SettingsListed DEF PressRadioBox
    <2> QED  BY <1>2, <1>3, <2>1, <2>2
  <1>8. CASE Type(key)
    <2>1. UNCHANGED asked /\ \E value : Set(Focus.bound, value)  BY <1>8 DEF Type
    <2> QED  BY <1>3, <2>1
  <1> QED  BY <1>4, <1>5, <1>6, <1>7, <1>8 DEF KeyAction

\* No step of a program that stops unsettles the file.
LEMMA StopStep == UIInv /\ StopInv /\ [Next]_vars => StopInv'
  <1> SUFFICES ASSUME UIInv, StopInv, [Next]_vars, Stopping' PROVE StopInv'
    BY DEF StopInv
  <1> USE DEF Stopping
  <1>1. ASSUME NEW key \in Keys, KKey(key) PROVE StopInv'
    <2>1. KeyAction(Delivered(key)) /\ UNCHANGED <<pcM, after, disk>>  BY <1>1 DEF KKey
    <2>2. /\ "mStopProgram" \in asked' /\ late \subseteq late'
          /\ \A s \in Settings \ late' : settings'[s] = settings[s]
      BY <2>1, KeysAreLate DEF StopInv
    <2>3. DOMAIN file \subseteq Settings  BY UserInterfaceAssumption DEF UIInv, DiskInv
    <2> QED  BY <2>1, <2>2, <2>3 DEF StopInv, disk
  <1>2. CASE KStart \/ UNCHANGED vars
    BY <1>2 DEF KStart, StopInv, vars, ui, model, wishes, disk
  <1>3. CASE MDraws \/ MInterrupt \/ WizardLeavesSelector \/ WizardFillsAdapters \/ WizardTakesAdapter
    BY <1>3 DEF MDraws, MInterrupt, WizardLeavesSelector, WizardFillsAdapters, WizardTakesAdapter, Turns,
                StopInv
  <1>4. CASE WizardIsDone \/ HUDDecides \/ MLaunch \/ Kill
    BY <1>4 DEF WizardIsDone, HUDDecides, MLaunch, Kill, Fresh
  <1>5. CASE MEndsTurn
    BY <1>5 DEF MEndsTurn, StopInv, wishes
  <1>6. CASE MOpenFile
    <2>1. /\ UNCHANGED <<model, wishes, after>> /\ pcM = "open" /\ pcM' = "save" /\ file' = NoLines
      BY <1>6 DEF MOpenFile
    <2>2. DOMAIN file' = {}  BY <2>1 DEF NoLines
    <2> QED  BY <2>1, <2>2 DEF StopInv, wishes
  <1>7. CASE MSaveLine
    <2>1. UNCHANGED <<model, wishes, pcM, after>> /\ pcM = "save"  BY <1>7 DEF MSaveLine
    <2>2. PICK s : file' = [t \in DOMAIN file \cup {s} |-> IF t = s THEN settings[t] ELSE file[t]]
      BY <1>7 DEF MSaveLine
    <2>3. /\ DOMAIN file' = DOMAIN file \cup {s}
          /\ \A t \in DOMAIN file' : file'[t] = IF t = s THEN settings[t] ELSE file[t]
      BY <2>2
    <2> QED  BY <2>1, <2>3 DEF StopInv, wishes, model
  <1>8. CASE MSaved
    BY <1>8 DEF MSaved, StopInv, Unwritten, model, wishes, disk
  <1>9. CASE MHandOver
    BY <1>9 DEF MHandOver, StopInv, model, disk
  <1>10. CASE MStopThread \/ MJoinThread
    BY <1>10 DEF MStopThread, MJoinThread, StopInv, model, wishes, disk
  <1> QED  BY <1>1, <1>2, <1>3, <1>4, <1>5, <1>6, <1>7, <1>8, <1>9, <1>10 DEF Next, K, M

\* Who ends the program with the key or the button finds what was set before in the file, however
\* the keys go on while it is written (WindowModel.cpp:35-63, WizardController.cpp, main.cpp).
THEOREM QuitSaves == Spec => []QuitKeeps
  <1>1. Init => StopInv  BY DEF Init, StopInv, Stopping
  <1>2. UIInv /\ StopInv => QuitKeeps
    <2> SUFFICES ASSUME UIInv, StopInv, pcM = "ended", after = "stop", NEW s \in Kept \ late
                 PROVE  LoadFromFile(file)[s] = settings[s]
      BY DEF QuitKeeps
    <2>1. s \in DOMAIN file /\ file[s] = settings[s]  BY DEF StopInv, Stopping
    <2>2. s \in Settings  BY UserInterfaceAssumption
    <2> QED  BY <2>1, <2>2 DEF LoadFromFile
  <1> QED  BY <1>1, <1>2, StopStep, UIInvariant, PTL DEF Spec

=============================================================================

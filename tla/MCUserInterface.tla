--------------------------- MODULE MCUserInterface ---------------------------
(* The lists of adapters and of themes of the checked instances.           *)
EXTENDS UserInterface

MCScans  == {<<"wlan0">>, <<"wlan0", "wlan1">>}
MCThemes == <<"Apple", "Default">>

=============================================================================

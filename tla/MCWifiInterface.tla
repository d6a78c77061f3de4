--------------------------- MODULE MCWifiInterface ---------------------------
EXTENDS WifiInterface

(* Two networks and one that hides its name.                               *)
MCAir == <<"hidden", "n1", "n2">>
=============================================================================

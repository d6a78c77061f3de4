-------------------------- MODULE MCUDPSocketWrapper --------------------------
EXTENDS UDPSocketWrapper

(* A confirmation and a frame, which is longer.                            *)
MCDatagrams == {<<"connected">>, <<"e", "e", "frame">>}
=============================================================================

---------------------------- MODULE MacBlackList ----------------------------
(***************************************************************************)
(* The lists of MAC addresses a handler keeps (MacBlackList.cpp).  The     *)
(* vectors are sets: nothing depends on the order or the number of times   *)
(* an address is in one.                                                   *)
(***************************************************************************)

IsMacAllowed(list, mac) ==
    IF list.white = {} THEN mac \notin list.black ELSE mac \in list.white

IsMacBlackListed(list, mac) == mac \in list.black

AddToMacBlackList(list, mac) ==
    IF IsMacAllowed(list, mac) THEN [list EXCEPT !.black = @ \cup {mac}] ELSE list

AddToMacWhiteList(list, mac) == [list EXCEPT !.white = @ \cup {mac}]

=============================================================================

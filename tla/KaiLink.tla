------------------------------ MODULE KaiLink ------------------------------
(***************************************************************************)
(* What the rest of the program may rely on in the connection to the       *)
(* engine, without threads, sockets, timers or datagrams: a link that is   *)
(* down, dialling or up, and settings that are sent once after it has come *)
(* up.  Only a link that is down dials; the settings of one session never  *)
(* count for the next; dialling ends and settings follow.                  *)
(***************************************************************************)
VARIABLES link, settled
linkVars == <<link, settled>>

Init == link = "down" /\ settled = FALSE

Dial == link = "down" /\ link' = "dialling" /\ settled' = FALSE

\* The confirmation may come late, after the dial was given up.
Confirm == link # "up" /\ link' = "up" /\ settled' = FALSE /\ ~settled

Settle == link = "up" /\ ~settled /\ settled' = TRUE /\ UNCHANGED link

Drop == link # "down" /\ link' = "down" /\ settled' \in {settled, FALSE}

Forget == link = "down" /\ settled /\ settled' = FALSE /\ UNCHANGED link

Next == Dial \/ Confirm \/ Settle \/ Drop \/ Forget
Spec == Init /\ [][Next]_linkVars

\* A dial is confirmed or given up.
Answer == link = "dialling" /\ (Confirm \/ Drop)

\* A link that is up gets its settings unless it goes down first.
Serve == link = "up" /\ ~settled /\ (Settle \/ Drop)

FairSpec == Spec /\ WF_linkVars(Answer) /\ WF_linkVars(Serve)
=============================================================================

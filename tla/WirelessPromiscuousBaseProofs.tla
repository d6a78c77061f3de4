-------------------- MODULE WirelessPromiscuousBaseProofs --------------------
(***************************************************************************)
(* Theorems about the wifi device: for every set of networks, and for      *)
(* every overlap of the three threads that call Connect.                   *)
(***************************************************************************)
EXTENDS WirelessPromiscuousBase, TLAPS

-----------------------------------------------------------------------------
(* The inductive invariants.                                               *)

\* Whoever paused auto-connect last is still inside, or has left it to the host.
PauseInv == mPausedAutoConnect /\ ~mSSIDFromHost => \E t \in Threads : pc[t] # "out"

\* Filters, arguments and the network come from the user or from a host.
FilterInv ==
    /\ mSSIDFilter \subseteq Own \cup Hosts /\ mOldSSIDFilter \subseteq Own \cup Hosts
    /\ \A t \in Threads : aESSID[t] \in Hosts \cup {"none"}
    /\ OnlyWantedNetworks

\* Where each thread may be in Connect: past the test of the interface only while it
\* is there, M only when it is not closing, T only in its loop, R only as long as it
\* exists; and T has ended before the interface is dropped.
Inside == Using \cup {"swap", "flag"}
UseInv ==
    /\ \A t \in Threads :
         pc[t] \in Inside => mWifiInterface \/ (t = "R" /\ receives /\ pcM = "closed")
    /\ pc["M"] # "out" => pcM \in {"idle", "opening"}
    /\ pc["T"] # "out" => timeouts = "renew"
    /\ pc["R"] # "out" => receives
    /\ pcM \in {"drop", "closed"} => timeouts \in {"none", "ended"}

LEMMA InitHolds == Init => TypeOK /\ PauseInv /\ FilterInv /\ UseInv
  BY NetworkAssumption DEF Init, TypeOK, PauseInv, FilterInv, OnlyWantedNetworks, UseInv,
     Inside, Threads, Steps, Using

LEMMA TypeStep == TypeOK /\ [Next]_vars => TypeOK'
<1> SUFFICES ASSUME TypeOK, [Next]_vars PROVE TypeOK'
  OBVIOUS
<1> USE NetworkAssumption DEF TypeOK, Threads, Steps, Using
<1>1. ASSUME NEW t \in Threads, Pause(t) PROVE TypeOK'
  BY <1>1 DEF Pause, At, Goto, Elsewhere, filters, device, locals, threads
<1>2. ASSUME NEW t \in Threads, Swap(t) PROVE TypeOK'
  BY <1>2 DEF Swap, At, Goto, Elsewhere, filters, device, locals, threads
<1>3. ASSUME NEW t \in Threads, Flag(t) PROVE TypeOK'
  BY <1>3 DEF Flag, At, Goto, Elsewhere, filters, device, locals, threads
<1>4. ASSUME NEW t \in Threads, Leave(t) PROVE TypeOK'
  BY <1>4 DEF Leave, At, Goto, Elsewhere, filters, device, locals, threads
<1>5. ASSUME NEW t \in Threads, Scan(t) PROVE TypeOK'
  BY <1>5 DEF Scan, At, Goto, Elsewhere, filters, device, locals, threads
<1>6. ASSUME NEW t \in Threads, Join(t) PROVE TypeOK'
  BY <1>6 DEF Join, At, Goto, Elsewhere, filters, device, locals, threads
<1>7. ASSUME NEW t \in Threads, JoinAnyway(t) PROVE TypeOK'
  BY <1>7 DEF JoinAnyway, At, Goto, Elsewhere, filters, device, locals, threads
<1>8. ASSUME NEW t \in Threads, Crash(t) PROVE TypeOK'
  BY <1>8 DEF Crash, At, Goto, Elsewhere, filters, device, locals, threads
<1>9. ASSUME NEW t \in Threads, Resume(t) PROVE TypeOK'
  BY <1>9 DEF Resume, At, Goto, Elsewhere, filters, device, locals, threads
<1>10. ASSUME NEW t \in Threads, Unpause(t) PROVE TypeOK'
  <2>1. pc' \in [Threads -> Steps]
    BY <1>10 DEF Unpause, Goto
  <2>2. mReadWatchdog' = "fresh" /\ mPausedAutoConnect' = FALSE
    BY <1>10 DEF Unpause
  <2>3. UNCHANGED <<mAutoConnect, mConnected, mWifiInterface, mSSIDFilter, mOldSSIDFilter,
                    mSSIDFromHost, network, aESSID, lNetworks, lDidConnect, pcM, timeouts,
                    captures, receives>>
    BY <1>10 DEF Unpause, Elsewhere, filters, locals, device, threads
  <2>4. mReadWatchdog' \in {"fresh", "expired"} /\ mPausedAutoConnect' \in BOOLEAN
    BY <2>2
  <2> QED
    BY <2>1, <2>3, <2>4
<1>11. CASE MOpen
  BY <1>11 DEF MOpen, MGoto, At, Call, Goto, Settled, filters, device, locals,
     threads
<1>12. CASE MActivate
  BY <1>12 DEF MActivate, MGoto, At, Call, Goto, Settled, filters, device, locals,
     threads
<1>13. CASE MStart
  BY <1>13 DEF MStart, MGoto, At, Call, Goto, Settled, filters, device, locals,
     threads
<1>14. CASE MReConnect
  BY <1>14 DEF MReConnect, MGoto, At, Call, Goto, Settled, filters, device, locals,
     threads
<1>15. CASE MStopReceiver
  BY <1>15 DEF MStopReceiver, MGoto, At, Call, Goto, Settled, filters, device,
     locals, threads
<1>16. CASE MClose
  BY <1>16 DEF MClose, MGoto, At, Call, Goto, Settled, filters, device, locals,
     threads
<1>17. CASE MJoinReceiver
  BY <1>17 DEF MJoinReceiver, MGoto, At, Call, Goto, Settled, filters, device,
     locals, threads
<1>18. CASE MJoinTimeout
  BY <1>18 DEF MJoinTimeout, MGoto, At, Call, Goto, Settled, filters, device, locals,
     threads
<1>19. CASE MDrop
  BY <1>19 DEF MDrop, MGoto, At, Call, Goto, Settled, filters, device, locals,
     threads
<1>20. CASE RHostSSID
  BY <1>20 DEF RHostSSID, At, Call, Goto, filters, device, locals, threads
<1>21. CASE TTest
  BY <1>21 DEF TTest, At, Call, Goto, filters, device, locals, threads
<1>22. CASE TRenew
  BY <1>22 DEF TRenew, At, Call, Goto, filters, device, locals, threads
<1>23. CASE DFrame
  BY <1>23 DEF DFrame, At, Call, Goto, filters, device, locals, threads
<1>24. CASE WatchdogExpires
  BY <1>24 DEF WatchdogExpires, At, Call, Goto, filters, device, locals, threads
<1>25. CASE UNCHANGED vars
  BY <1>25 DEF vars, filters, device, locals, threads
<1> QED
  BY <1>1, <1>2, <1>3, <1>4, <1>5, <1>6, <1>7, <1>8, <1>9, <1>10, <1>11, <1>12,
     <1>13, <1>14, <1>15, <1>16, <1>17, <1>18, <1>19, <1>20, <1>21, <1>22, <1>23,
     <1>24, <1>25 DEF Next, Connect, M

LEMMA PauseStep == TypeOK /\ PauseInv /\ [Next]_vars => PauseInv'
<1> SUFFICES ASSUME TypeOK, PauseInv, [Next]_vars PROVE PauseInv'
  OBVIOUS
<1> USE DEF TypeOK, PauseInv, Threads, Steps, Using
<1>1. ASSUME NEW t \in Threads, Pause(t) PROVE PauseInv'
  BY <1>1 DEF Pause, At, Goto, Elsewhere, filters, device, locals, threads
<1>2. ASSUME NEW t \in Threads, Swap(t) PROVE PauseInv'
  BY <1>2 DEF Swap, At, Goto, Elsewhere, filters, device, locals, threads
<1>3. ASSUME NEW t \in Threads, Flag(t) PROVE PauseInv'
  BY <1>3 DEF Flag, At, Goto, Elsewhere, filters, device, locals, threads
<1>4. ASSUME NEW t \in Threads, Leave(t) PROVE PauseInv'
  BY <1>4 DEF Leave, At, Goto, Elsewhere, filters, device, locals, threads
<1>5. ASSUME NEW t \in Threads, Scan(t) PROVE PauseInv'
  BY <1>5 DEF Scan, At, Goto, Elsewhere, filters, device, locals, threads
<1>6. ASSUME NEW t \in Threads, Join(t) PROVE PauseInv'
  BY <1>6 DEF Join, At, Goto, Elsewhere, filters, device, locals, threads
<1>7. ASSUME NEW t \in Threads, JoinAnyway(t) PROVE PauseInv'
  BY <1>7 DEF JoinAnyway, At, Goto, Elsewhere, filters, device, locals, threads
<1>8. ASSUME NEW t \in Threads, Crash(t) PROVE PauseInv'
  BY <1>8 DEF Crash, At, Goto, Elsewhere, filters, device, locals, threads
<1>9. ASSUME NEW t \in Threads, Resume(t) PROVE PauseInv'
  BY <1>9 DEF Resume, At, Goto, Elsewhere, filters, device, locals, threads
<1>10. ASSUME NEW t \in Threads, Unpause(t) PROVE PauseInv'
  BY <1>10 DEF Unpause, At, Goto, Elsewhere, filters, device, locals, threads
<1>11. CASE MOpen
  BY <1>11 DEF MOpen, MGoto, At, Call, Goto, Settled, filters, device, locals,
     threads
<1>12. CASE MActivate
  BY <1>12 DEF MActivate, MGoto, At, Call, Goto, Settled, filters, device, locals,
     threads
<1>13. CASE MStart
  BY <1>13 DEF MStart, MGoto, At, Call, Goto, Settled, filters, device, locals,
     threads
<1>14. CASE MReConnect
  BY <1>14 DEF MReConnect, MGoto, At, Call, Goto, Settled, filters, device, locals,
     threads
<1>15. CASE MStopReceiver
  BY <1>15 DEF MStopReceiver, MGoto, At, Call, Goto, Settled, filters, device,
     locals, threads
<1>16. CASE MClose
  BY <1>16 DEF MClose, MGoto, At, Call, Goto, Settled, filters, device, locals,
     threads
<1>17. CASE MJoinReceiver
  BY <1>17 DEF MJoinReceiver, MGoto, At, Call, Goto, Settled, filters, device,
     locals, threads
<1>18. CASE MJoinTimeout
  BY <1>18 DEF MJoinTimeout, MGoto, At, Call, Goto, Settled, filters, device, locals,
     threads
<1>19. CASE MDrop
  BY <1>19 DEF MDrop, MGoto, At, Call, Goto, Settled, filters, device, locals,
     threads
<1>20. CASE RHostSSID
  BY <1>20 DEF RHostSSID, At, Call, Goto, filters, device, locals, threads
<1>21. CASE TTest
  BY <1>21 DEF TTest, At, Call, Goto, filters, device, locals, threads
<1>22. CASE TRenew
  BY <1>22 DEF TRenew, At, Call, Goto, filters, device, locals, threads
<1>23. CASE DFrame
  BY <1>23 DEF DFrame, At, Call, Goto, filters, device, locals, threads
<1>24. CASE WatchdogExpires
  BY <1>24 DEF WatchdogExpires, At, Call, Goto, filters, device, locals, threads
<1>25. CASE UNCHANGED vars
  BY <1>25 DEF vars, filters, device, locals, threads
<1> QED
  BY <1>1, <1>2, <1>3, <1>4, <1>5, <1>6, <1>7, <1>8, <1>9, <1>10, <1>11, <1>12,
     <1>13, <1>14, <1>15, <1>16, <1>17, <1>18, <1>19, <1>20, <1>21, <1>22, <1>23,
     <1>24, <1>25 DEF Next, Connect, M

LEMMA FilterStep == TypeOK /\ FilterInv /\ [Next]_vars => FilterInv'
<1> SUFFICES ASSUME TypeOK, FilterInv, [Next]_vars PROVE FilterInv'
  OBVIOUS
<1> USE NetworkAssumption DEF TypeOK, FilterInv, OnlyWantedNetworks, Threads
<1>1. ASSUME NEW t \in Threads, Pause(t) PROVE FilterInv'
  BY <1>1 DEF Pause, At, Goto, Elsewhere, filters, device, locals, threads
<1>2. ASSUME NEW t \in Threads, Swap(t) PROVE FilterInv'
  BY <1>2 DEF Swap, At, Goto, Elsewhere, filters, device, locals, threads
<1>3. ASSUME NEW t \in Threads, Flag(t) PROVE FilterInv'
  BY <1>3 DEF Flag, At, Goto, Elsewhere, filters, device, locals, threads
<1>4. ASSUME NEW t \in Threads, Leave(t) PROVE FilterInv'
  BY <1>4 DEF Leave, At, Goto, Elsewhere, filters, device, locals, threads
<1>5. ASSUME NEW t \in Threads, Scan(t) PROVE FilterInv'
  BY <1>5 DEF Scan, At, Goto, Elsewhere, filters, device, locals, threads
<1>6. ASSUME NEW t \in Threads, Join(t) PROVE FilterInv'
  BY <1>6 DEF Join, At, Goto, Elsewhere, filters, device, locals, threads
<1>7. ASSUME NEW t \in Threads, JoinAnyway(t) PROVE FilterInv'
  BY <1>7 DEF JoinAnyway, At, Goto, Elsewhere, filters, device, locals, threads
<1>8. ASSUME NEW t \in Threads, Crash(t) PROVE FilterInv'
  BY <1>8 DEF Crash, At, Goto, Elsewhere, filters, device, locals, threads
<1>9. ASSUME NEW t \in Threads, Resume(t) PROVE FilterInv'
  BY <1>9 DEF Resume, At, Goto, Elsewhere, filters, device, locals, threads
<1>10. ASSUME NEW t \in Threads, Unpause(t) PROVE FilterInv'
  BY <1>10 DEF Unpause, At, Goto, Elsewhere, filters, device, locals, threads
<1>11. CASE MOpen
  BY <1>11 DEF MOpen, MGoto, At, Call, Goto, Settled, filters, device, locals,
     threads
<1>12. CASE MActivate
  BY <1>12 DEF MActivate, MGoto, At, Call, Goto, Settled, filters, device, locals,
     threads
<1>13. CASE MStart
  BY <1>13 DEF MStart, MGoto, At, Call, Goto, Settled, filters, device, locals,
     threads
<1>14. CASE MReConnect
  BY <1>14 DEF MReConnect, MGoto, At, Call, Goto, Settled, filters, device, locals,
     threads
<1>15. CASE MStopReceiver
  BY <1>15 DEF MStopReceiver, MGoto, At, Call, Goto, Settled, filters, device,
     locals, threads
<1>16. CASE MClose
  BY <1>16 DEF MClose, MGoto, At, Call, Goto, Settled, filters, device, locals,
     threads
<1>17. CASE MJoinReceiver
  BY <1>17 DEF MJoinReceiver, MGoto, At, Call, Goto, Settled, filters, device,
     locals, threads
<1>18. CASE MJoinTimeout
  BY <1>18 DEF MJoinTimeout, MGoto, At, Call, Goto, Settled, filters, device, locals,
     threads
<1>19. CASE MDrop
  BY <1>19 DEF MDrop, MGoto, At, Call, Goto, Settled, filters, device, locals,
     threads
<1>20. CASE RHostSSID
  BY <1>20 DEF RHostSSID, At, Call, Goto, filters, device, locals, threads
<1>21. CASE TTest
  BY <1>21 DEF TTest, At, Call, Goto, filters, device, locals, threads
<1>22. CASE TRenew
  BY <1>22 DEF TRenew, At, Call, Goto, filters, device, locals, threads
<1>23. CASE DFrame
  BY <1>23 DEF DFrame, At, Call, Goto, filters, device, locals, threads
<1>24. CASE WatchdogExpires
  BY <1>24 DEF WatchdogExpires, At, Call, Goto, filters, device, locals, threads
<1>25. CASE UNCHANGED vars
  BY <1>25 DEF vars, filters, device, locals, threads
<1> QED
  BY <1>1, <1>2, <1>3, <1>4, <1>5, <1>6, <1>7, <1>8, <1>9, <1>10, <1>11, <1>12,
     <1>13, <1>14, <1>15, <1>16, <1>17, <1>18, <1>19, <1>20, <1>21, <1>22, <1>23,
     <1>24, <1>25 DEF Next, Connect, M

LEMMA UseStep == TypeOK /\ UseInv /\ [Next]_vars => UseInv'
<1> SUFFICES ASSUME TypeOK, UseInv, [Next]_vars PROVE UseInv'
  OBVIOUS
<1> USE DEF TypeOK, UseInv, Inside, Using, Threads, Steps
<1>1. ASSUME NEW t \in Threads, Pause(t) PROVE UseInv'
  BY <1>1 DEF Pause, At, Goto, Elsewhere, filters, device, locals, threads
<1>2. ASSUME NEW t \in Threads, Swap(t) PROVE UseInv'
  BY <1>2 DEF Swap, At, Goto, Elsewhere, filters, device, locals, threads
<1>3. ASSUME NEW t \in Threads, Flag(t) PROVE UseInv'
  BY <1>3 DEF Flag, At, Goto, Elsewhere, filters, device, locals, threads
<1>4. ASSUME NEW t \in Threads, Leave(t) PROVE UseInv'
  BY <1>4 DEF Leave, At, Goto, Elsewhere, filters, device, locals, threads
<1>5. ASSUME NEW t \in Threads, Scan(t) PROVE UseInv'
  BY <1>5 DEF Scan, At, Goto, Elsewhere, filters, device, locals, threads
<1>6. ASSUME NEW t \in Threads, Join(t) PROVE UseInv'
  BY <1>6 DEF Join, At, Goto, Elsewhere, filters, device, locals, threads
<1>7. ASSUME NEW t \in Threads, JoinAnyway(t) PROVE UseInv'
  BY <1>7 DEF JoinAnyway, At, Goto, Elsewhere, filters, device, locals, threads
<1>8. ASSUME NEW t \in Threads, Crash(t) PROVE UseInv'
  BY <1>8 DEF Crash, At, Goto, Elsewhere, filters, device, locals, threads
<1>9. ASSUME NEW t \in Threads, Resume(t) PROVE UseInv'
  BY <1>9 DEF Resume, At, Goto, Elsewhere, filters, device, locals, threads
<1>10. ASSUME NEW t \in Threads, Unpause(t) PROVE UseInv'
  BY <1>10 DEF Unpause, At, Goto, Elsewhere, filters, device, locals, threads
<1>11. CASE MOpen
  BY <1>11 DEF MOpen, MGoto, At, Call, Goto, Settled, filters, device, locals,
     threads
<1>12. CASE MActivate
  BY <1>12 DEF MActivate, MGoto, At, Call, Goto, Settled, filters, device, locals,
     threads
<1>13. CASE MStart
  <2>1. timeouts' = timeouts \/ timeouts = "none"
    BY <1>13, Zenon DEF MStart
  <2>2. receives => receives'
    BY <1>13, Zenon DEF MStart
  <2>3. pcM = "start" /\ pcM' = "idle" /\ UNCHANGED <<pc, mWifiInterface>>
    BY <1>13, Zenon DEF MStart, MGoto
  <2> QED
    BY <2>1, <2>2, <2>3
<1>14. CASE MReConnect
  BY <1>14 DEF MReConnect, MGoto, At, Call, Goto, Settled, filters, device, locals,
     threads
<1>15. CASE MStopReceiver
  BY <1>15 DEF MStopReceiver, MGoto, At, Call, Goto, Settled, filters, device,
     locals, threads
<1>16. CASE MClose
  BY <1>16 DEF MClose, MGoto, At, Call, Goto, Settled, filters, device, locals,
     threads
<1>17. CASE MJoinReceiver
  BY <1>17 DEF MJoinReceiver, MGoto, At, Call, Goto, Settled, filters, device,
     locals, threads
<1>18. CASE MJoinTimeout
  BY <1>18 DEF MJoinTimeout, MGoto, At, Call, Goto, Settled, filters, device, locals,
     threads
<1>19. CASE MDrop
  BY <1>19 DEF MDrop, MGoto, At, Call, Goto, Settled, filters, device, locals,
     threads
<1>20. CASE RHostSSID
  BY <1>20 DEF RHostSSID, At, Call, Goto, filters, device, locals, threads
<1>21. CASE TTest
  BY <1>21 DEF TTest, At, Call, Goto, filters, device, locals, threads
<1>22. CASE TRenew
  BY <1>22 DEF TRenew, At, Call, Goto, filters, device, locals, threads
<1>23. CASE DFrame
  BY <1>23 DEF DFrame, At, Call, Goto, filters, device, locals, threads
<1>24. CASE WatchdogExpires
  BY <1>24 DEF WatchdogExpires, At, Call, Goto, filters, device, locals, threads
<1>25. CASE UNCHANGED vars
  BY <1>25 DEF vars, filters, device, locals, threads
<1> QED
  BY <1>1, <1>2, <1>3, <1>4, <1>5, <1>6, <1>7, <1>8, <1>9, <1>10, <1>11, <1>12,
     <1>13, <1>14, <1>15, <1>16, <1>17, <1>18, <1>19, <1>20, <1>21, <1>22, <1>23,
     <1>24, <1>25 DEF Next, Connect, M

-----------------------------------------------------------------------------
(* The theorems.                                                           *)

\* The variables of the device keep their types.
THEOREM DeviceTypeCorrect == Spec => []TypeOK
<1>1. Init => TypeOK
  BY InitHolds
<1> QED
  BY <1>1, TypeStep, PTL DEF Spec

\* Auto-connect is not left paused, whichever calls of Connect overlap.
THEOREM AutoConnectComesBack == Spec => []AutoConnectResumes
<1>1. Init => TypeOK /\ PauseInv
  BY InitHolds
<1>2. PauseInv => AutoConnectResumes
  BY DEF PauseInv, AutoConnectResumes, AtRest
<1> QED
  BY <1>1, <1>2, TypeStep, PauseStep, PTL DEF Spec

\* Only networks of the user's filter or of a host are joined.
THEOREM JoinsWantedNetworks == Spec => []OnlyWantedNetworks
<1>1. Init => TypeOK /\ FilterInv
  BY InitHolds
<1>2. FilterInv => OnlyWantedNetworks
  BY DEF FilterInv
<1> QED
  BY <1>1, <1>2, TypeStep, FilterStep, PTL DEF Spec

\* No thread calls the interface after Close has dropped it, if the connection was
\* closed first.
THEOREM InterfaceIsThere == Spec => []InterfaceOutlivesUse
<1>1. Init => TypeOK /\ UseInv
  BY InitHolds
<1>2. UseInv => InterfaceOutlivesUse
  BY DEF UseInv, Inside, InterfaceOutlivesUse
<1> QED
  BY <1>1, <1>2, TypeStep, UseStep, PTL DEF Spec
=============================================================================

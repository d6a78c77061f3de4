----------------------- MODULE WirelessPromiscuousBase -----------------------
(***************************************************************************)
(* The wifi device of the promiscuous and the plugin method: which ad-hoc  *)
(* network it joins, and when (WirelessPromiscuousBase.cpp).  Connect is   *)
(* called without a lock by three threads:                                 *)
(*                                                                         *)
(*   M   the main loop: opens and closes the device, and the Re-Connect    *)
(*       button;                                                           *)
(*   R   the connection's receiver thread, when a host tells its SSID;     *)
(*   T   the wifi timeout thread, when nothing was heard for a while.      *)
(*                                                                         *)
(* D, the device's receiver thread, only renews the watchdog.  A step of   *)
(* Connect is one access to what the threads share, or one call of the     *)
(* wifi interface.  A filter is the set of the networks it matches.        *)
(***************************************************************************)
EXTENDS Naturals

CONSTANTS
    Networks,               \* SSIDs that may be in the air
    Own,                    \* those the user's filter matches
    Hosts,                  \* those other hosts tell us to join
    cCanConnectWithoutScan  \* FALSE on Apple only

ASSUME NetworkAssumption ==
    /\ Own \subseteq Networks /\ Hosts \subseteq Networks
    /\ "none" \notin Networks
    /\ cCanConnectWithoutScan \in BOOLEAN

VARIABLES
    mAutoConnect, mConnected, mWifiInterface,
    mSSIDFilter, mOldSSIDFilter, mSSIDFromHost,
    mPausedAutoConnect,
    mReadWatchdog,
    network,       \* what the adapter was told to join last, and not yet to leave
    pc,            \* where each thread is in Connect
    aESSID, lNetworks, lDidConnect,   \* its argument and locals, per thread
    pcM,           \* M outside of Connect
    timeouts,      \* T outside of Connect
    captures,      \* D exists
    receives       \* R exists

filters  == <<mSSIDFilter, mOldSSIDFilter>>
device   == <<mAutoConnect, mConnected, mWifiInterface>>
locals   == <<aESSID, lNetworks, lDidConnect>>
threads  == <<pcM, timeouts, captures, receives>>
vars == <<filters, device, locals, threads, mSSIDFromHost, mPausedAutoConnect,
          mReadWatchdog, network, pc>>

Threads == {"M", "R", "T"}
Using   == {"leave", "scan", "join"}    \* calls mWifiInterface
Steps   == {"out", "pause", "swap", "flag", "resume", "unpause", "crashed"} \cup Using

\* The variables keep their types.
TypeOK ==
    /\ mAutoConnect \in BOOLEAN /\ mConnected \in BOOLEAN /\ mWifiInterface \in BOOLEAN
    /\ mSSIDFilter \subseteq Networks /\ mOldSSIDFilter \subseteq Networks
    /\ mSSIDFromHost \in BOOLEAN /\ mPausedAutoConnect \in BOOLEAN
    /\ mReadWatchdog \in {"fresh", "expired"}
    /\ network \in Networks \cup {"none"}
    /\ pc \in [Threads -> Steps]
    /\ aESSID \in [Threads -> Networks \cup {"none"}]
    /\ lNetworks \in [Threads -> SUBSET Networks]
    /\ lDidConnect \in [Threads -> BOOLEAN]
    /\ pcM \in {"idle", "opening", "start", "joinReceiver", "joinTimeout", "drop", "closed"}
    /\ timeouts \in {"none", "test", "renew", "ended"}
    /\ captures \in BOOLEAN /\ receives \in BOOLEAN

Init ==
    /\ mAutoConnect \in BOOLEAN /\ mConnected = FALSE /\ mWifiInterface = FALSE
    /\ mSSIDFilter = {} /\ mOldSSIDFilter = {}
    /\ mSSIDFromHost = FALSE /\ mPausedAutoConnect = FALSE
    /\ mReadWatchdog = "expired" /\ network = "none"
    /\ pc = [t \in Threads |-> "out"]
    /\ aESSID = [t \in Threads |-> "none"]
    /\ lNetworks = [t \in Threads |-> {}]
    /\ lDidConnect = [t \in Threads |-> FALSE]
    /\ pcM = "idle" /\ timeouts = "none" /\ captures = FALSE /\ receives = FALSE

-----------------------------------------------------------------------------
(* Connect(aESSID), by any thread.                                         *)

At(t, step)   == pc[t] = step
Goto(t, step) == pc' = [pc EXCEPT ![t] = step]
Elsewhere == UNCHANGED <<device, threads>>

Call(t, essid) ==
    /\ At(t, "out") /\ Goto(t, "pause")
    /\ aESSID' = [aESSID EXCEPT ![t] = essid]
    /\ UNCHANGED <<lNetworks, lDidConnect>>

\* Mutant of Pause: without an interface Connect returns at once.
PauseOrReturn(t) ==
    /\ At(t, "pause") /\ Goto(t, IF mWifiInterface THEN "swap" ELSE "out")
    /\ mPausedAutoConnect' = TRUE
    /\ UNCHANGED <<filters, locals, mSSIDFromHost, mReadWatchdog, network>> /\ Elsewhere

\* Auto-connect is paused even where there is no interface yet, or no more.
Pause(t) ==
    /\ At(t, "pause") /\ Goto(t, IF mWifiInterface THEN "swap" ELSE "resume")
    /\ mPausedAutoConnect' = TRUE
    /\ UNCHANGED <<filters, locals, mSSIDFromHost, mReadWatchdog, network>> /\ Elsewhere

\* A host's network replaces the filter, without one the saved filter is restored.
Swap(t) ==
    /\ At(t, "swap") /\ Goto(t, "flag")
    /\ IF aESSID[t] = "none"
       THEN mSSIDFilter' = mOldSSIDFilter /\ UNCHANGED mOldSSIDFilter
       ELSE mOldSSIDFilter' = mSSIDFilter /\ mSSIDFilter' = {aESSID[t]}
    /\ UNCHANGED <<locals, mSSIDFromHost, mPausedAutoConnect, mReadWatchdog, network>>
    /\ Elsewhere

Flag(t) ==
    /\ At(t, "flag") /\ Goto(t, "leave")
    /\ mSSIDFromHost' = (aESSID[t] # "none")
    /\ UNCHANGED <<filters, locals, mPausedAutoConnect, mReadWatchdog, network>> /\ Elsewhere

\* LeaveIBSS; a host's network needs no scan, except on Apple.
Leave(t) ==
    /\ At(t, "leave") /\ mWifiInterface
    /\ Goto(t, IF mSSIDFromHost /\ cCanConnectWithoutScan THEN "join" ELSE "scan")
    /\ network' = "none"
    /\ UNCHANGED <<filters, locals, mSSIDFromHost, mPausedAutoConnect, mReadWatchdog>>
    /\ Elsewhere

\* GetAdhocNetworks: those that are ad hoc and not connected.
Scan(t) ==
    /\ At(t, "scan") /\ mWifiInterface /\ Goto(t, "join")
    /\ \E found \in SUBSET Networks : lNetworks' = [lNetworks EXCEPT ![t] = found]
    /\ UNCHANGED <<filters, aESSID, lDidConnect, mSSIDFromHost, mPausedAutoConnect,
                   mReadWatchdog, network>> /\ Elsewhere

\* Mutant of Join: the filter is not looked at.
JoinUnfiltered(t) ==
    /\ At(t, "join") /\ mWifiInterface /\ UNCHANGED pc
    /\ \E n \in lNetworks[t] :
         /\ lNetworks' = [lNetworks EXCEPT ![t] = @ \ {n}]
         /\ network' = n
    /\ lDidConnect' = [lDidConnect EXCEPT ![t] = TRUE]
    /\ UNCHANGED <<filters, aESSID, mSSIDFromHost, mPausedAutoConnect, mReadWatchdog>>
    /\ Elsewhere

\* The next network of the list is joined if it matches.
Join(t) ==
    /\ At(t, "join") /\ mWifiInterface /\ UNCHANGED pc
    /\ \E n \in lNetworks[t] :
         /\ lNetworks' = [lNetworks EXCEPT ![t] = @ \ {n}]
         /\ lDidConnect' = [lDidConnect EXCEPT ![t] = @ \/ n \in mSSIDFilter]
         /\ network' = IF n \in mSSIDFilter THEN n ELSE network
    /\ UNCHANGED <<filters, aESSID, mSSIDFromHost, mPausedAutoConnect, mReadWatchdog>>
    /\ Elsewhere

\* "Connect anyway, even if the PSP is not hosting the network"; the locals end here.
JoinAnyway(t) ==
    /\ At(t, "join") /\ lNetworks[t] = {} /\ mWifiInterface /\ Goto(t, "resume")
    /\ network' = IF ~lDidConnect[t] /\ mSSIDFromHost /\ aESSID[t] # "none"
                  THEN aESSID[t] ELSE network
    /\ aESSID' = [aESSID EXCEPT ![t] = "none"]
    /\ lDidConnect' = [lDidConnect EXCEPT ![t] = FALSE]
    /\ UNCHANGED <<filters, lNetworks, mSSIDFromHost, mPausedAutoConnect, mReadWatchdog>>
    /\ Elsewhere

\* The interface a thread is about to call is gone.
Crash(t) ==
    /\ pc[t] \in Using /\ ~mWifiInterface /\ Goto(t, "crashed")
    /\ UNCHANGED <<filters, locals, mSSIDFromHost, mPausedAutoConnect, mReadWatchdog,
                   network>> /\ Elsewhere

Resume(t) ==
    /\ At(t, "resume") /\ Goto(t, IF mSSIDFromHost THEN "out" ELSE "unpause")
    /\ UNCHANGED <<filters, locals, mSSIDFromHost, mPausedAutoConnect, mReadWatchdog,
                   network>> /\ Elsewhere

\* Mutant of Unpause: the pause stays.
UnpauseForgotten(t) ==
    /\ At(t, "unpause") /\ Goto(t, "out")
    /\ mReadWatchdog' = "fresh"
    /\ UNCHANGED <<filters, locals, mSSIDFromHost, mPausedAutoConnect, network>> /\ Elsewhere

Unpause(t) ==
    /\ At(t, "unpause") /\ Goto(t, "out")
    /\ mReadWatchdog' = "fresh" /\ mPausedAutoConnect' = FALSE
    /\ UNCHANGED <<filters, locals, mSSIDFromHost, network>> /\ Elsewhere

Connect(t) ==
    \/ Pause(t) \/ Swap(t) \/ Flag(t) \/ Leave(t) \/ Scan(t) \/ Join(t) \/ JoinAnyway(t)
    \/ Crash(t) \/ Resume(t) \/ Unpause(t)

-----------------------------------------------------------------------------
(* M.                                                                      *)

MGoto(from, to) == pcM = from /\ At("M", "out") /\ pcM' = to
Settled == UNCHANGED <<mAutoConnect, mSSIDFromHost, mPausedAutoConnect, network>>

\* Open, also of a device that is open: the filter is the user's again.
MOpen ==
    /\ MGoto("idle", "opening")
    /\ mWifiInterface' = TRUE
    /\ mSSIDFilter' = Own /\ mOldSSIDFilter' = Own
    /\ IF mAutoConnect THEN Call("M", "none") ELSE UNCHANGED <<pc, locals>>
    /\ UNCHANGED <<mConnected, mReadWatchdog, timeouts, captures, receives>> /\ Settled

\* The adapter can be captured on, or not.
MActivate ==
    /\ pcM = "opening" /\ At("M", "out")
    /\ \/ pcM' = "start" /\ mConnected' = TRUE
       \/ pcM' = "idle" /\ UNCHANGED mConnected
    /\ mReadWatchdog' = "fresh"
    /\ UNCHANGED <<mWifiInterface, filters, locals, pc, timeouts, captures, receives>>
    /\ Settled

\* StartReceiverThread, and that of the connection, which may fail; without a
\* reconnection timeout there is no T.
MStart ==
    /\ MGoto("start", "idle")
    /\ captures' = TRUE
    /\ timeouts' \in IF mAutoConnect /\ ~captures /\ timeouts = "none"
                     THEN {"none", "test"} ELSE {timeouts}
    /\ mReadWatchdog' \in IF captures THEN {mReadWatchdog} ELSE {"fresh"}
    /\ receives' \in {receives, TRUE}
    /\ UNCHANGED <<mConnected, mWifiInterface, filters, locals, pc>> /\ Settled

\* Mutant of MReConnect: an SSID, but an empty one.
MReConnectEmpty ==
    /\ pcM = "idle" /\ Call("M", "")
    /\ UNCHANGED <<filters, mConnected, mWifiInterface, threads, mReadWatchdog>> /\ Settled

\* The Re-Connect button.
MReConnect ==
    /\ pcM = "idle" /\ Call("M", "none")
    /\ UNCHANGED <<filters, mConnected, mWifiInterface, threads, mReadWatchdog>> /\ Settled

\* The connection is closed: before the device in StopEngine, after it on exit.
MStopReceiver ==
    /\ pcM \in {"idle", "closed"} /\ At("M", "out") /\ At("R", "out") /\ receives
    /\ receives' = FALSE
    /\ UNCHANGED <<filters, locals, pc, mConnected, mWifiInterface, pcM, timeouts, captures,
                   mReadWatchdog>> /\ Settled

\* Mutant of MClose: T is not told.
MCloseUntold ==
    /\ MGoto("idle", "joinReceiver")
    /\ UNCHANGED <<mConnected, filters, locals, pc, mWifiInterface, timeouts, captures,
                   receives, mReadWatchdog>> /\ Settled

\* Close.
MClose ==
    /\ MGoto("idle", "joinReceiver")
    /\ mConnected' = FALSE
    /\ UNCHANGED <<filters, locals, pc, mWifiInterface, timeouts, captures, receives,
                   mReadWatchdog>> /\ Settled

MJoinReceiver ==
    /\ MGoto("joinReceiver", "joinTimeout")
    /\ captures' = FALSE
    /\ UNCHANGED <<device, filters, locals, pc, timeouts, receives, mReadWatchdog>> /\ Settled

\* Mutant of MJoinTimeout: T is left to itself.
MJoinTimeoutNever ==
    /\ MGoto("joinTimeout", "drop")
    /\ UNCHANGED <<device, filters, locals, pc, timeouts, captures, receives,
                   mReadWatchdog>> /\ Settled

MJoinTimeout ==
    /\ MGoto("joinTimeout", "drop")
    /\ timeouts \in {"none", "ended"}
    /\ UNCHANGED <<device, filters, locals, pc, timeouts, captures, receives,
                   mReadWatchdog>> /\ Settled

MDrop ==
    /\ MGoto("drop", "closed")
    /\ mWifiInterface' = FALSE
    /\ UNCHANGED <<mConnected, filters, locals, pc, timeouts, captures, receives,
                   mReadWatchdog>> /\ Settled

M == MOpen \/ MActivate \/ MStart \/ MReConnect \/ MStopReceiver \/ MClose \/ MJoinReceiver
     \/ MJoinTimeout \/ MDrop

-----------------------------------------------------------------------------
(* R, T, D and the clock.                                                  *)

\* XLink Kai passes on the SSID of a host.
RHostSSID ==
    /\ receives /\ \E essid \in Hosts : Call("R", essid)
    /\ UNCHANGED <<filters, device, threads, mSSIDFromHost, mPausedAutoConnect,
                   mReadWatchdog, network>>

\* The head of T's loop, and its tests.
TTest ==
    /\ timeouts = "test" /\ At("T", "out")
    /\ \/ ~mConnected /\ timeouts' = "ended" /\ UNCHANGED <<pc, locals>>
       \/ /\ mConnected /\ ~mPausedAutoConnect /\ mReadWatchdog = "expired"
          /\ timeouts' = "renew" /\ Call("T", "none")
    /\ UNCHANGED <<filters, device, pcM, captures, receives, mSSIDFromHost,
                   mPausedAutoConnect, mReadWatchdog, network>>

TRenew ==
    /\ timeouts = "renew" /\ At("T", "out") /\ timeouts' = "test"
    /\ mReadWatchdog' = "fresh"
    /\ UNCHANGED <<filters, device, locals, pc, pcM, captures, receives, mSSIDFromHost,
                   mPausedAutoConnect, network>>

\* A frame of a handheld (ReadCallback).
DFrame ==
    /\ captures /\ mReadWatchdog' = "fresh"
    /\ UNCHANGED <<filters, device, locals, threads, pc, mSSIDFromHost,
                   mPausedAutoConnect, network>>

WatchdogExpires ==
    /\ mReadWatchdog = "fresh" /\ mReadWatchdog' = "expired"
    /\ UNCHANGED <<filters, device, locals, threads, pc, mSSIDFromHost,
                   mPausedAutoConnect, network>>

-----------------------------------------------------------------------------

Running == \A t \in Threads : pc[t] # "crashed"

Next ==
    /\ Running
    /\ \/ \E t \in Threads : Connect(t)
       \/ M \/ RHostSSID \/ TTest \/ TRenew \/ DFrame \/ WatchdogExpires

Spec == Init /\ [][Next]_vars

(* The three threads run: calls of Connect go on, an opening or a closing   *)
(* that was begun too, and T's loop turns.  Nothing is assumed of the user, *)
(* of hosts, of frames or of the time that passes.                          *)
MGoesOn == Connect("M") \/ MActivate \/ MStart \/ MJoinReceiver \/ MJoinTimeout \/ MDrop
T == Connect("T") \/ TTest \/ TRenew

Fairness ==
    WF_vars(Running /\ MGoesOn) /\ WF_vars(Running /\ Connect("R")) /\ WF_vars(Running /\ T)

FairSpec == Spec /\ Fairness

-----------------------------------------------------------------------------
(* Properties.                                                             *)

AtRest == \A t \in Threads : pc[t] = "out"

\* Auto-connect is never left paused: when three overlapping calls of Connect, with
\* and without an SSID of a host, have returned in whatever order, it is paused only
\* if the host's network is in use.
AutoConnectResumes == AtRest /\ ~mSSIDFromHost => ~mPausedAutoConnect

\* A network is joined only because the user's filter or a host names it, although
\* scan results are compared with a filter that other threads replace meanwhile.
OnlyWantedNetworks == network \in Own \cup Hosts \cup {"none"}

\* Close takes the interface away only when nobody calls it any more; R, which Close
\* does not know of, is out if the connection was closed first (StopEngine).
InterfaceOutlivesUse ==
    \A t \in Threads :
        pc[t] \in Using => mWifiInterface \/ (t = "R" /\ receives /\ pcM = "closed")

\* README, "Reconnect after network has been inactive": with T running, a network of
\* our own that has fallen silent is noticed, whatever has paused auto-connect before.
SilenceIsNoticed ==
    mConnected /\ timeouts # "none" /\ ~mSSIDFromHost /\ mReadWatchdog = "expired"
        ~> ~mConnected \/ mSSIDFromHost \/ mReadWatchdog = "fresh" \/ ~Running

\* Close returns, also when T has just begun to look for another network.
CloseEnds == pcM = "joinReceiver" ~> pcM = "closed" \/ ~Running
=============================================================================

---------------------------- MODULE WifiInterface ----------------------------
(***************************************************************************)
(* The wifi interface of Linux and BSD: one netlink socket to the kernel,  *)
(* through which several threads leave and join networks and scan for them *)
(* (WifiInterfaceLinuxBSD.cpp).  The callers are the threads of            *)
(* WirelessPromiscuousBase, each of which runs LeaveIBSS, then             *)
(* GetAdhocNetworks where it needs a list, then Connect.                   *)
(*                                                                         *)
(* A request is answered by messages in the socket; whoever reads next     *)
(* gets the oldest, its own or not.  mLocked is held from a send to the    *)
(* end of the reading, except by genl_ctrl_resolve; the membership of the  *)
(* scan group and the callback for data belong to the socket, not to the   *)
(* call, and are changed without the lock.  The kernel and libnl are       *)
(* external.                                                               *)
(***************************************************************************)
EXTENDS Integers, Sequences

CONSTANTS
    Threads,
    Air,             \* the SSIDs the kernel lists after a scan, in its order
    Hidden,          \* those that are empty or " "
    Faults,          \* what may go wrong: "send", "EIO", "aborted", "timeout"
    MaxCalls,        \* bound: how often the interface is used
    MaxForeign       \* bound: messages about the scans of other adapters

ASSUME WifiAssumption ==
    /\ "free" \notin Threads /\ "none" \notin Threads
    /\ Air \in Seq({Air[i] : i \in DOMAIN Air})
    /\ MaxCalls \in Nat /\ MaxForeign \in Nat

VARIABLES
    mSocket,         \* it has not been freed
    mLocked,         \* the thread that holds the mutex, or "free"
    valid,           \* the thread whose lArgument DumpResults was registered with
    mLastReceivedScanInformation,
    inbox, member,   \* the socket: messages, membership of the scan group
    scans, joined,   \* the kernel: a scan is under way, the network of the adapter
    calls, foreign,
    pc, lMulticastId, lSuccess, lNetworks   \* per thread

socket == <<mSocket, valid, member>>
kernel == <<scans, joined, foreign>>
locals == <<lMulticastId, lSuccess, lNetworks>>
vars   == <<socket, mLocked, mLastReceivedScanInformation, inbox, kernel, calls, pc, locals>>

\* A step of a call is a request or the reading of one message.
Unlocked == {"out", "leave", "chosen", "clear", "resolve", "family", "familyAck", "group", "add",
             "trigger", "drop", "free", "modify", "dump", "listed", "join"}
Holding  == {"leaving", "grouping", "scanning", "drain", "dumping", "joining"}
Networks == {Air[i] : i \in DOMAIN Air} \ Hidden
Infos    == [ssid : Networks, isconnected : BOOLEAN]

\* What the kernel answers: a word on the request or the scan, or the networks it
\* lists, of which the adapter is in n or in none.
Listing(n) == [i \in DOMAIN Air |-> [ssid |-> Air[i], isconnected |-> Air[i] = n]]
Kinds      == {"ack", "error", "EIO", "family", "start", "results", "aborted", "dump"}
Messages   == [is : Kinds, of : {<<>>} \cup {Listing(n) : n \in Networks \cup {"none"}}]

Init ==
    /\ mSocket = TRUE /\ mLocked = "free" /\ valid = "none" /\ mLastReceivedScanInformation = <<>>
    /\ inbox = <<>> /\ member = FALSE
    /\ scans = FALSE /\ joined = "none" /\ calls = 0 /\ foreign = 0
    /\ pc = [t \in Threads |-> "out"]
    /\ lMulticastId = [t \in Threads |-> FALSE] /\ lSuccess = [t \in Threads |-> FALSE]
    /\ lNetworks = [t \in Threads |-> <<>>]

-----------------------------------------------------------------------------
(* Requests and their answers.                                             *)

Running == \A t \in Threads : pc[t] # "crashed"
At(t, step)    == Running /\ mSocket /\ pc[t] = step
Goto(t, step)  == pc' = [pc EXCEPT ![t] = step]
Lock(t)        == mLocked = "free" /\ mLocked' = t
Unlock         == mLocked' = "free"
Faulty(fault)  == fault \in Faults

Message(is)     == [is |-> is, of |-> <<>>]
Answers(kinds)  == inbox' = inbox \o [i \in DOMAIN kinds |-> Message(kinds[i])]
Read            == inbox # <<>> /\ inbox' = Tail(inbox)
Is(kinds)       == Head(inbox).is \in kinds

\* A request that could not be sent changes nothing, and its mutex is given back.
NotSent(t, step, then) ==
    /\ Faulty("send") /\ At(t, step) /\ mLocked = "free" /\ Goto(t, then)
    /\ UNCHANGED <<socket, mLocked, mLastReceivedScanInformation, inbox, kernel>>

\* Mutant of Add: a network keeps its place in the kernel's order.
AddLast(list, info) == Append(list, info)

\* What DumpResults makes of the kernel's list: hidden networks are skipped, and
\* the one the adapter is in comes first.
Add(list, info) ==
    IF info.isconnected /\ list # <<>>
    THEN [Append(list, list[1]) EXCEPT ![1] = info]
    ELSE Append(list, info)

\* Mutant of DumpResults: hidden networks are listed too.
DumpAll(list, report) ==
    LET added[i \in 0..Len(report)] == IF i = 0 THEN list ELSE Add(added[i - 1], report[i])
    IN  added[Len(report)]

DumpResults(list, report) ==
    LET added[i \in 0..Len(report)] ==
            IF i = 0 THEN list
            ELSE IF report[i].ssid \in Hidden THEN added[i - 1] ELSE Add(added[i - 1], report[i])
    IN  added[Len(report)]

\* nl_recvmsgs_default: data goes to DumpResults once that was registered; after
\* the dump it was registered for, its argument is gone.
Alive(t) == pc[t] \in {"dump", "dumping"}

Default(t, then) ==
    /\ Read
    /\ \/ Goto(t, then)
          /\ mLastReceivedScanInformation' =
                IF Is({"dump"}) /\ valid # "none" THEN DumpResults(mLastReceivedScanInformation, Head(inbox).of)
                                                  ELSE mLastReceivedScanInformation
       \/ Is({"dump"}) /\ valid # "none" /\ ~Alive(valid)
          /\ Goto(t, "crashed") /\ UNCHANGED mLastReceivedScanInformation

-----------------------------------------------------------------------------
(* LeaveIBSS and Connect.                                                  *)

Begin(t) ==
    /\ Running /\ pc[t] = "out" /\ Goto(t, "leave")
    /\ calls < MaxCalls /\ calls' = calls + 1
    /\ UNCHANGED <<socket, mLocked, mLastReceivedScanInformation, inbox, kernel, locals>>

LeaveIBSS(t) ==
    \/ NotSent(t, "leave", "chosen") /\ UNCHANGED locals
    \/ /\ At(t, "leave") /\ Lock(t) /\ Goto(t, "leaving")
       /\ Answers(<<IF joined = "none" THEN "error" ELSE "ack">>)
       /\ joined' = "none"
       /\ UNCHANGED <<socket, mLastReceivedScanInformation, scans, foreign, locals>>

Left(t) ==
    /\ At(t, "leaving") /\ Default(t, "chosen") /\ Unlock
    /\ UNCHANGED <<socket, kernel, locals>>

\* The caller scans, or knows the network already.
Choose(t) ==
    /\ Running /\ pc[t] = "chosen" /\ \E step \in {"clear", "join"} : Goto(t, step)
    /\ UNCHANGED <<socket, mLocked, mLastReceivedScanInformation, inbox, kernel, locals>>

\* The caller walks the list where it is; one that is cleared or extended meanwhile
\* is freed under it.
Pick(t) ==
    /\ Running /\ pc[t] = "listed"
    /\ \/ Goto(t, "out")
       \/ Goto(t, "join") /\ \E i \in DOMAIN lNetworks[t] : ~lNetworks[t][i].isconnected
       \/ Goto(t, "crashed") /\ lNetworks[t] # mLastReceivedScanInformation
    /\ lNetworks' = [lNetworks EXCEPT ![t] = <<>>]
    /\ UNCHANGED <<socket, mLocked, mLastReceivedScanInformation, inbox, kernel, lMulticastId, lSuccess>>

Connect(t) ==
    \/ NotSent(t, "join", "out") /\ UNCHANGED locals
    \/ /\ At(t, "join") /\ Lock(t) /\ Goto(t, "joining")
       /\ \E ssid \in Networks :
            \/ joined = "none" /\ joined' = ssid /\ Answers(<<"ack">>)
            \/ joined # "none" /\ UNCHANGED joined /\ Answers(<<"error">>)
       /\ UNCHANGED <<socket, mLastReceivedScanInformation, scans, foreign, locals>>

Connected(t) ==
    /\ At(t, "joining") /\ Default(t, "out") /\ Unlock
    /\ UNCHANGED <<socket, kernel, locals>>

-----------------------------------------------------------------------------
(* GetAdhocNetworks.                                                       *)

Clear(t) ==
    /\ Running /\ pc[t] = "clear" /\ Goto(t, "resolve") /\ mLastReceivedScanInformation' = <<>>
    /\ UNCHANGED <<socket, mLocked, inbox, kernel, locals>>

(* GetMulticastId.  genl_ctrl_resolve asks for the controller's family,    *)
(* reads the answer and its acknowledgement, all without the lock; the     *)
(* same question about nl80211 follows under the lock.  Without the answer *)
(* before the acknowledgement the id is -ENOENT.                           *)
Resolve(t) ==
    /\ At(t, "resolve") /\ Goto(t, "family") /\ Answers(<<"family", "ack">>)
    /\ UNCHANGED <<socket, mLocked, mLastReceivedScanInformation, kernel, locals>>

Resolved(t) ==
    \/ /\ At(t, "family") /\ Read /\ Goto(t, "familyAck") /\ UNCHANGED mLastReceivedScanInformation
       /\ UNCHANGED <<socket, mLocked, kernel, locals>>
    \/ /\ At(t, "familyAck") /\ Default(t, "group")
       /\ UNCHANGED <<socket, mLocked, kernel, locals>>

Group(t) ==
    /\ \/ NotSent(t, "group", "add")
       \/ /\ At(t, "group") /\ Lock(t) /\ Goto(t, "grouping") /\ Answers(<<"family", "ack">>)
          /\ UNCHANGED <<socket, mLastReceivedScanInformation, kernel>>
    /\ UNCHANGED locals

Grouped(t) ==
    /\ At(t, "grouping") /\ Read
    /\ IF Is({"ack", "error", "EIO"})
       THEN /\ Unlock /\ Goto(t, "add")
            /\ lMulticastId' = [lMulticastId EXCEPT ![t] = Is({"ack"}) /\ @]
       ELSE /\ UNCHANGED <<mLocked, pc>>
            /\ lMulticastId' = [lMulticastId EXCEPT ![t] = Is({"family"}) \/ @]
    /\ UNCHANGED <<socket, mLastReceivedScanInformation, kernel, lSuccess, lNetworks>>

(* ScanTrigger.                                                            *)
AddMembership(t) ==
    /\ At(t, "add") /\ Goto(t, "trigger") /\ member' = (member \/ lMulticastId[t])
    /\ UNCHANGED <<mSocket, valid, mLocked, mLastReceivedScanInformation, inbox, kernel, locals>>

Trigger(t) ==
    /\ \/ NotSent(t, "trigger", "drop")
       \/ /\ At(t, "trigger") /\ Lock(t) /\ Goto(t, "scanning")
          /\ \/ scans /\ Answers(<<"error">>) /\ UNCHANGED scans
             \/ Faulty("EIO") /\ Answers(<<"EIO">>) /\ UNCHANGED scans
             \/ ~scans /\ scans' = TRUE /\ Answers(IF member THEN <<"start", "ack">> ELSE <<"ack">>)
          /\ UNCHANGED <<socket, mLastReceivedScanInformation, joined, foreign>>
    /\ UNCHANGED locals

\* Mutant of Ends: a scan that was aborted is waited for.
EndsNotAborted == Is({"results", "dump", "error"})

(* The loop for the acknowledgement is not entered (lError starts at 0):   *)
(* one loop reads everything until a scan has ended, of whatever adapter   *)
(* (the networks of a dump look the same), or failed.  The timer is looked *)
(* at after a message only.                                                *)
Ends == Is({"results", "dump", "aborted", "error"})

Scanned(t) ==
    /\ At(t, "scanning") /\ Read
    /\ \/ /\ Is({"EIO"}) /\ Goto(t, "drain") /\ UNCHANGED <<mLocked, lSuccess>>
       \/ /\ ~Is({"EIO"}) /\ (Ends \/ Faulty("timeout"))
          /\ Unlock /\ Goto(t, "drop")
          /\ \E timedOut \in {Faulty("timeout"), FALSE} :
                /\ Ends \/ timedOut
                /\ lSuccess' = [lSuccess EXCEPT ![t] = Is({"results", "dump"}) /\ ~timedOut]
       \/ /\ ~Is({"EIO"}) /\ ~Ends /\ UNCHANGED <<mLocked, pc, lSuccess>>
    /\ UNCHANGED <<socket, mLastReceivedScanInformation, kernel, lMulticastId, lNetworks>>

(* ClearSocket, for an error whose number is that of NLE_NOMEM: it reads   *)
(* until the socket would block, but the socket blocks.                    *)
ClearSocket(t) ==
    /\ At(t, "drain") /\ Read
    /\ UNCHANGED <<socket, mLocked, mLastReceivedScanInformation, kernel, pc, locals>>

\* Mutant of DropMembership: the mutex is given back once more at the end.
DropAndUnlock(t) ==
    /\ At(t, "drop") /\ Goto(t, IF lSuccess[t] THEN "modify" ELSE "free")
    /\ Unlock
    /\ member' = (member /\ ~lMulticastId[t])
    /\ lMulticastId' = [lMulticastId EXCEPT ![t] = FALSE] /\ lSuccess' = [lSuccess EXCEPT ![t] = FALSE]
    /\ UNCHANGED <<mSocket, valid, mLastReceivedScanInformation, inbox, kernel, lNetworks>>

DropMembership(t) ==
    /\ At(t, "drop") /\ Goto(t, IF lSuccess[t] THEN "modify" ELSE "free")
    /\ member' = (member /\ ~lMulticastId[t])
    /\ lMulticastId' = [lMulticastId EXCEPT ![t] = FALSE] /\ lSuccess' = [lSuccess EXCEPT ![t] = FALSE]
    /\ UNCHANGED <<mSocket, valid, mLocked, mLastReceivedScanInformation, inbox, kernel, lNetworks>>

Returns(t, list) == Goto(t, "listed") /\ lNetworks' = [lNetworks EXCEPT ![t] = list]

\* Mutant of Free: the socket is kept for the next call.
FreeNothing(t) ==
    /\ Running /\ pc[t] = "free" /\ Returns(t, mLastReceivedScanInformation)
    /\ UNCHANGED <<socket, inbox, mLocked, mLastReceivedScanInformation, kernel, lMulticastId, lSuccess>>

\* After a scan that failed the socket is freed, whoever else uses it.
Free(t) ==
    /\ Running /\ pc[t] = "free" /\ Returns(t, mLastReceivedScanInformation)
    /\ mSocket' = FALSE /\ inbox' = <<>> /\ member' = FALSE
    /\ UNCHANGED <<valid, mLocked, mLastReceivedScanInformation, kernel, lMulticastId, lSuccess>>

ModifyCallback(t) ==
    /\ At(t, "modify") /\ Goto(t, "dump") /\ valid' = t
    /\ UNCHANGED <<mSocket, member, mLocked, mLastReceivedScanInformation, inbox, kernel, locals>>

Dump(t) ==
    \/ /\ Faulty("send") /\ At(t, "dump") /\ mLocked = "free"
       /\ Returns(t, mLastReceivedScanInformation)
       /\ UNCHANGED <<socket, mLocked, mLastReceivedScanInformation, inbox, kernel, lMulticastId, lSuccess>>
    \/ /\ At(t, "dump") /\ Lock(t) /\ Goto(t, "dumping")
       /\ inbox' = Append(inbox, [is |-> "dump", of |-> Listing(joined)])
       /\ UNCHANGED <<socket, mLastReceivedScanInformation, kernel, locals>>

Dumped(t) ==
    /\ At(t, "dumping") /\ Default(t, "listed") /\ Unlock
    /\ lNetworks' = [lNetworks EXCEPT ![t] = mLastReceivedScanInformation']
    /\ UNCHANGED <<socket, kernel, lMulticastId, lSuccess>>

\* A call that needs the socket another thread has freed.
UseFreed(t) ==
    /\ Running /\ ~mSocket /\ pc[t] \notin {"out", "chosen", "listed", "free", "clear"}
    /\ Goto(t, "crashed")
    /\ UNCHANGED <<socket, mLocked, mLastReceivedScanInformation, inbox, kernel, locals>>

-----------------------------------------------------------------------------
(* The kernel.                                                             *)

ScanEnds ==
    /\ Running /\ scans /\ scans' = FALSE
    /\ \E end \in {"results"} \cup (Faults \cap {"aborted"}) :
            IF member THEN Answers(<<end>>) ELSE UNCHANGED inbox
    /\ UNCHANGED <<socket, mLocked, mLastReceivedScanInformation, joined, foreign, pc, locals>>

\* Another adapter's scan ends.
ForeignScan ==
    /\ Running /\ foreign < MaxForeign /\ foreign' = foreign + 1
    /\ member /\ Answers(<<"results">>)
    /\ UNCHANGED <<socket, mLocked, mLastReceivedScanInformation, scans, joined, pc, locals>>

-----------------------------------------------------------------------------
Step(t) ==
    \/ LeaveIBSS(t) \/ Left(t) \/ Choose(t) \/ Pick(t) \/ Connect(t) \/ Connected(t)
    \/ Clear(t) \/ Resolve(t) \/ Resolved(t) \/ Group(t) \/ Grouped(t) \/ AddMembership(t)
    \/ Trigger(t) \/ Scanned(t) \/ ClearSocket(t) \/ DropMembership(t) \/ Free(t)
    \/ ModifyCallback(t) \/ Dump(t) \/ Dumped(t) \/ UseFreed(t)
Next ==
    \/ \E t \in Threads : Begin(t) \/ (Step(t) /\ UNCHANGED calls)
    \/ (ScanEnds \/ ForeignScan) /\ UNCHANGED calls

Spec == Init /\ [][Next]_vars

\* Threads are scheduled and get the mutex when it keeps being given back; the
\* kernel ends the scans it has started.
Fairness ==
    /\ WF_vars(ScanEnds /\ UNCHANGED calls)
    /\ \A t \in Threads : SF_vars(Step(t) /\ UNCHANGED calls)
FairSpec == Spec /\ Fairness

-----------------------------------------------------------------------------
(* Properties.                                                             *)

\* The variables keep their types.
TypeOK ==
    /\ mSocket \in BOOLEAN /\ member \in BOOLEAN /\ scans \in BOOLEAN
    /\ mLocked \in Threads \cup {"free"} /\ valid \in Threads \cup {"none"}
    /\ mLastReceivedScanInformation \in Seq(Infos)
    /\ inbox \in Seq(Messages)
    /\ joined \in Networks \cup {"none"} /\ calls \in 0..MaxCalls /\ foreign \in 0..MaxForeign
    /\ pc \in [Threads -> Unlocked \cup Holding \cup {"crashed"}]
    /\ lMulticastId \in [Threads -> BOOLEAN] /\ lSuccess \in [Threads -> BOOLEAN]
    /\ lNetworks \in [Threads -> Seq(Infos)]

(* Two threads are never both between mLocked.lock() and the unlock() that *)
(* belongs to it ("From this point no other functions should do WiFi       *)
(* stuff", WifiInterfaceLinuxBSD.cpp:179): no path gives the mutex back    *)
(* twice.                                                                  *)
LockedAlone == \A t, u \in Threads : pc[t] \in Holding /\ pc[u] \in Holding => t = u

(* "Associated info will always be put at the beginning"                   *)
(* (WifiInterfaceLinuxBSD.cpp:326): also in a list two threads have filled *)
(* together.                                                               *)
ConnectedFirst ==
    LET list == mLastReceivedScanInformation
    IN  (\E i \in DOMAIN list : list[i].isconnected) => list[1].isconnected

\* One thread at a time calls the interface, no other adapter scans, and what the
\* kernel says of a scan can reach the socket.
Undisturbed ==
    /\ \A t, u \in Threads : pc[t] # "out" /\ pc[u] # "out" => t = u
    /\ foreign = 0
    /\ \A t \in Threads : pc[t] # "drain" /\ (pc[t] = "scanning" => member)

(* The answers stay in step with the requests as long as nothing disturbs  *)
(* the interface: a call that is over has left nothing in the socket that  *)
(* the next would take for its own answer, after whatever error.           *)
InStep == []Undisturbed => []((\A t \in Threads : pc[t] \in {"out", "chosen", "listed"}) => inbox = <<>>)

Returned(t) == pc[t] \in {"out", "crashed"}

(* Then every call returns too, although nothing but a message ever wakes  *)
(* the reading.                                                            *)
CallsReturn == []Undisturbed => \A t \in Threads : (pc[t] = "leave") ~> Returned(t)

(* ScanTrigger waits for the scan to finish and "does not return until the *)
(* scan is done or has been aborted" (WifiInterfaceLinuxBSD.cpp:378), but  *)
(* no longer than cScanTimeout: when the kernel has ended the scan, the    *)
(* thread that waits for it, and has joined the group that is told, goes   *)
(* on.                                                                     *)
ScanIsNoticed ==
    \A t \in Threads :
        pc[t] = "scanning" /\ lMulticastId[t] /\ ~scans ~> pc[t] # "scanning" \/ scans

=============================================================================

---------------------------- MODULE FrameDevices ----------------------------
(***************************************************************************)
(* The three devices a frame can pass through: the wifi devices of         *)
(* WirelessPSPPluginDevice.cpp and WirelessPromiscuousDevice.cpp and the   *)
(* MonitorDevice.cpp.  Three threads meet in a device:                     *)
(*   D  its receiver thread: a captured frame goes to XLink Kai or not;    *)
(*   R  the receiver thread of the connection: a frame of XLink Kai is     *)
(*      converted, its source is blacklisted, it is sent; the SSID of the  *)
(*      host becomes the filter (XLinkKaiConnection.cpp);                  *)
(*   M  the main loop, which closes the device.                            *)
(* They share the lists and the SSID filter without a lock: what D finds   *)
(* while R changes them is arbitrary, and may be a crash.                  *)
(*                                                                         *)
(* The driver is external.  It also captures what was sent: monitor mode   *)
(* asks for nothing else, and pcap_setdirection is a request whose result  *)
(* is not looked at.                                                       *)
(***************************************************************************)
EXTENDS Frames

CONSTANTS
    AirFrames,       \* per method: what the driver may capture
    KaiFrames,       \* what XLink Kai may deliver
    Filters,         \* what mSSIDFilter may be
    HostSSIDs,       \* what XLink Kai may name
    WhiteLists,      \* what mOnlyAcceptFromMac may be, as a set
    Adapter, Dds,    \* the addresses of the adapter and of the engine itself
    MaxFrames        \* bound: how often the driver or XLink Kai delivers something

ASSUME FramesAssumption ==
    /\ DOMAIN AirFrames = {"plugin", "promiscuous", "monitor"}
    /\ MaxFrames \in Nat
    /\ \A frame \in KaiFrames :
          frame = [dst |-> frame.dst, src |-> frame.src, type |-> frame.type, body |-> frame.body]
    /\ \A m \in DOMAIN AirFrames : \A frame \in AirFrames[m] : "src" \in DOMAIN frame
    /\ \A frame \in AirFrames["monitor"] : {"main", "sub"} \subseteq DOMAIN frame

\* The sources behind XLink Kai, and the own addresses of the adapter and the engine.
Own == {Adapter, Dds} \cup {frame.src : frame \in KaiFrames}

\* They are not in the air by themselves, and a whitelist does not name them: a
\* station is in the reach of the adapter or behind XLink Kai, not both.  (The
\* blacklist is not asked when there is a whitelist: what that names comes back.)
ASSUME StrangersAssumption ==
    /\ \A m \in DOMAIN AirFrames : \A frame \in AirFrames[m] : frame.src \notin Own
    /\ \A white \in WhiteLists : white \cap Own = {}

\* The driver's header is one of the standard: the flags come first, or after a
\* time stamp that is aligned to eight bytes, and say whether there is a check
\* sequence; the frame follows the header.  No network has the address of zeros.
FlagsPlace(header) ==
    LET first == 4 + 4 * header.words
    IN  IF "TSFT" \in header.present THEN 8 * ((first + 7) \div 8) + 8 ELSE first

IsStandard(header) ==
    /\ header.words \in Nat /\ header.length \in Nat \ {0}
    /\ "Flags" \in header.present =>
          FlagsPlace(header) \in DOMAIN header.at /\ header.at[FlagsPlace(header)] \in FlagValues

ASSUME DriverAssumption ==
    \A frame \in AirFrames["monitor"] :
        /\ IsStandard(frame.header) /\ frame.at = frame.header.length
        /\ frame.fcs <=> "Flags" \in frame.header.present
                         /\ HasFCS(frame.header.at[FlagsPlace(frame.header)])
        /\ frame.bssid # "0"

VARIABLES
    method,                    \* which device it is
    mAcknowledgePackets, mConnected,
    open,                      \* the wrapper has been activated and not closed
    mBlackList,                \* of the handler of the device
    handler,                   \* of monitor mode
    plugin,                    \* HandlerPSPPlugin
    mTitleId,
    mCurrentlyConnectedNetwork,
    dpc, dframe, raced,        \* D; the lists changed while it looked at them
    rpc, rframe, rdata,        \* R
    mpc,                       \* M
    frames,                    \* how many were captured or received
    air,                       \* what was sent and can be captured again
    sent, toKai,               \* what the last step sent and forwarded
    told                       \* the last name XLink Kai was told

handlers == <<mBlackList, handler, plugin, mTitleId, mCurrentlyConnectedNetwork>>
dvars    == <<dpc, dframe, raced>>
rvars    == <<rpc, rframe, rdata>>
outputs  == <<air, sent, toKai, told>>
device   == <<method, mAcknowledgePackets, mConnected, open, mpc>>
vars     == <<device, handlers, dvars, rvars, frames, outputs>>

None   == [none |-> TRUE]
Silent == sent' = None /\ toKai' = None /\ UNCHANGED <<air, told>>

Init ==
    /\ method \in DOMAIN AirFrames
    /\ mAcknowledgePackets \in IF method = "monitor" THEN BOOLEAN ELSE {FALSE}
    /\ mConnected = TRUE /\ open = TRUE /\ mpc = "open"
    /\ IF method = "monitor"
       THEN \E only \in WhiteLists, filter \in Filters :
               /\ mBlackList = [white |-> only, black |-> {}]
               /\ handler = [mLockedBSSID |-> "0", mLockedSSID |-> "", mSSIDList |-> filter,
                             data |-> Default, control |-> Default]
       ELSE /\ mBlackList = AddToMacBlackList([white |-> {}, black |-> {}], Adapter)
            /\ handler = None
    /\ plugin = [packet |-> Empty, mEtherType |-> "none", mSourceMac |-> "0",
                 mDestinationMac |-> "0", mIsBroadcastPacket |-> FALSE]
    /\ mTitleId = "" /\ mCurrentlyConnectedNetwork = ""
    /\ dpc = "loop" /\ dframe = None /\ raced = FALSE
    /\ rpc = "loop" /\ rframe = None /\ rdata = None
    /\ frames = 0
    /\ air = {} /\ sent = None /\ toKai = None /\ told = ""

-----------------------------------------------------------------------------
(* D: StartReceiverThread and ReadCallback.                                *)

\* Update has begun and asks the lists; they answer in the next step.
DCapture ==
    /\ dpc = "loop" /\ mConnected /\ frames < MaxFrames
    /\ \E frame \in AirFrames[method] \cup air : dframe' = frame
    /\ dpc' = "asking" /\ raced' = FALSE /\ frames' = frames + 1
    /\ Silent /\ UNCHANGED <<device, handlers, rvars>>

DEnds ==
    /\ dpc = "loop" /\ ~mConnected
    /\ dpc' = "ended"
    /\ Silent /\ UNCHANGED <<device, handlers, dframe, raced, frames, rvars>>

\* What a search answers: the truth, or anything if the lists changed meanwhile.
Verdicts(truth) == IF raced THEN BOOLEAN ELSE {truth}

Forward(frame) == toKai' = [frame |-> frame, captured |-> dframe, raced |-> raced]
Sends(frame, why, parameters) ==
    sent' = [frame |-> frame, why |-> why, from |-> dframe, parameters |-> parameters]
Handled == dpc' = "loop" /\ dframe' = None /\ raced' = FALSE

Crashes ==
    /\ dpc' = "crashed" /\ rpc' = "crashed" /\ mpc' = "crashed"
    /\ dframe' = None /\ raced' = FALSE /\ rframe' = None /\ rdata' = None

DCrash ==
    /\ dpc = "asking" /\ raced
    /\ Crashes
    /\ Silent
    /\ UNCHANGED <<method, mAcknowledgePackets, mConnected, open, handlers, frames>>

MonitorAnswer ==
    LET mac == Asked(dframe)
    IN  IF Decode(dframe).main = "Control" THEN IsMacBlackListed(mBlackList, mac)
        ELSE IsMacAllowed(mBlackList, mac)

\* A filter that was replaced meanwhile may let anything pass.
FiltersSeen == {handler.mSSIDList} \cup (IF raced THEN {{}} ELSE {})

Names(old, new) ==
    IF old.mLockedSSID = new.mLockedSSID THEN UNCHANGED <<mCurrentlyConnectedNetwork, told>>
    ELSE mCurrentlyConnectedNetwork' = new.mLockedSSID /\ told' = new.mLockedSSID

DMonitor ==
    /\ method = "monitor" /\ dpc = "asking"
    /\ \E verdict \in Verdicts(MonitorAnswer), seen \in FiltersSeen :
          /\ handler' = [Update80211([handler EXCEPT !.mSSIDList = seen], dframe, verdict)
                         EXCEPT !.mSSIDList = handler.mSSIDList]
          /\ IF mAcknowledgePackets /\ IsAckable(handler, dframe, verdict) /\ open
             THEN Sends(ConstructAcknowledgementFrame(dframe.src, handler'.control), "ack",
                        handler'.control)
             ELSE sent' = None
          /\ IF ShouldSend(handler, dframe, verdict)
             THEN Forward(Convert80211Out(dframe)) ELSE toKai' = None
          /\ Names(handler, handler')
    /\ Handled
    /\ UNCHANGED <<device, mBlackList, plugin, mTitleId, frames, rvars, air>>

\* The search for the source of a frame without data is for the source before.
DPlugin ==
    LET updated == UpdatePlugin(plugin, dframe) IN
    /\ method = "plugin" /\ dpc = "asking"
    /\ \E listed \in Verdicts(IsMacBlackListed(mBlackList, updated.mSourceMac)) :
          CASE listed \/ updated.mEtherType # "psp" -> Silent /\ UNCHANGED mTitleId
            [] ~listed /\ updated.mEtherType = "psp" /\ updated.mIsBroadcastPacket ->
                  LET handshake == ConstructPSPPluginHandshake(updated.mSourceMac, Adapter)
                  IN  /\ Sends(handshake, "handshake", None)
                      /\ air' = air \cup {handshake}
                      /\ toKai' = None /\ UNCHANGED <<mTitleId, told>>
            [] OTHER ->
                  IF IsInformation(dframe)
                  THEN /\ mTitleId' = ObtainTitleId(mTitleId, dframe)
                       /\ told' = IF mTitleId' # "" THEN mTitleId' ELSE told
                       /\ sent' = None /\ toKai' = None /\ UNCHANGED air
                  ELSE /\ Forward(ConvertPluginOut(updated))
                       /\ sent' = None /\ UNCHANGED <<mTitleId, air, told>>
    /\ plugin' = updated
    /\ Handled
    /\ UNCHANGED <<device, mBlackList, handler, mCurrentlyConnectedNetwork, frames, rvars>>

DPromiscuous ==
    /\ method = "promiscuous" /\ dpc = "asking"
    /\ \E listed \in Verdicts(IsMacBlackListed(mBlackList, dframe.src)) :
          IF listed THEN toKai' = None ELSE Forward(dframe)
    /\ Handled
    /\ sent' = None /\ UNCHANGED <<device, handlers, frames, rvars, air, told>>

-----------------------------------------------------------------------------
(* R: ReceiveCallback of the connection.                                   *)

\* What R reads of the parameters that D may be writing: any mix of the two.
Torn ==
    LET new == IF dpc = "asking" THEN Update80211(handler, dframe, TRUE).data ELSE handler.data
        old == handler.data
    IN  [length : {old.length, new.length}, flags : {old.flags, new.flags},
         rate : {old.rate, new.rate}, channel : {old.channel, new.channel},
         mcs : {old.mcs, new.mcs}]

RReceive ==
    /\ rpc = "loop" /\ frames < MaxFrames
    /\ \E frame \in KaiFrames :
          /\ rframe' = frame
          /\ IF method = "monitor"
             THEN \E parameters \in Torn :
                     rdata' = Convert8023Out(frame, handler.mLockedBSSID, parameters)
             ELSE rdata' = frame
    /\ rpc' = "listing" /\ frames' = frames + 1
    /\ Silent /\ UNCHANGED <<device, handlers, dvars>>

IsBeacon(frame) == frame # None /\ Decode(frame).sub = "Beacon"
Touches(changed) == raced' = (raced \/ (dpc = "asking" /\ changed))

\* Mutant of RBlackList: the wrong address.
RBlackListDestination ==
    /\ rpc = "listing"
    /\ mBlackList' = AddToMacBlackList(mBlackList, rframe.dst)
    /\ Touches(IsMacAllowed(mBlackList, rframe.dst))
    /\ rpc' = "sending"
    /\ Silent
    /\ UNCHANGED <<device, handler, plugin, mTitleId, mCurrentlyConnectedNetwork,
                   dpc, dframe, frames, rframe, rdata>>

RBlackList ==
    /\ rpc = "listing"
    /\ mBlackList' = AddToMacBlackList(mBlackList, rframe.src)
    /\ Touches(IsMacAllowed(mBlackList, rframe.src))
    /\ rpc' = "sending"
    /\ Silent
    /\ UNCHANGED <<device, handler, plugin, mTitleId, mCurrentlyConnectedNetwork,
                   dpc, dframe, frames, rframe, rdata>>

\* The frame as the device sends it.
Outgoing ==
    CASE method = "plugin"      -> ConvertPluginIn(rdata, Adapter)
      [] method = "promiscuous" -> ReplaceDDS(rdata, Dds, Adapter)
      [] OTHER                  -> rdata

\* The wrapper of a wifi device is gone after Close, that of a monitor is not.
RSend ==
    /\ rpc = "sending" /\ (open \/ method = "monitor")
    /\ IF ~open \/ rdata = Empty THEN sent' = None /\ air' = air
       ELSE /\ air' = air \cup {Outgoing}
            /\ sent' = [frame |-> Outgoing, why |-> "kai", from |-> rframe, parameters |-> None]
    /\ rpc' = "loop" /\ rframe' = None /\ rdata' = None
    /\ toKai' = None /\ UNCHANGED <<device, handlers, dvars, frames, told>>

RCrash ==
    /\ rpc = "sending" /\ ~open /\ method # "monitor"
    /\ Crashes
    /\ Silent
    /\ UNCHANGED <<method, mAcknowledgePackets, mConnected, open, handlers, frames>>

\* Mutant of RConnect: the filter grows.
RConnectAdds ==
    /\ rpc = "loop" /\ method = "monitor" /\ frames < MaxFrames
    /\ \E ssid \in HostSSIDs : handler' = [handler EXCEPT !.mSSIDList = @ \cup {ssid}]
    /\ Touches(IsBeacon(dframe))
    /\ frames' = frames + 1
    /\ Silent
    /\ UNCHANGED <<device, mBlackList, plugin, mTitleId, mCurrentlyConnectedNetwork,
                   dpc, dframe, rpc, rframe, rdata>>

\* MonitorDevice::Connect: the filter is moved into what D may be looking at.
RConnect ==
    /\ rpc = "loop" /\ method = "monitor" /\ frames < MaxFrames
    /\ \E ssid \in HostSSIDs : handler' = [handler EXCEPT !.mSSIDList = {ssid}]
    /\ Touches(IsBeacon(dframe))
    /\ frames' = frames + 1
    /\ Silent
    /\ UNCHANGED <<device, mBlackList, plugin, mTitleId, mCurrentlyConnectedNetwork,
                   dpc, dframe, rpc, rframe, rdata>>

-----------------------------------------------------------------------------
(* M: Close.                                                               *)

MClose ==
    /\ mpc = "open"
    /\ mConnected' = FALSE /\ mpc' = "joining"
    /\ Silent /\ UNCHANGED <<method, mAcknowledgePackets, open, handlers, dvars, rvars, frames>>

\* Mutant of MJoined: D is not waited for.
MJoinsNothing ==
    /\ mpc = "joining"
    /\ open' = FALSE /\ mAcknowledgePackets' = FALSE /\ mpc' = "closed"
    /\ Silent /\ UNCHANGED <<method, mConnected, handlers, dvars, rvars, frames>>

MJoined ==
    /\ mpc = "joining" /\ dpc = "ended"
    /\ open' = FALSE /\ mAcknowledgePackets' = FALSE /\ mpc' = "closed"
    /\ Silent /\ UNCHANGED <<method, mConnected, handlers, dvars, rvars, frames>>

Next ==
    \/ DCapture \/ DEnds \/ DCrash \/ DMonitor \/ DPlugin \/ DPromiscuous
    \/ RReceive \/ RBlackList \/ RSend \/ RCrash \/ RConnect
    \/ MClose \/ MJoined

Spec == Init /\ [][Next]_vars

-----------------------------------------------------------------------------
(* Properties.                                                             *)

\* What a header may have at some place, the ones the device writes included.
Values == FlagValues \cup {"11", "1", "none", "noack", Junk}
          \cup UNION {{frame.header.at[index] : index \in DOMAIN frame.header.at} :
                      frame \in AirFrames["monitor"]}

\* Type invariant.
TypeOK ==
    /\ method \in DOMAIN AirFrames
    /\ {mAcknowledgePackets, mConnected, open, raced, plugin.mIsBroadcastPacket} \subseteq BOOLEAN
    /\ DOMAIN mBlackList = {"white", "black"}
    /\ method = "monitor" =>
          /\ handler.mSSIDList \in Filters \cup {{ssid} : ssid \in HostSSIDs}
          /\ {handler.data, handler.control} \subseteq Parameters(Values)
    /\ dpc \in {"loop", "asking", "ended", "crashed"}
    /\ (dpc = "asking") <=> dframe # None
    /\ rpc \in {"loop", "listing", "sending", "crashed"}
    /\ mpc \in {"open", "joining", "closed", "crashed"}
    /\ frames \in 0 .. MaxFrames

\* What came from XLink Kai never goes back to it: its source is on the list
\* before it is in the air, and so is the adapter that other sources are
\* replaced by.  The one way out is a search of the list while R adds to it
\* (XLinkKaiConnection.cpp:205, MacBlackList.cpp:12 and 37).
NoEcho == toKai # None /\ toKai.frame \notin {Empty, Runt} => toKai.frame.src \notin Own \/ toKai.raced

\* What is forwarded is the frame captured last and nothing of those before:
\* with the plugin's destination in its place, without the check sequence
\* and the headers of the air.  Frames too short for the plugin's
\* destination are the exception (HandlerPSPPlugin.cpp:68-102,
\* Handler80211.cpp:17-78).
Meant(frame) ==
    CASE method = "plugin"      -> [frame EXCEPT !.dst = Last(frame.body), !.body = Front(@)]
      [] method = "promiscuous" -> frame
      [] OTHER -> [dst |-> frame.dst, src |-> frame.src, type |-> frame.type, body |-> frame.body]
ForwardedIsMeant == toKai # None /\ toKai.frame \notin {Empty, Runt} => toKai.frame = Meant(toKai.captured)

\* A handshake answers a broadcast, never the unicast after one, and is for
\* its sender (WirelessPSPPluginDevice.cpp:57-71); again without the frames
\* that are too short.
HandshakeAnswersBroadcast ==
    sent # None /\ sent.why = "handshake" /\ sent.from.body # <<"bit">> =>
        sent.from.dst = Broadcast /\ sent.frame.dst = sent.from.src

\* A frame sent in monitor mode reads back as the one XLink Kai gave, with a
\* header that promises no check sequence; an acknowledgement reads back as
\* one unless its parameters have an MCS field, which moves what follows
\* (Handler8023.cpp:8-57, NetConversionFunctions.h:148-214, 268-307).
SentReadsBack ==
    method = "monitor" /\ sent # None =>
        LET frame == Decode(sent.frame)
        IN  CASE sent.why = "kai" -> frame.main = "Data" /\ Convert80211Out(frame) = sent.from
              [] sent.why = "ack" -> \/ frame.sub = "ACK" /\ frame.dst = sent.from.src
                                     \/ sent.parameters.mcs # "none"

\* In monitor mode a forwarded frame is of the network whose name XLink Kai
\* and the user interface were told last, while beacons of other networks come
\* in and the filter is replaced (Handler80211.cpp:218, 258-271,
\* MonitorDevice.cpp:94, 121-129).
ForwardedIsOfToldNetwork ==
    method = "monitor" /\ toKai # None /\ ~toKai.raced =>
        /\ mCurrentlyConnectedNetwork = told
        /\ \E frame \in AirFrames.monitor :
               frame.ssid = told /\ frame.bssid = toKai.captured.bssid

\* After Close nothing more is captured, forwarded or sent
\* (MonitorDevice.cpp:72-88, WirelessPromiscuousBase.cpp:80-118).
ClosedIsSilent == [][mpc = "closed" => Silent]_vars
=============================================================================

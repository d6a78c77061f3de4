------------------------- MODULE FrameDevicesProofs -------------------------
(***************************************************************************)
(* The devices, for any frames, lists and filters and any number of them.  *)
(*                                                                         *)
(* Nothing that came from XLink Kai goes back to it.  NoEcho speaks of the *)
(* last frame forwarded.  What makes it inductive is the way of a frame    *)
(* before that: what R is about to send, what is in the air and what D has *)
(* captured of it has a source the lists refuse, and the lists never take  *)
(* a refusal back (EchoInv).                                               *)
(*                                                                         *)
(* Monitor mode: what is in the air or on its way there can be read, the   *)
(* parameters the handler remembers are ones a header had, and the network *)
(* it is locked to is the one that was told (AirwayInv).                   *)
(***************************************************************************)
EXTENDS FrameDevices, FramesProofs, TLAPS

Refused(mac) == ~IsMacAllowed(mBlackList, mac)

\* Without a whitelist, as in the wifi devices, what is refused is blacklisted.
ListInv ==
    /\ mBlackList = [white |-> mBlackList.white, black |-> mBlackList.black]
    /\ mBlackList.white \cap Own = {}
    /\ method # "monitor" => mBlackList.white = {} /\ Adapter \in mBlackList.black

\* What the converters rely on in a frame.
HasFields(frame) ==
    /\ "src" \in DOMAIN frame
    /\ method = "monitor" => {"main", "sub"} \subseteq DOMAIN frame

AirInv == \A frame \in air : HasFields(frame) /\ Refused(frame.src)

DInv == dpc = "asking" => HasFields(dframe) /\ (dframe.src \in Own => Refused(dframe.src))

\* The frame R has in its hands, as it came and as it was converted.
RInv ==
    /\ rpc \in {"listing", "sending"} => rframe \in KaiFrames
    /\ rpc \in {"listing", "sending"} /\ method = "monitor" =>
          rdata = Empty \/ (rdata.src = rframe.src /\ HasFields(rdata))
    /\ rpc \in {"listing", "sending"} /\ method # "monitor" => rdata = rframe
    /\ rpc = "sending" => Refused(rframe.src)

PluginInv ==
    DOMAIN plugin = {"packet", "mEtherType", "mSourceMac", "mDestinationMac", "mIsBroadcastPacket"}

EchoInv ==
    /\ method \in {"plugin", "promiscuous", "monitor"}
    /\ ListInv /\ AirInv /\ DInv /\ RInv /\ PluginInv /\ NoEcho

-----------------------------------------------------------------------------
(* The operators.                                                          *)

\* Blacklisting refuses the address, and whoever was refused before stays refused.
LEMMA ListRefuses ==
    ASSUME NEW list, list = [white |-> list.white, black |-> list.black],
           NEW mac, mac \notin list.white
    PROVE  /\ ~IsMacAllowed(AddToMacBlackList(list, mac), mac)
           /\ \A other : ~IsMacAllowed(list, other) => ~IsMacAllowed(AddToMacBlackList(list, mac), other)
           /\ AddToMacBlackList(list, mac).white = list.white
           /\ list.black \subseteq AddToMacBlackList(list, mac).black
           /\ AddToMacBlackList(list, mac) =
                 [white |-> AddToMacBlackList(list, mac).white, black |-> AddToMacBlackList(list, mac).black]
  <1> DEFINE after == AddToMacBlackList(list, mac)
  <1>1. CASE IsMacAllowed(list, mac)
    <2>1. [list EXCEPT !.black = @ \cup {mac}] = [white |-> list.white, black |-> list.black \cup {mac}]
      <3> DEFINE white == list.white
                 black == list.black
      <3>1. list = [white |-> white, black |-> black]  OBVIOUS
      <3> HIDE DEF white, black
      <3>2. [list EXCEPT !.black = @ \cup {mac}] = [white |-> white, black |-> black \cup {mac}]
        BY <3>1
      <3> QED  BY <3>2 DEF white, black
    <2>2. after = [white |-> list.white, black |-> list.black \cup {mac}]
      BY <1>1, <2>1 DEF AddToMacBlackList
    <2>3. after.white = list.white /\ after.black = list.black \cup {mac}  BY <2>2
    <2> HIDE DEF after
    <2>4. ~IsMacAllowed(after, mac)
      BY <1>1, <2>3 DEF IsMacAllowed
    <2> QED  BY <2>2, <2>3, <2>4 DEF IsMacAllowed, after
  <1>2. CASE ~IsMacAllowed(list, mac)
    BY <1>2 DEF AddToMacBlackList
  <1> QED  BY <1>1, <1>2

\* A frame that is decoded as data is what was received.
LEMMA DataIsReceived ==
    ASSUME NEW frame, {"main", "sub"} \subseteq DOMAIN frame, Decode(frame).main = "Data"
    PROVE  Decode(frame) = frame
  BY DEF Decode

\* The converters keep the source of a frame.
LEMMA OutKeepsSource ==
    ASSUME NEW frame, Convert80211Out(frame) # Empty
    PROVE  Convert80211Out(frame).src = frame.src
  BY DEF Convert80211Out

LEMMA InKeepsSource ==
    ASSUME NEW frame, NEW bssid, NEW parameters, Convert8023Out(frame, bssid, parameters) # Empty
    PROVE  /\ Convert8023Out(frame, bssid, parameters).src = frame.src
           /\ {"src", "main", "sub"} \subseteq DOMAIN Convert8023Out(frame, bssid, parameters)
  BY DEF Convert8023Out, InsertIEEE80211Header

\* The plugin's handler forwards what it was given, whose source it has looked up.
LEMMA PluginUpdates ==
    ASSUME PluginInv, NEW frame, "src" \in DOMAIN frame
    PROVE  LET updated == UpdatePlugin(plugin, frame)
           IN  /\ DOMAIN updated = DOMAIN plugin
               /\ updated.mEtherType = "psp" => updated.mSourceMac = frame.src
               /\ ConvertPluginOut(updated) # Runt => ConvertPluginOut(updated).src = frame.src
  BY DEF PluginInv, UpdatePlugin, ConvertPluginOut

-----------------------------------------------------------------------------
(* The steps.                                                              *)

LEMMA EchoInit == Init => EchoInv
  <1> SUFFICES ASSUME Init PROVE EchoInv
    OBVIOUS
  <1>1. method \in {"plugin", "promiscuous", "monitor"}  BY FramesAssumption DEF Init
  <1>2. ListInv
    <2>1. CASE method = "monitor"
      <3>1. PICK only \in WhiteLists : mBlackList = [white |-> only, black |-> {}]
        BY <2>1 DEF Init
      <3>2. only \cap Own = {}  BY StrangersAssumption
      <3> QED  BY <2>1, <3>1, <3>2 DEF ListInv
    <2>2. CASE method # "monitor"
      <3>1. mBlackList = [white |-> {}, black |-> {Adapter}]
        BY <2>2 DEF Init, AddToMacBlackList, IsMacAllowed
      <3> QED  BY <2>2, <3>1 DEF ListInv
    <2> QED  BY <2>1, <2>2
  <1>3. AirInv /\ DInv /\ RInv /\ PluginInv /\ NoEcho
    BY DEF Init, AirInv, DInv, RInv, PluginInv, NoEcho
  <1> QED  BY <1>1, <1>2, <1>3 DEF EchoInv

\* A step of D, or of M: the lists and R's hands are untouched.
LEMMA ListsUntouched ==
    ASSUME EchoInv, UNCHANGED <<method, mBlackList>>
    PROVE  /\ method' \in {"plugin", "promiscuous", "monitor"} /\ ListInv'
           /\ \A mac : Refused(mac) => Refused(mac)'
           /\ \A frame : HasFields(frame) => HasFields(frame)'
           /\ UNCHANGED air => AirInv'
           /\ UNCHANGED rvars => RInv'
           /\ UNCHANGED dvars => DInv'
           /\ UNCHANGED plugin => PluginInv'
           /\ Silent => NoEcho'
  <1> USE DEF EchoInv
  <1>1. ListInv'  BY DEF ListInv
  <1>2. \A mac : Refused(mac) => Refused(mac)'  BY DEF Refused
  <1>3. \A frame : HasFields(frame) => HasFields(frame)'  BY DEF HasFields
  <1>4. UNCHANGED air => AirInv'  BY <1>2, <1>3 DEF AirInv
  <1>5. UNCHANGED rvars => RInv'  BY <1>2, <1>3 DEF RInv, rvars, HasFields, Refused
  <1>6. UNCHANGED dvars => DInv'  BY <1>2, <1>3 DEF DInv, dvars, HasFields, Refused
  <1> QED  BY <1>1, <1>2, <1>3, <1>4, <1>5, <1>6 DEF PluginInv, Silent, NoEcho

LEMMA EchoCapture == EchoInv /\ DCapture => EchoInv'
  <1> SUFFICES ASSUME EchoInv, DCapture PROVE EchoInv'
    OBVIOUS
  <1>1. UNCHANGED <<method, mBlackList, air, plugin>> /\ UNCHANGED rvars /\ Silent
    BY DEF DCapture, device, handlers, Silent
  <1>2. PICK frame \in AirFrames[method] \cup air : dframe' = frame
    BY DEF DCapture
  <1>3. HasFields(frame) /\ (frame.src \in Own => Refused(frame.src))
    BY FramesAssumption, StrangersAssumption DEF EchoInv, AirInv, HasFields
  <1>4. DInv'  BY <1>1, <1>2, <1>3 DEF DInv, HasFields, Refused
  <1> QED  BY <1>1, <1>4, ListsUntouched DEF EchoInv

\* The answer the lists gave about a frame that would be an echo.
LEMMA DMonitorKeeps == EchoInv /\ DMonitor => EchoInv'
  <1> SUFFICES ASSUME EchoInv, DMonitor PROVE EchoInv'
    OBVIOUS
  <1>1. UNCHANGED <<method, mBlackList, air, plugin>> /\ UNCHANGED rvars
    BY DEF DMonitor, device
  <1>2. DInv'  BY DEF DMonitor, Handled, DInv
  <1>3. NoEcho'
    <2> SUFFICES ASSUME toKai' # None, toKai'.frame \notin {Empty, Runt},
                        toKai'.frame.src \in Own, ~toKai'.raced
                 PROVE  FALSE
      BY DEF NoEcho
    <2>1. PICK verdict \in Verdicts(MonitorAnswer) :
             IF ShouldSend(handler, dframe, verdict)
             THEN Forward(Convert80211Out(dframe)) ELSE toKai' = None
      BY DEF DMonitor
    <2>2. ShouldSend(handler, dframe, verdict) /\ Forward(Convert80211Out(dframe))
      BY <2>1
    <2>3. ~raced /\ Convert80211Out(dframe) # Empty /\ Convert80211Out(dframe).src \in Own
      BY <2>2 DEF Forward
    <2>4. verdict = MonitorAnswer  BY <2>1, <2>3 DEF Verdicts
    <2>5. HasFields(dframe) /\ (dframe.src \in Own => Refused(dframe.src)) /\ method = "monitor"
      BY DEF DMonitor, EchoInv, DInv
    <2>6. Refused(dframe.src)  BY <2>3, <2>5, OutKeepsSource
    <2>7. Decode(dframe).main = "Data" /\ verdict  BY <2>2 DEF ShouldSend, OfNetwork
    <2>8. IsMacAllowed(mBlackList, dframe.src)
      BY <2>4, <2>7 DEF MonitorAnswer, Asked
    <2> QED  BY <2>6, <2>8 DEF Refused
  <1> QED  BY <1>1, <1>2, <1>3, ListsUntouched DEF EchoInv

\* In the wifi devices what is refused is what is blacklisted.
LEMMA RefusedIsListed ==
    ASSUME EchoInv, method # "monitor", NEW mac
    PROVE  Refused(mac) <=> IsMacBlackListed(mBlackList, mac)
  BY DEF EchoInv, ListInv, Refused, IsMacAllowed, IsMacBlackListed

LEMMA DPromiscuousKeeps == EchoInv /\ DPromiscuous => EchoInv'
  <1> SUFFICES ASSUME EchoInv, DPromiscuous PROVE EchoInv'
    OBVIOUS
  <1>1. UNCHANGED <<method, mBlackList, air, plugin>> /\ UNCHANGED rvars
    BY DEF DPromiscuous, device, handlers
  <1>2. DInv'  BY DEF DPromiscuous, Handled, DInv
  <1>3. NoEcho'
    <2> SUFFICES ASSUME toKai' # None, toKai'.frame.src \in Own, ~toKai'.raced PROVE FALSE
      BY DEF NoEcho
    <2>1. PICK listed \in Verdicts(IsMacBlackListed(mBlackList, dframe.src)) :
             IF listed THEN toKai' = None ELSE Forward(dframe)
      BY DEF DPromiscuous
    <2>2. ~listed /\ ~raced /\ dframe.src \in Own  BY <2>1 DEF Forward
    <2>3. ~IsMacBlackListed(mBlackList, dframe.src)  BY <2>1, <2>2 DEF Verdicts
    <2>4. Refused(dframe.src)  BY <2>2 DEF DPromiscuous, EchoInv, DInv
    <2> QED  BY <2>3, <2>4, RefusedIsListed DEF DPromiscuous
  <1> QED  BY <1>1, <1>2, <1>3, ListsUntouched DEF EchoInv

\* What the plugin device may do with a frame: nothing, a handshake or forward it.
LEMMA PluginOutcomes ==
    ASSUME DPlugin
    PROVE  LET updated   == UpdatePlugin(plugin, dframe)
               handshake == ConstructPSPPluginHandshake(updated.mSourceMac, Adapter)
           IN  \E listed \in Verdicts(IsMacBlackListed(mBlackList, updated.mSourceMac)) :
                  \/ sent' = None /\ toKai' = None /\ UNCHANGED air
                  \/ /\ ~listed /\ updated.mEtherType = "psp" /\ updated.mIsBroadcastPacket
                     /\ Sends(handshake, "handshake", None)
                     /\ air' = air \cup {handshake} /\ toKai' = None
                  \/ /\ ~listed /\ updated.mEtherType = "psp" /\ ~updated.mIsBroadcastPacket
                     /\ Forward(ConvertPluginOut(updated))
                     /\ sent' = None /\ UNCHANGED air
  <1> DEFINE updated == UpdatePlugin(plugin, dframe)
             handshake == ConstructPSPPluginHandshake(updated.mSourceMac, Adapter)
  <1>1. PICK listed \in Verdicts(IsMacBlackListed(mBlackList, updated.mSourceMac)) :
          CASE listed \/ updated.mEtherType # "psp" -> Silent /\ UNCHANGED mTitleId
            [] ~listed /\ updated.mEtherType = "psp" /\ updated.mIsBroadcastPacket ->
                /\ Sends(handshake, "handshake", None)
                /\ air' = air \cup {handshake}
                /\ toKai' = None /\ UNCHANGED <<mTitleId, told>>
            [] OTHER ->
                IF IsInformation(dframe)
                THEN /\ mTitleId' = ObtainTitleId(mTitleId, dframe)
                     /\ told' = IF mTitleId' # "" THEN mTitleId' ELSE told
                     /\ sent' = None /\ toKai' = None /\ UNCHANGED air
                ELSE /\ Forward(ConvertPluginOut(updated))
                     /\ sent' = None /\ UNCHANGED <<mTitleId, air, told>>
    BY Zenon DEF DPlugin
  <1> HIDE DEF updated, handshake
  <1>2. \/ sent' = None /\ toKai' = None /\ UNCHANGED air
        \/ /\ ~listed /\ updated.mEtherType = "psp" /\ updated.mIsBroadcastPacket
           /\ Sends(handshake, "handshake", None)
           /\ air' = air \cup {handshake} /\ toKai' = None
        \/ /\ ~listed /\ updated.mEtherType = "psp" /\ ~updated.mIsBroadcastPacket
           /\ Forward(ConvertPluginOut(updated))
           /\ sent' = None /\ UNCHANGED air
    <2>1. CASE listed \/ updated.mEtherType # "psp"  BY <1>1, <2>1 DEF Silent
    <2>2. CASE ~listed /\ updated.mEtherType = "psp" /\ updated.mIsBroadcastPacket
      BY <1>1, <2>2
    <2>3. CASE ~listed /\ updated.mEtherType = "psp" /\ ~updated.mIsBroadcastPacket
      <3>1. CASE IsInformation(dframe)  BY <1>1, <2>3, <3>1
      <3>2. CASE ~IsInformation(dframe)  BY <1>1, <2>3, <3>2
      <3> QED  BY <3>1, <3>2
    <2> QED  BY <2>1, <2>2, <2>3
  <1> QED  BY <1>2 DEF updated, handshake

\* The plugin device forwards the frame it has looked up, and puts handshakes of
\* the adapter into the air.
LEMMA DPluginKeeps == EchoInv /\ DPlugin => EchoInv'
  <1> SUFFICES ASSUME EchoInv, DPlugin PROVE EchoInv'
    OBVIOUS
  <1> DEFINE updated == UpdatePlugin(plugin, dframe)
             handshake == ConstructPSPPluginHandshake(updated.mSourceMac, Adapter)
  <1>1. UNCHANGED <<method, mBlackList>> /\ UNCHANGED rvars /\ plugin' = updated /\ method = "plugin"
    BY DEF DPlugin, device
  <1>2. DInv'  BY DEF DPlugin, Handled, DInv
  <1>3. HasFields(dframe) /\ (dframe.src \in Own => Refused(dframe.src))
    BY DEF DPlugin, EchoInv, DInv
  <1>4. /\ DOMAIN updated = DOMAIN plugin
        /\ updated.mEtherType = "psp" => updated.mSourceMac = dframe.src
        /\ ConvertPluginOut(updated) # Runt => ConvertPluginOut(updated).src = dframe.src
    BY <1>3, PluginUpdates DEF EchoInv, HasFields
  <1>5. PICK listed \in Verdicts(IsMacBlackListed(mBlackList, updated.mSourceMac)) :
           \/ toKai' = None /\ (air' = air \/ air' = air \cup {handshake})
           \/ /\ ~listed /\ updated.mEtherType = "psp" /\ UNCHANGED air
              /\ Forward(ConvertPluginOut(updated))
    <2> HIDE DEF updated, handshake
    <2> QED  BY PluginOutcomes DEF updated, handshake
  <1> HIDE DEF updated
  <1>6. AirInv'
    <2>1. HasFields(handshake) /\ handshake.src = Adapter
      BY <1>1 DEF HasFields, ConstructPSPPluginHandshake
    <2>2. Refused(Adapter)
      BY <1>1, RefusedIsListed DEF EchoInv, ListInv, IsMacBlackListed
    <2> HIDE DEF handshake
    <2>3. air' = air \/ air' = air \cup {handshake}  BY <1>5
    <2>4. ASSUME NEW frame \in air' PROVE HasFields(frame) /\ Refused(frame.src)
      BY <2>1, <2>2, <2>3 DEF EchoInv, AirInv
    <2> QED  BY <1>1, <2>4, ListsUntouched DEF AirInv
  <1>7. NoEcho'
    <2> SUFFICES ASSUME toKai' # None, toKai'.frame # Runt, toKai'.frame.src \in Own, ~toKai'.raced
                 PROVE  FALSE
      BY DEF NoEcho
    <2>1. ~listed /\ updated.mEtherType = "psp" /\ Forward(ConvertPluginOut(updated))
      BY <1>5
    <2>2. ~raced /\ ConvertPluginOut(updated) # Runt /\ ConvertPluginOut(updated).src \in Own
      BY <2>1 DEF Forward
    <2>3. dframe.src \in Own /\ updated.mSourceMac = dframe.src  BY <1>4, <2>1, <2>2
    <2>4. ~IsMacBlackListed(mBlackList, dframe.src)
      BY <1>5, <2>1, <2>2, <2>3 DEF Verdicts
    <2> QED  BY <1>1, <1>3, <2>3, <2>4, RefusedIsListed
  <1>8. PluginInv'  BY <1>1, <1>4 DEF EchoInv, PluginInv
  <1> QED  BY <1>1, <1>2, <1>6, <1>7, <1>8, ListsUntouched DEF EchoInv

LEMMA RReceiveKeeps == EchoInv /\ RReceive => EchoInv'
  <1> SUFFICES ASSUME EchoInv, RReceive PROVE EchoInv'
    OBVIOUS
  <1>1. UNCHANGED <<method, mBlackList, air, plugin>> /\ UNCHANGED dvars /\ Silent
    BY DEF RReceive, device, handlers, Silent
  <1>2. RInv'
    <2>1. rpc' = "listing" /\ rframe' \in KaiFrames  BY DEF RReceive
    <2>2. CASE method = "monitor"
      <3>1. PICK parameters \in Torn : rdata' = Convert8023Out(rframe', handler.mLockedBSSID, parameters)
        BY <2>2 DEF RReceive
      <3>2. rdata' = Empty \/ (rdata'.src = rframe'.src /\ HasFields(rdata'))
        BY <3>1, InKeepsSource DEF HasFields
      <3> QED  BY <1>1, <2>1, <2>2, <3>2 DEF RInv, HasFields
    <2>3. CASE method # "monitor"
      <3>1. rdata' = rframe'  BY <2>3 DEF RReceive
      <3> QED  BY <1>1, <2>1, <2>3, <3>1 DEF RInv
    <2> QED  BY <2>2, <2>3
  <1> QED  BY <1>1, <1>2, ListsUntouched DEF EchoInv

LEMMA RBlackListKeeps == EchoInv /\ RBlackList => EchoInv'
  <1> SUFFICES ASSUME EchoInv, RBlackList PROVE EchoInv'
    OBVIOUS
  <1>1. /\ UNCHANGED <<method, air, plugin, dpc, dframe, rframe, rdata>>
        /\ Silent /\ rpc = "listing" /\ rpc' = "sending"
        /\ mBlackList' = AddToMacBlackList(mBlackList, rframe.src)
    BY DEF RBlackList, device, Silent
  <1>2. rframe \in KaiFrames  BY <1>1 DEF EchoInv, RInv
  <1>3. rframe.src \in Own  BY <1>2 DEF Own
  <1>4. rframe.src \notin mBlackList.white  BY <1>3 DEF EchoInv, ListInv
  <1>5. /\ Refused(rframe.src)'
        /\ \A mac : Refused(mac) => Refused(mac)'
        /\ mBlackList'.white = mBlackList.white /\ mBlackList.black \subseteq mBlackList'.black
        /\ mBlackList' = [white |-> mBlackList'.white, black |-> mBlackList'.black]
    BY <1>1, <1>4, ListRefuses DEF EchoInv, ListInv, Refused
  <1>6. \A frame : HasFields(frame) <=> HasFields(frame)'  BY <1>1 DEF HasFields
  <1>7. ListInv'  BY <1>1, <1>5 DEF EchoInv, ListInv
  <1>8. AirInv'  BY <1>1, <1>5, <1>6 DEF EchoInv, AirInv, Refused
  <1>9. DInv'  BY <1>1, <1>5, <1>6 DEF EchoInv, DInv, Refused
  <1>10. RInv'  BY <1>1, <1>5, <1>6 DEF EchoInv, RInv
  <1>11. NoEcho' /\ PluginInv'  BY <1>1 DEF EchoInv, NoEcho, PluginInv, Silent
  <1> QED  BY <1>1, <1>7, <1>8, <1>9, <1>10, <1>11 DEF EchoInv

\* What R sends is refused when it is captured: its source was listed before.
LEMMA RSendKeeps == EchoInv /\ RSend => EchoInv'
  <1> SUFFICES ASSUME EchoInv, RSend PROVE EchoInv'
    OBVIOUS
  <1>1. /\ UNCHANGED <<method, mBlackList, plugin>> /\ UNCHANGED dvars
        /\ rpc = "sending" /\ rpc' = "loop" /\ toKai' = None
        /\ air' = air \/ (rdata # Empty /\ air' = air \cup {Outgoing})
    BY DEF RSend, device, handlers
  <1>2. RInv'  BY <1>1 DEF RInv
  <1>3. NoEcho'  BY <1>1 DEF NoEcho
  <1>4. rdata # Empty => HasFields(Outgoing) /\ Refused(Outgoing.src)
    <2>1. rframe \in KaiFrames /\ Refused(rframe.src)  BY <1>1 DEF EchoInv, RInv
    <2>2. rframe = [dst |-> rframe.dst, src |-> rframe.src, type |-> rframe.type, body |-> rframe.body]
      BY <2>1, FramesAssumption
    <2>3. CASE method = "plugin"
      <3>1. rdata = rframe  BY <1>1, <2>3 DEF EchoInv, RInv
      <3>2. Outgoing.src = Adapter /\ "src" \in DOMAIN Outgoing
        BY <2>2, <2>3, <3>1 DEF Outgoing, ConvertPluginIn
      <3>3. Refused(Adapter)
        BY <2>3, RefusedIsListed DEF EchoInv, ListInv, IsMacBlackListed
      <3> QED  BY <2>3, <3>2, <3>3 DEF HasFields
    <2>4. CASE method = "promiscuous"
      <3>1. rdata = rframe  BY <1>1, <2>4 DEF EchoInv, RInv
      <3>2. (Outgoing = rframe \/ Outgoing.src = Adapter) /\ "src" \in DOMAIN Outgoing
        BY <2>2, <2>4, <3>1 DEF Outgoing, ReplaceDDS
      <3>3. Refused(Adapter)
        BY <2>4, RefusedIsListed DEF EchoInv, ListInv, IsMacBlackListed
      <3> QED  BY <2>1, <2>4, <3>2, <3>3 DEF HasFields
    <2>5. CASE method = "monitor"
      <3>1. Outgoing = rdata  BY <2>5 DEF Outgoing
      <3> QED  BY <1>1, <2>1, <2>5, <3>1 DEF EchoInv, RInv
    <2> QED  BY <2>3, <2>4, <2>5 DEF EchoInv
  <1>5. AirInv'
    <2>1. ASSUME NEW frame \in air' PROVE HasFields(frame) /\ Refused(frame.src)
      BY <1>1, <1>4 DEF EchoInv, AirInv
    <2> QED  BY <1>1, <2>1, ListsUntouched DEF AirInv
  <1> QED  BY <1>1, <1>2, <1>3, <1>5, ListsUntouched DEF EchoInv

\* The steps that end a thread, change the filter or close the device.
LEMMA OthersKeep ==
    EchoInv /\ (DEnds \/ DCrash \/ RCrash \/ RConnect \/ MClose \/ MJoined \/ UNCHANGED vars) => EchoInv'
  <1> SUFFICES ASSUME EchoInv,
                      DEnds \/ DCrash \/ RCrash \/ RConnect \/ MClose \/ MJoined \/ UNCHANGED vars
               PROVE  EchoInv'
    OBVIOUS
  <1>1. CASE DEnds
    <2>1. UNCHANGED <<method, mBlackList, air, plugin>> /\ UNCHANGED rvars /\ Silent /\ dpc' = "ended"
      BY <1>1 DEF DEnds, device, handlers, Silent
    <2>2. DInv'  BY <2>1 DEF DInv
    <2> QED  BY <2>1, <2>2, ListsUntouched DEF EchoInv
  <1>2. CASE DCrash \/ RCrash
    <2>1. /\ UNCHANGED <<method, mBlackList, air, plugin>> /\ Silent
          /\ dpc' = "crashed" /\ rpc' = "crashed"
      BY <1>2 DEF DCrash, RCrash, Crashes, handlers, Silent
    <2>2. DInv' /\ RInv'  BY <2>1 DEF DInv, RInv
    <2> QED  BY <2>1, <2>2, ListsUntouched DEF EchoInv
  <1>3. CASE RConnect
    <2>1. /\ UNCHANGED <<method, mBlackList, air, plugin>> /\ UNCHANGED rvars /\ Silent
          /\ UNCHANGED <<dpc, dframe>>
      BY <1>3 DEF RConnect, device, Silent, rvars
    <2>2. DInv'  BY <2>1 DEF EchoInv, DInv, HasFields, Refused
    <2> QED  BY <2>1, <2>2, ListsUntouched DEF EchoInv
  <1>4. CASE MClose \/ MJoined
    <2>1. UNCHANGED <<method, mBlackList, air, plugin>> /\ UNCHANGED rvars /\ UNCHANGED dvars /\ Silent
      BY <1>4 DEF MClose, MJoined, handlers, Silent
    <2> QED  BY <2>1, ListsUntouched DEF EchoInv
  <1>5. CASE UNCHANGED vars
    <2>1. UNCHANGED <<method, mBlackList, air, plugin, toKai>> /\ UNCHANGED rvars /\ UNCHANGED dvars
      BY <1>5 DEF vars, device, handlers, outputs
    <2>2. NoEcho'  BY <2>1 DEF EchoInv, NoEcho
    <2> QED  BY <2>1, <2>2, ListsUntouched DEF EchoInv
  <1> QED  BY <1>1, <1>2, <1>3, <1>4, <1>5

LEMMA EchoStep == EchoInv /\ [Next]_vars => EchoInv'
  BY EchoCapture, DMonitorKeeps, DPluginKeeps, DPromiscuousKeeps, RReceiveKeeps, RBlackListKeeps,
     RSendKeeps, OthersKeep DEF Next

LEMMA EchoAlways == Spec => []EchoInv
  BY EchoInit, EchoStep, PTL DEF Spec

\* Nothing that came from XLink Kai is returned to it, whichever device, frames and
\* lists there are, as long as no search of the list overlaps an addition to it
\* (XLinkKaiConnection.cpp:205-207, MacBlackList.cpp:8-58).
THEOREM NothingReturned == Spec => []NoEcho
  <1>1. EchoInv => NoEcho  BY DEF EchoInv
  <1> QED  BY <1>1, EchoAlways, PTL

-----------------------------------------------------------------------------
(* The handshake of the plugin.                                            *)

\* The flag a frame leaves behind is its own, unless it is too short.
LEMMA FlagIsOwn ==
    ASSUME PluginInv, NEW frame, frame.body # <<"bit">>,
           UpdatePlugin(plugin, frame).mEtherType = "psp",
           UpdatePlugin(plugin, frame).mIsBroadcastPacket
    PROVE  frame.dst = Broadcast /\ UpdatePlugin(plugin, frame).mSourceMac = frame.src
  BY DEF PluginInv, UpdatePlugin

LEMMA HandshakeStep ==
    ASSUME PluginInv, HandshakeAnswersBroadcast, [Next]_vars
    PROVE  HandshakeAnswersBroadcast'
  <1>1. CASE DPlugin
    <2> DEFINE updated == UpdatePlugin(plugin, dframe)
    <2> SUFFICES ASSUME sent' # None, sent'.why = "handshake", sent'.from.body # <<"bit">>
                 PROVE  sent'.from.dst = Broadcast /\ sent'.frame.dst = sent'.from.src
      BY DEF HandshakeAnswersBroadcast
    <2>1. /\ updated.mEtherType = "psp" /\ updated.mIsBroadcastPacket
          /\ Sends(ConstructPSPPluginHandshake(updated.mSourceMac, Adapter), "handshake", None)
      BY <1>1, PluginOutcomes
    <2>2. sent'.from = dframe /\ sent'.frame = ConstructPSPPluginHandshake(updated.mSourceMac, Adapter)
      BY <2>1 DEF Sends
    <2>3. dframe.dst = Broadcast /\ updated.mSourceMac = dframe.src
      BY <2>1, <2>2, FlagIsOwn
    <2> HIDE DEF updated
    <2> QED  BY <2>2, <2>3 DEF ConstructPSPPluginHandshake
  <1>2. CASE DMonitor \/ RSend
    <2>1. CASE DMonitor
      <3>1. sent' = None \/ Sends(ConstructAcknowledgementFrame(dframe.src, handler'.control), "ack",
                                  handler'.control)
        BY <2>1 DEF DMonitor
      <3> QED  BY <3>1 DEF Sends, HandshakeAnswersBroadcast
    <2>2. CASE RSend
      <3>1. sent' = None
            \/ sent' = [frame |-> Outgoing, why |-> "kai", from |-> rframe, parameters |-> None]
        BY <2>2 DEF RSend
      <3> QED  BY <3>1 DEF HandshakeAnswersBroadcast
    <2> QED  BY <1>2, <2>1, <2>2
  <1>3. CASE DCapture \/ DEnds \/ DCrash \/ DPromiscuous \/ RReceive \/ RBlackList \/ RCrash \/ RConnect
             \/ MClose \/ MJoined
    <2>1. sent' = None
      BY <1>3 DEF DCapture, DEnds, DCrash, DPromiscuous, RReceive, RBlackList, RCrash, RConnect,
         MClose, MJoined, Silent
    <2> QED  BY <2>1 DEF HandshakeAnswersBroadcast
  <1>4. CASE UNCHANGED vars
    BY <1>4 DEF HandshakeAnswersBroadcast, vars, outputs
  <1> QED  BY <1>1, <1>2, <1>3, <1>4 DEF Next

\* The plugin's handshake answers a broadcast and goes to its sender, whatever
\* frames came before it (WirelessPSPPluginDevice.cpp:57-71).
THEOREM HandshakeIsAnswer == Spec => []HandshakeAnswersBroadcast
  <1>1. EchoInv => PluginInv  BY DEF EchoInv
  <1>2. Init => HandshakeAnswersBroadcast  BY DEF Init, HandshakeAnswersBroadcast
  <1> QED  BY <1>1, <1>2, EchoAlways, HandshakeStep, PTL DEF Spec

-----------------------------------------------------------------------------
(* The end of a device.                                                    *)

ClosedInv == mpc = "closed" => dpc = "ended" /\ ~open

LEMMA ClosedStep ==
    ASSUME ClosedInv, [Next]_vars
    PROVE  ClosedInv' /\ (mpc = "closed" => Silent \/ UNCHANGED vars)
  <1>1. CASE DCapture \/ DEnds \/ DCrash \/ DMonitor \/ DPlugin \/ DPromiscuous
    <2>1. mpc # "closed" /\ mpc' # "closed"
      BY <1>1 DEF ClosedInv, DCapture, DEnds, DCrash, DMonitor, DPlugin, DPromiscuous, device, Crashes
    <2> QED  BY <2>1 DEF ClosedInv
  <1>2. CASE RReceive \/ RBlackList \/ RConnect
    BY <1>2 DEF ClosedInv, RReceive, RBlackList, RConnect, device, dvars
  <1>3. CASE RSend
    <2>1. UNCHANGED <<mpc, open, dpc>>  BY <1>3 DEF RSend, device, dvars
    <2>2. ~open => Silent  BY <1>3 DEF RSend, Silent
    <2> QED  BY <2>1, <2>2 DEF ClosedInv
  <1>4. CASE RCrash
    BY <1>4 DEF ClosedInv, RCrash, Crashes
  <1>5. CASE MClose \/ MJoined
    BY <1>5 DEF ClosedInv, MClose, MJoined, dvars
  <1>6. CASE UNCHANGED vars
    BY <1>6 DEF ClosedInv, vars, device, dvars
  <1> QED  BY <1>1, <1>2, <1>3, <1>4, <1>5, <1>6 DEF Next

\* A closed device is silent, also towards a frame that is still being delivered
\* (MonitorDevice.cpp:72-88, 146-152, WirelessPromiscuousBase.cpp:80-118).
THEOREM ClosedStaysSilent == Spec => ClosedIsSilent
  <1>1. Init => ClosedInv  BY DEF Init, ClosedInv
  <1>2. ClosedInv /\ [Next]_vars => ClosedInv'  BY ClosedStep
  <1>3. ClosedInv /\ [Next]_vars => [mpc = "closed" => Silent]_vars  BY ClosedStep
  <1> QED  BY <1>1, <1>2, <1>3, PTL DEF Spec, ClosedIsSilent

-----------------------------------------------------------------------------
(* Monitor mode: what is in the air, what D and R hold and what the handler *)
(* remembers of it.                                                         *)

Holding == rpc \in {"listing", "sending"}

\* A header that yields parameters, with a true flag.
Readable(frame) ==
    FillRadioTapParameters(frame.header) \in Parameters(Values) /\ FlagIsTrue(frame)

ReadsAsData(frame) == Readable(frame) /\ Decode(frame) = frame /\ frame.main = "Data"

\* What D looks at was captured from the air or sent by the device itself.
ReadInv ==
    /\ dpc = "asking" => dframe \in AirFrames[method] \cup air
    /\ method = "monitor" =>
          /\ \A frame \in air : ReadsAsData(frame)
          /\ Holding /\ rdata # Empty => ReadsAsData(rdata) /\ Convert80211Out(rdata) = rframe

HandlerInv ==
    method = "monitor" =>
        /\ DOMAIN handler = {"mLockedBSSID", "mLockedSSID", "mSSIDList", "data", "control"}
        /\ handler.mSSIDList \in Filters \cup {{ssid} : ssid \in HostSSIDs}
        /\ {handler.data, handler.control} \subseteq Parameters(Values)

\* The network the handler is locked to is the one that was told, and has been
\* in the air.
LockInv ==
    method = "monitor" =>
        /\ mCurrentlyConnectedNetwork = handler.mLockedSSID /\ told = handler.mLockedSSID
        /\ \/ handler.mLockedBSSID = "0"
           \/ \E frame \in AirFrames["monitor"] :
                 frame.ssid = handler.mLockedSSID /\ frame.bssid = handler.mLockedBSSID

AirwayInv == EchoInv /\ ReadInv /\ HandlerInv /\ LockInv

\* The reader's wrong padding does no harm to the flags: what comes before them
\* is a multiple of four bytes.
LEMMA FlagsAreFound ==
    ASSUME NEW header, IsStandard(header), "Flags" \in header.present
    PROVE  Offset(header, "Flags") = FlagsPlace(header)
  <1> DEFINE first == 4 + 4 * header.words
  <1>1. header.words \in Nat  BY DEF IsStandard
  <1>2. Pad(first, 8) = 8 * ((first + 7) \div 8)
    <2>1. PICK half \in Nat : header.words = 2 * half \/ header.words = 2 * half + 1
      <3>1. \A n \in Nat : \E half \in Nat : n = 2 * half \/ n = 2 * half + 1
        <4>1. \A n \in Nat : n \div 2 \in Nat /\ (n = 2 * (n \div 2) \/ n = 2 * (n \div 2) + 1)
          OBVIOUS
        <4> QED  BY <4>1
      <3> QED  BY <1>1, <3>1
    <2>2. CASE header.words = 2 * half
      <3>1. first = 8 * half + 4  BY <2>2
      <3>2. first % 8 = 4 /\ (first + 7) \div 8 = half + 1  BY <3>1
      <3> QED  BY <3>1, <3>2 DEF Pad
    <2>3. CASE header.words = 2 * half + 1
      <3>1. first = 8 * (half + 1)  BY <2>3
      <3>2. first % 8 = 0 /\ (first + 7) \div 8 = half + 1  BY <3>1
      <3> QED  BY <3>1, <3>2 DEF Pad
    <2> QED  BY <2>1, <2>2, <2>3
  <1> QED  BY <1>1, <1>2, FlagsOffset DEF FlagsPlace

\* What is captured can be read.
LEMMA CapturedIsReadable ==
    ASSUME NEW frame \in AirFrames["monitor"]
    PROVE  Readable(frame)
  <1> DEFINE header == frame.header
             read == GetRawData(header, "Flags", "short")
  <1>1. /\ IsStandard(header) /\ frame.at = header.length
        /\ frame.fcs <=> ("Flags" \in header.present /\ HasFCS(header.at[FlagsPlace(header)]))
    BY DriverAssumption
  <1>2. {"main", "sub"} \subseteq DOMAIN frame  BY FramesAssumption
  <1>3. header.length \in Nat \ {0}  BY <1>1 DEF IsStandard
  <1>4. read \in FlagValues /\ (HasFCS(read) <=> frame.fcs)
    <2>1. CASE "Flags" \in header.present
      <3>1. read = header.at[FlagsPlace(header)] /\ read \in FlagValues
        BY <1>1, <2>1, FlagsAreFound DEF GetRawData, IsStandard
      <3> QED  BY <1>1, <2>1, <3>1
    <2>2. CASE "Flags" \notin header.present
      <3>1. read = "short"  BY <2>2 DEF GetRawData
      <3> QED  BY <1>1, <2>2, <3>1 DEF FlagValues, HasFCS
    <2> QED  BY <2>1, <2>2
  <1>5. FillRadioTapParameters(header) \in Parameters(Values)
    <2>1. \A index \in DOMAIN header.at : header.at[index] \in Values
      BY DEF Values
    <2>2. {"11", "1", "none", Junk} \subseteq Values  BY DEF Values
    <2> HIDE DEF header
    <2> QED  BY <1>3, <1>4, <2>1, <2>2, ReadsParameters
  <1>6. ASSUME Decode(frame).main = "Data"
        PROVE  FillRadioTapParameters(header).flags = read
    <2>1. FillRadioTapParameters(header).length = header.length
      BY <1>1, <1>2, <1>6 DEF Decode
    <2>2. ~(header.length > cMaxLength)
      BY <1>3, <2>1 DEF FillRadioTapParameters, Default
    <2> QED  BY <2>2 DEF FillRadioTapParameters, Default
  <1> QED  BY <1>4, <1>5, <1>6 DEF Readable, FlagIsTrue

\* What a handler makes of a frame: parameters, and perhaps another network.
HasParts(h) ==
    /\ DOMAIN h = {"mLockedBSSID", "mLockedSSID", "mSSIDList", "data", "control"}
    /\ h.data \in Parameters(Values) /\ h.control \in Parameters(Values)

\* A handler that has read a frame knows its parts.
LEMMA UpdateKeepsParts ==
    ASSUME NEW h, HasParts(h), NEW frame, {"main", "sub"} \subseteq DOMAIN frame, Readable(frame),
           NEW verdict
    PROVE  LET after == Update80211(h, frame, verdict)
           IN  /\ HasParts(after) /\ after.mSSIDList = h.mSSIDList
               /\ \/ after.mLockedSSID = h.mLockedSSID /\ after.mLockedBSSID = h.mLockedBSSID
                  \/ /\ frame.main = "Management" /\ Decode(frame) = frame
                     /\ after.mLockedSSID = frame.ssid /\ after.mLockedBSSID = frame.bssid
  <1> DEFINE decoded == Decode(frame)
             after == Update80211(h, frame, verdict)
             read == FillRadioTapParameters(decoded.header)
  <1>1. decoded.header = frame.header /\ (decoded.sub = "Beacon" => decoded = frame)
    BY DEF Decode
  <1>2. read \in Parameters(Values)  BY <1>1 DEF Readable
  <1> HIDE DEF decoded, read
  <1>3. \/ after = h
        \/ after = [h EXCEPT !.control = read]
        \/ after = [h EXCEPT !.data = read]
        \/ /\ decoded.main = "Management" /\ decoded.sub = "Beacon"
           /\ after = [h EXCEPT !.mLockedBSSID = decoded.bssid, !.mLockedSSID = decoded.ssid]
    BY DEF Update80211, UpdateControl, UpdateData, UpdateManagement, decoded, read
  <1> HIDE DEF after
  <1>4. HasParts(after) /\ after.mSSIDList = h.mSSIDList
    BY <1>2, <1>3 DEF HasParts
  <1>5. \/ after.mLockedSSID = h.mLockedSSID /\ after.mLockedBSSID = h.mLockedBSSID
        \/ /\ frame.main = "Management" /\ decoded = frame
           /\ after.mLockedSSID = frame.ssid /\ after.mLockedBSSID = frame.bssid
    BY <1>1, <1>3 DEF HasParts
  <1> QED  BY <1>4, <1>5 DEF after, decoded

LEMMA AirwayInit == Init => ReadInv /\ HandlerInv /\ LockInv
  <1> SUFFICES ASSUME Init PROVE ReadInv /\ HandlerInv /\ LockInv
    OBVIOUS
  <1>1. ReadInv  BY DEF Init, ReadInv, Holding
  <1>2. Default \in Parameters(Values)
    BY DEF Default, Parameters, Values, FlagValues
  <1>3. ASSUME method = "monitor"
        PROVE  /\ DOMAIN handler = {"mLockedBSSID", "mLockedSSID", "mSSIDList", "data", "control"}
               /\ handler.mSSIDList \in Filters
               /\ handler.data = Default /\ handler.control = Default
               /\ handler.mLockedSSID = "" /\ handler.mLockedBSSID = "0"
    <2>1. PICK filter \in Filters :
             handler = [mLockedBSSID |-> "0", mLockedSSID |-> "", mSSIDList |-> filter,
                        data |-> Default, control |-> Default]
      BY <1>3 DEF Init
    <2> HIDE DEF Default
    <2> QED  BY <2>1
  <1>4. HandlerInv  BY <1>2, <1>3 DEF HandlerInv
  <1>5. LockInv
    <2>1. mCurrentlyConnectedNetwork = "" /\ told = ""  BY DEF Init
    <2> QED  BY <2>1, <1>3 DEF LockInv
  <1> QED  BY <1>1, <1>4, <1>5

\* What D holds in monitor mode can be read.
LEMMA HeldIsReadable ==
    ASSUME EchoInv, ReadInv, method = "monitor", dpc = "asking"
    PROVE  /\ Readable(dframe) /\ {"main", "sub"} \subseteq DOMAIN dframe
           /\ dframe \in AirFrames["monitor"] \/ (dframe \in air /\ dframe.main = "Data" /\ Refused(dframe.src))
  <1>1. {"main", "sub"} \subseteq DOMAIN dframe  BY DEF EchoInv, DInv, HasFields
  <1>2. CASE dframe \in AirFrames["monitor"]  BY <1>1, <1>2, CapturedIsReadable
  <1>3. CASE dframe \in air
    BY <1>1, <1>3 DEF ReadInv, ReadsAsData, EchoInv, AirInv
  <1> QED  BY <1>2, <1>3 DEF ReadInv

\* Whatever R reads of the parameters while D writes them is of the type.
LEMMA TornIsTyped ==
    ASSUME EchoInv, ReadInv, HandlerInv, method = "monitor"
    PROVE  Torn \subseteq Parameters(Values)
  <1> DEFINE new == IF dpc = "asking" THEN Update80211(handler, dframe, TRUE).data ELSE handler.data
             old == handler.data
  <1>1. HasParts(handler)  BY DEF HandlerInv, HasParts
  <1>2. old \in Parameters(Values)  BY <1>1 DEF HasParts
  <1>3. new \in Parameters(Values)
    <2>1. CASE dpc = "asking"
      <3>1. HasParts(Update80211(handler, dframe, TRUE))
        BY <1>1, <2>1, HeldIsReadable, UpdateKeepsParts
      <3> QED  BY <2>1, <3>1 DEF HasParts
    <2>2. CASE dpc # "asking"  BY <1>2, <2>2
    <2> QED  BY <2>1, <2>2
  <1>4. Torn = [length : {old.length, new.length}, flags : {old.flags, new.flags},
                rate : {old.rate, new.rate}, channel : {old.channel, new.channel},
                mcs : {old.mcs, new.mcs}]
    BY DEF Torn
  <1> HIDE DEF old, new
  <1>5. \A p \in {old, new} : /\ p.length \in Nat /\ p.flags \in FlagValues
                              /\ p.rate \in Values /\ p.channel \in Values /\ p.mcs \in Values
    BY <1>2, <1>3 DEF Parameters
  <1> QED  BY <1>4, <1>5 DEF Parameters

\* Nobody touches the handler, or what was told.
LEMMA HandlerUntouched ==
    ASSUME HandlerInv, LockInv, UNCHANGED <<method, handler, mCurrentlyConnectedNetwork>>,
           method = "monitor" => UNCHANGED told
    PROVE  HandlerInv' /\ LockInv'
  BY DEF HandlerInv, LockInv

\* The device's thread.
LEMMA DKeepsAirway ==
    ASSUME AirwayInv, DCapture \/ DEnds \/ DCrash \/ DPlugin \/ DPromiscuous
    PROVE  ReadInv' /\ HandlerInv' /\ LockInv'
  <1> USE DEF AirwayInv
  <1>1. /\ UNCHANGED <<method, handler, mCurrentlyConnectedNetwork>>
        /\ method = "monitor" => UNCHANGED <<told, air>>
    BY DEF DCapture, DEnds, DCrash, DPlugin, DPromiscuous, device, handlers, Silent
  <1>2. HandlerInv' /\ LockInv'  BY <1>1, HandlerUntouched
  <1>3. CASE DCapture
    <2>1. dframe' \in AirFrames[method] \cup air /\ UNCHANGED <<air, rpc, rframe, rdata>>
      BY <1>3 DEF DCapture, Silent, rvars
    <2> QED  BY <1>1, <1>2, <2>1 DEF ReadInv, Holding
  <1>4. CASE DEnds \/ DPlugin \/ DPromiscuous
    <2>1. dpc' # "asking" /\ UNCHANGED <<rpc, rframe, rdata>>
      BY <1>4 DEF DEnds, DPlugin, DPromiscuous, Handled, rvars
    <2> QED  BY <1>1, <1>2, <2>1 DEF ReadInv, Holding
  <1>5. CASE DCrash
    <2>1. dpc' # "asking" /\ ~Holding'  BY <1>5 DEF DCrash, Crashes, Holding
    <2> QED  BY <1>1, <1>2, <2>1 DEF ReadInv
  <1> QED  BY <1>3, <1>4, <1>5

\* A beacon that passes the filter is of a network in the air, and is told.
LEMMA DMonitorKeepsAirway ==
    ASSUME AirwayInv, DMonitor
    PROVE  ReadInv' /\ HandlerInv' /\ LockInv'
  <1> USE DEF AirwayInv
  <1>1. /\ method = "monitor" /\ dpc = "asking" /\ dpc' = "loop"
        /\ UNCHANGED <<method, air, rpc, rframe, rdata>>
    BY DEF DMonitor, Handled, device, rvars
  <1>2. PICK verdict \in Verdicts(MonitorAnswer), seen \in FiltersSeen :
           /\ handler' = [Update80211([handler EXCEPT !.mSSIDList = seen], dframe, verdict)
                          EXCEPT !.mSSIDList = handler.mSSIDList]
           /\ Names(handler, handler')
    BY DEF DMonitor
  <1> DEFINE before == [handler EXCEPT !.mSSIDList = seen]
             after  == Update80211(before, dframe, verdict)
  <1>3. HasParts(before) /\ before.mLockedSSID = handler.mLockedSSID
        /\ before.mLockedBSSID = handler.mLockedBSSID
    BY <1>1 DEF HandlerInv, HasParts
  <1>4. /\ HasParts(after)
        /\ \/ after.mLockedSSID = handler.mLockedSSID /\ after.mLockedBSSID = handler.mLockedBSSID
           \/ /\ dframe.main = "Management"
              /\ after.mLockedSSID = dframe.ssid /\ after.mLockedBSSID = dframe.bssid
    <2> HIDE DEF before
    <2>1. Readable(dframe) /\ {"main", "sub"} \subseteq DOMAIN dframe  BY <1>1, HeldIsReadable
    <2> QED  BY <1>3, <2>1, UpdateKeepsParts
  <1> HIDE DEF before, after
  <1>5. handler' = [after EXCEPT !.mSSIDList = handler.mSSIDList]  BY <1>2 DEF before, after
  <1>6. HandlerInv'  BY <1>1, <1>4, <1>5 DEF HandlerInv, HasParts
  <1>7. LockInv'
    <2>1. handler'.mLockedSSID = after.mLockedSSID /\ handler'.mLockedBSSID = after.mLockedBSSID
      BY <1>4, <1>5 DEF HasParts
    <2>2. mCurrentlyConnectedNetwork' = handler'.mLockedSSID /\ told' = handler'.mLockedSSID
      BY <1>1, <1>2 DEF Names, LockInv
    <2>3. CASE handler'.mLockedSSID = handler.mLockedSSID /\ handler'.mLockedBSSID = handler.mLockedBSSID
      BY <1>1, <2>2, <2>3 DEF LockInv
    <2>4. CASE /\ dframe.main = "Management"
               /\ handler'.mLockedSSID = dframe.ssid /\ handler'.mLockedBSSID = dframe.bssid
      <3>1. dframe \in AirFrames["monitor"]  BY <1>1, <2>4, HeldIsReadable
      <3> QED  BY <1>1, <2>2, <2>4, <3>1 DEF LockInv
    <2> QED  BY <1>4, <2>1, <2>3, <2>4
  <1>8. ReadInv'  BY <1>1 DEF ReadInv, Holding
  <1> QED  BY <1>6, <1>7, <1>8

\* The connection's thread: a datagram becomes a frame ...
LEMMA RReceiveKeepsAirway ==
    ASSUME AirwayInv, RReceive
    PROVE  ReadInv' /\ HandlerInv' /\ LockInv'
  <1> USE DEF AirwayInv
  <1>1. /\ UNCHANGED <<method, handler, mCurrentlyConnectedNetwork, told, air, dpc, dframe>>
        /\ rframe' \in KaiFrames
    BY DEF RReceive, device, handlers, Silent, dvars
  <1>2. ASSUME method = "monitor", rdata' # Empty
        PROVE  ReadsAsData(rdata') /\ Convert80211Out(rdata') = rframe'
    <2>1. PICK p \in Torn : rdata' = Convert8023Out(rframe', handler.mLockedBSSID, p)
      BY <1>2 DEF RReceive
    <2>2. p \in Parameters(Values)  BY <1>2, <2>1, TornIsTyped
    <2>3. rframe' = [dst |-> rframe'.dst, src |-> rframe'.src, type |-> rframe'.type, body |-> rframe'.body]
      BY <1>1, FramesAssumption
    <2>4. rframe'.body # <<>>  BY <1>2, <2>1 DEF Convert8023Out, HasData
    <2>5. /\ rdata'.header = InsertRadioTapHeader(p)
          /\ Decode(rdata') = rdata' /\ rdata'.main = "Data"
          /\ FlagIsTrue(rdata') /\ Convert80211Out(rdata') = rframe'
      BY <2>1, <2>3, <2>4, FrameReadsBack
    <2>6. FlagValues \cup {"11", "1", "none", "noack", Junk} \subseteq Values  BY DEF Values
    <2>7. FillRadioTapParameters(rdata'.header) \in Parameters(Values)
      BY <2>2, <2>5, <2>6, HeaderReadsBack
    <2> QED  BY <2>5, <2>7 DEF ReadsAsData, Readable
  <1>3. ReadInv'  BY <1>1, <1>2 DEF ReadInv
  <1> QED  BY <1>1, <1>3, HandlerUntouched

\* ... which is listed and sent.
LEMMA RKeepsAirway ==
    ASSUME AirwayInv, RBlackList \/ RSend \/ RCrash \/ RConnect
    PROVE  ReadInv' /\ HandlerInv' /\ LockInv'
  <1> USE DEF AirwayInv
  <1>1. CASE RBlackList
    <2>1. UNCHANGED <<method, handler, mCurrentlyConnectedNetwork, told, air, dpc, dframe, rframe, rdata>>
          /\ Holding
      BY <1>1 DEF RBlackList, device, Silent, Holding
    <2> QED  BY <2>1, HandlerUntouched DEF ReadInv
  <1>2. CASE RSend
    <2>1. /\ UNCHANGED <<method, handler, mCurrentlyConnectedNetwork, told, dpc, dframe>>
          /\ ~Holding' /\ Holding
          /\ air' = air \/ (rdata # Empty /\ air' = air \cup {Outgoing})
      BY <1>2 DEF RSend, device, handlers, dvars, Holding
    <2>2. method = "monitor" => Outgoing = rdata  BY DEF Outgoing
    <2> QED  BY <2>1, <2>2, HandlerUntouched DEF ReadInv
  <1>3. CASE RCrash
    <2>1. UNCHANGED <<method, handler, mCurrentlyConnectedNetwork, told, air>> /\ ~Holding'
          /\ dpc' # "asking"
      BY <1>3 DEF RCrash, handlers, Silent, Crashes, Holding
    <2> QED  BY <2>1, HandlerUntouched DEF ReadInv
  <1>4. CASE RConnect
    <2>1. UNCHANGED <<method, mCurrentlyConnectedNetwork, told, air, dpc, dframe, rpc, rframe, rdata>>
      BY <1>4 DEF RConnect, device, Silent
    <2>2. method = "monitor" /\ \E ssid \in HostSSIDs : handler' = [handler EXCEPT !.mSSIDList = {ssid}]
      BY <1>4 DEF RConnect
    <2>3. HandlerInv' /\ LockInv'  BY <2>1, <2>2 DEF HandlerInv, LockInv
    <2> QED  BY <2>1, <2>3 DEF ReadInv, Holding
  <1> QED  BY <1>1, <1>2, <1>3, <1>4

\* The main loop.
LEMMA MKeepsAirway ==
    ASSUME AirwayInv, MClose \/ MJoined \/ UNCHANGED vars
    PROVE  ReadInv' /\ HandlerInv' /\ LockInv'
  <1> USE DEF AirwayInv
  <1>1. /\ UNCHANGED <<method, handler, mCurrentlyConnectedNetwork, told, air, dpc, dframe>>
        /\ UNCHANGED <<rpc, rframe, rdata>>
    BY DEF MClose, MJoined, vars, device, handlers, dvars, rvars, outputs, Silent
  <1> QED  BY <1>1, HandlerUntouched DEF ReadInv, Holding

\* The invariant of the air, the handlers and the network followed.
LEMMA AirwayAlways == Spec => []AirwayInv
  <1>1. Init => AirwayInv  BY EchoInit, AirwayInit DEF AirwayInv
  <1>2. AirwayInv /\ [Next]_vars => AirwayInv'
    <2>1. AirwayInv /\ [Next]_vars => ReadInv' /\ HandlerInv' /\ LockInv'
      BY DKeepsAirway, DMonitorKeepsAirway, RReceiveKeepsAirway, RKeepsAirway, MKeepsAirway DEF Next
    <2> QED  BY <2>1, EchoStep DEF AirwayInv
  <1> QED  BY <1>1, <1>2, PTL DEF Spec

\* Only these steps send or forward anything.
LEMMA OthersAreSilent ==
    ASSUME DCapture \/ DEnds \/ DCrash \/ RReceive \/ RBlackList \/ RCrash \/ RConnect \/ MClose \/ MJoined
    PROVE  sent' = None /\ toKai' = None
  BY DEF DCapture, DEnds, DCrash, RReceive, RBlackList, RCrash, RConnect, MClose, MJoined, Silent

\* What each step sends is read back.
LEMMA ReadsBackStep ==
    ASSUME AirwayInv, SentReadsBack, [Next]_vars
    PROVE  SentReadsBack'
  <1>1. CASE DMonitor
    <2> SUFFICES ASSUME sent' # None
                 PROVE  /\ sent'.why = "ack"
                        /\ \/ Decode(sent'.frame).sub = "ACK" /\ Decode(sent'.frame).dst = sent'.from.src
                           \/ sent'.parameters.mcs # "none"
      BY DEF SentReadsBack
    <2>1. sent' = [frame |-> ConstructAcknowledgementFrame(dframe.src, handler'.control),
                   why |-> "ack", from |-> dframe, parameters |-> handler'.control]
      BY <1>1 DEF DMonitor, Sends
    <2> QED  BY <2>1, AcknowledgementReadsBack
  <1>2. CASE RSend
    <2> SUFFICES ASSUME method' = "monitor", sent' # None
                 PROVE  /\ sent'.why = "kai" /\ Decode(sent'.frame).main = "Data"
                        /\ Convert80211Out(Decode(sent'.frame)) = sent'.from
      BY DEF SentReadsBack
    <2>1. /\ method = "monitor" /\ Holding /\ rdata # Empty
          /\ sent' = [frame |-> Outgoing, why |-> "kai", from |-> rframe, parameters |-> None]
      BY <1>2 DEF RSend, device, Holding
    <2>2. Outgoing = rdata  BY <2>1 DEF Outgoing
    <2>3. ReadsAsData(rdata) /\ Convert80211Out(rdata) = rframe  BY <2>1 DEF AirwayInv, ReadInv
    <2> QED  BY <2>1, <2>2, <2>3 DEF ReadsAsData
  <1>3. CASE DPlugin \/ DPromiscuous
    <2>1. method' # "monitor"  BY <1>3 DEF DPlugin, DPromiscuous, device
    <2> QED  BY <2>1 DEF SentReadsBack
  <1>4. CASE ~(DMonitor \/ RSend \/ DPlugin \/ DPromiscuous) /\ Next
    <2>1. sent' = None  BY <1>4, OthersAreSilent DEF Next
    <2> QED  BY <2>1 DEF SentReadsBack
  <1>5. CASE UNCHANGED vars
    BY <1>5 DEF SentReadsBack, vars, device, outputs
  <1> QED  BY <1>1, <1>2, <1>3, <1>4, <1>5

\* What monitor mode sends is read as the frame XLink Kai gave, whatever the
\* parameters that were torn between two threads, and an acknowledgement without
\* an MCS field as one (Handler8023.cpp:8-57, NetConversionFunctions.h:148-307).
THEOREM SentIsReadBack == Spec => []SentReadsBack
  <1>1. Init => SentReadsBack  BY DEF Init, SentReadsBack
  <1> QED  BY <1>1, AirwayAlways, ReadsBackStep, PTL DEF Spec

\* The plugin's frames: those with room for a destination come out with it.
LEMMA PluginForwardsMeant ==
    ASSUME PluginInv, NEW frame,
           UpdatePlugin(plugin, frame).mEtherType = "psp",
           ~UpdatePlugin(plugin, frame).mIsBroadcastPacket,
           ConvertPluginOut(UpdatePlugin(plugin, frame)) # Runt
    PROVE  \/ ConvertPluginOut(UpdatePlugin(plugin, frame)) =
                 [frame EXCEPT !.dst = Last(frame.body), !.body = Front(@)]
  <1> DEFINE updated == UpdatePlugin(plugin, frame)
  <1>1. updated.packet = frame  BY DEF PluginInv, UpdatePlugin
  <1>2. frame.body # <<"bit">>  BY <1>1 DEF ConvertPluginOut
  <1>3. HasData(frame) /\ frame.dst # Broadcast
    BY DEF PluginInv, UpdatePlugin
  <1>4. updated.mDestinationMac = Last(frame.body)
    BY <1>2, <1>3 DEF UpdatePlugin
  <1> HIDE DEF updated
  <1>5. ConvertPluginOut(updated) = [updated.packet EXCEPT !.dst = updated.mDestinationMac, !.body = Front(@)]
    BY <1>1, <1>2 DEF ConvertPluginOut
  <1> QED  BY <1>1, <1>4, <1>5 DEF updated

\* What each step forwards is the frame captured last.
LEMMA MeantStep ==
    ASSUME AirwayInv, ForwardedIsMeant, [Next]_vars
    PROVE  ForwardedIsMeant'
  <1>1. CASE DMonitor
    <2> SUFFICES ASSUME toKai' # None, toKai'.frame \notin {Empty, Runt}
                 PROVE  (toKai.frame = Meant(toKai.captured))'
      BY DEF ForwardedIsMeant
    <2>1. PICK verdict \in Verdicts(MonitorAnswer) :
             IF ShouldSend(handler, dframe, verdict)
             THEN Forward(Convert80211Out(dframe)) ELSE toKai' = None
      BY <1>1 DEF DMonitor
    <2>2. Decode(dframe).main = "Data" /\ toKai'.frame = Convert80211Out(dframe) /\ toKai'.captured = dframe
      BY <2>1 DEF Forward, ShouldSend
    <2>3. method = "monitor" /\ method' = "monitor" /\ FlagIsTrue(dframe)
      BY <1>1, HeldIsReadable DEF DMonitor, AirwayInv, Readable, device
    <2>4. Unchecked(dframe) = dframe.body
      <3>1. HasFCS(FillRadioTapParameters(dframe.header).flags) <=> dframe.fcs
        BY <2>2, <2>3 DEF FlagIsTrue
      <3> QED  BY <3>1 DEF Unchecked
    <2>5. Convert80211Out(dframe) =
             [dst |-> dframe.dst, src |-> dframe.src, type |-> dframe.type, body |-> dframe.body]
      BY <2>2, <2>4 DEF Convert80211Out
    <2> QED  BY <2>2, <2>3, <2>5 DEF Meant
  <1>2. CASE DPlugin
    <2> DEFINE updated == UpdatePlugin(plugin, dframe)
    <2> SUFFICES ASSUME toKai' # None, toKai'.frame # Runt
                 PROVE  (toKai.frame = Meant(toKai.captured))'
      BY DEF ForwardedIsMeant
    <2>2. updated.mEtherType = "psp" /\ ~updated.mIsBroadcastPacket /\ Forward(ConvertPluginOut(updated))
      BY <1>2, PluginOutcomes
    <2> HIDE DEF updated
    <2>4. toKai'.frame = ConvertPluginOut(updated) /\ toKai'.captured = dframe  BY <2>2 DEF Forward
    <2>5. ConvertPluginOut(updated) = [dframe EXCEPT !.dst = Last(dframe.body), !.body = Front(@)]
      BY <2>2, <2>4, PluginForwardsMeant DEF updated, AirwayInv, EchoInv
    <2>6. method' = "plugin"  BY <1>2 DEF DPlugin, device
    <2> QED  BY <2>4, <2>5, <2>6 DEF Meant
  <1>3. CASE DPromiscuous
    <2>1. toKai' = None \/ Forward(dframe)  BY <1>3 DEF DPromiscuous
    <2>2. method' = "promiscuous"  BY <1>3 DEF DPromiscuous, device
    <2> QED  BY <2>1, <2>2 DEF ForwardedIsMeant, Forward, Meant
  <1>4. CASE RSend
    BY <1>4 DEF RSend, ForwardedIsMeant
  <1>5. CASE ~(DMonitor \/ RSend \/ DPlugin \/ DPromiscuous) /\ Next
    <2>1. toKai' = None  BY <1>5, OthersAreSilent DEF Next
    <2> QED  BY <2>1 DEF ForwardedIsMeant
  <1>6. CASE UNCHANGED vars
    BY <1>6 DEF ForwardedIsMeant, Meant, vars, device, outputs
  <1> QED  BY <1>1, <1>2, <1>3, <1>4, <1>5, <1>6

\* What is forwarded is what was captured last: the plugin's with its real
\* destination, monitor mode's without check sequence, though the reader pads the
\* header wrongly (HandlerPSPPlugin.cpp:68-102, Handler80211.cpp:17-78,
\* RadioTapReader.cpp).
THEOREM ForwardedAsMeant == Spec => []ForwardedIsMeant
  <1>1. Init => ForwardedIsMeant  BY DEF Init, ForwardedIsMeant
  <1> QED  BY <1>1, AirwayAlways, MeantStep, PTL DEF Spec

\* What each step forwards is of the network told last.
LEMMA ToldNetworkStep ==
    ASSUME AirwayInv, ForwardedIsOfToldNetwork, [Next]_vars
    PROVE  ForwardedIsOfToldNetwork'
  <1>1. CASE DMonitor
    <2> SUFFICES ASSUME toKai' # None, ~toKai'.raced
                 PROVE  /\ mCurrentlyConnectedNetwork' = told'
                        /\ \E frame \in AirFrames["monitor"] :
                              frame.ssid = told' /\ frame.bssid = toKai'.captured.bssid
      BY DEF ForwardedIsOfToldNetwork
    <2>1. PICK verdict \in Verdicts(MonitorAnswer), seen \in FiltersSeen :
             /\ handler' = [Update80211([handler EXCEPT !.mSSIDList = seen], dframe, verdict)
                            EXCEPT !.mSSIDList = handler.mSSIDList]
             /\ IF ShouldSend(handler, dframe, verdict)
                THEN Forward(Convert80211Out(dframe)) ELSE toKai' = None
      BY <1>1 DEF DMonitor
    <2>2. ShouldSend(handler, dframe, verdict) /\ toKai'.captured = dframe /\ ~raced
      BY <2>1 DEF Forward
    <2>3. method = "monitor" /\ method' = "monitor" /\ dpc = "asking"
      BY <1>1 DEF DMonitor, device
    <2>4. Decode(dframe) = dframe /\ dframe.main = "Data" /\ verdict /\ dframe.bssid = handler.mLockedBSSID
      <3>1. {"main", "sub"} \subseteq DOMAIN dframe  BY <2>3, HeldIsReadable DEF AirwayInv
      <3> QED  BY <2>2, <3>1, DataIsReceived DEF ShouldSend, OfNetwork
    <2>5. IsMacAllowed(mBlackList, dframe.src)
      BY <2>1, <2>2, <2>4 DEF Verdicts, MonitorAnswer, Asked
    <2>6. dframe \in AirFrames["monitor"]
      BY <2>3, <2>5, HeldIsReadable DEF AirwayInv, Refused
    <2>7. handler.mLockedBSSID # "0"  BY <2>4, <2>6, DriverAssumption
    <2>8. handler'.mLockedSSID = handler.mLockedSSID /\ handler'.mLockedBSSID = handler.mLockedBSSID
      <3> DEFINE before == [handler EXCEPT !.mSSIDList = seen]
                 after == Update80211(before, dframe, verdict)
      <3>1. HasParts(before) /\ before.mLockedSSID = handler.mLockedSSID
            /\ before.mLockedBSSID = handler.mLockedBSSID
        BY <2>3 DEF AirwayInv, HandlerInv, HasParts
      <3> HIDE DEF before
      <3>2. HasParts(after) /\ after.mLockedSSID = before.mLockedSSID /\ after.mLockedBSSID = before.mLockedBSSID
        <4>1. Readable(dframe) /\ {"main", "sub"} \subseteq DOMAIN dframe
          BY <2>3, HeldIsReadable DEF AirwayInv
        <4>2. dframe.main # "Management"  BY <2>4
        <4> QED  BY <3>1, <4>1, <4>2, UpdateKeepsParts
      <3> HIDE DEF after
      <3>3. handler' = [after EXCEPT !.mSSIDList = handler.mSSIDList]  BY <2>1 DEF before, after
      <3> QED  BY <3>1, <3>2, <3>3 DEF HasParts
    <2>9. LockInv'  BY <1>1, DMonitorKeepsAirway
    <2> QED  BY <2>2, <2>3, <2>4, <2>7, <2>8, <2>9 DEF LockInv
  <1>2. CASE DPlugin \/ DPromiscuous
    <2>1. method' # "monitor"  BY <1>2 DEF DPlugin, DPromiscuous, device
    <2> QED  BY <2>1 DEF ForwardedIsOfToldNetwork
  <1>3. CASE RSend
    BY <1>3 DEF RSend, ForwardedIsOfToldNetwork
  <1>4. CASE ~(DMonitor \/ RSend \/ DPlugin \/ DPromiscuous) /\ Next
    <2>1. toKai' = None  BY <1>4, OthersAreSilent DEF Next
    <2> QED  BY <2>1 DEF ForwardedIsOfToldNetwork
  <1>5. CASE UNCHANGED vars
    BY <1>5 DEF ForwardedIsOfToldNetwork, vars, device, handlers, outputs
  <1> QED  BY <1>1, <1>2, <1>3, <1>4, <1>5

\* Data reaches XLink Kai only from the network whose name was told, though
\* beacons of others and new filters come at any time (Handler80211.cpp:218,
\* 258-271, MonitorDevice.cpp:94, 121-129).
THEOREM ForwardedFromToldNetwork == Spec => []ForwardedIsOfToldNetwork
  <1>1. Init => ForwardedIsOfToldNetwork  BY DEF Init, ForwardedIsOfToldNetwork
  <1> QED  BY <1>1, AirwayAlways, ToldNetworkStep, PTL DEF Spec

-----------------------------------------------------------------------------
(* The type invariant: with what D and R hold, the handler's part of it.   *)

Booleans == {mAcknowledgePackets, mConnected, open, raced, plugin.mIsBroadcastPacket} \subseteq BOOLEAN

\* D holds a frame exactly while it asks, and nobody leaves the places he can be.
PlacesInv ==
    /\ Booleans
    /\ dpc \in {"loop", "asking", "ended", "crashed"}
    /\ (dpc = "asking") <=> dframe # None
    /\ rpc \in {"loop", "listing", "sending", "crashed"}
    /\ mpc \in {"open", "joining", "closed", "crashed"}
    /\ frames \in 0 .. MaxFrames

LEMMA PlacesInit == Init => PlacesInv
  <1> SUFFICES ASSUME Init PROVE PlacesInv
    OBVIOUS
  <1>1. mAcknowledgePackets \in BOOLEAN  BY DEF Init
  <1>2. plugin.mIsBroadcastPacket = FALSE  BY DEF Init
  <1>3. mConnected = TRUE /\ open = TRUE /\ raced = FALSE  BY DEF Init
  <1>4. Booleans  BY <1>1, <1>2, <1>3 DEF Booleans
  <1>5. frames = 0 /\ MaxFrames \in Nat  BY FramesAssumption DEF Init
  <1>6. frames \in 0 .. MaxFrames  BY <1>5
  <1>7. dpc = "loop" /\ dframe = None /\ rpc = "loop" /\ mpc = "open"  BY DEF Init
  <1> QED  BY <1>4, <1>6, <1>7 DEF PlacesInv

\* The flag the handshake depends on.
LEMMA UpdatedFlagIsBoolean ==
    ASSUME PluginInv, plugin.mIsBroadcastPacket \in BOOLEAN, NEW frame
    PROVE  UpdatePlugin(plugin, frame).mIsBroadcastPacket \in BOOLEAN
  BY DEF PluginInv, UpdatePlugin

\* Every step keeps each variable to what its place in the code can hold.
LEMMA PlacesStep ==
    ASSUME EchoInv, PlacesInv, [Next]_vars
    PROVE  PlacesInv'
  <1> USE DEF PlacesInv
  <1>1. CASE DCapture
    <2>1. PICK frame \in AirFrames[method] \cup air : dframe' = frame
      BY <1>1 DEF DCapture
    <2>2. "src" \in DOMAIN frame
      BY FramesAssumption, <2>1 DEF EchoInv, AirInv, HasFields
    <2>3. dframe' # None  BY <2>1, <2>2 DEF None
    <2>4. UNCHANGED <<mAcknowledgePackets, mConnected, open, mpc, rpc, plugin>> /\ raced' = FALSE
      BY <1>1 DEF DCapture, device, handlers, rvars
    <2>5. Booleans'  BY <2>4 DEF Booleans
    <2>6. frames' \in 0 .. MaxFrames  BY <1>1, FramesAssumption DEF DCapture
    <2> QED  BY <1>1, <2>3, <2>4, <2>5, <2>6 DEF DCapture
  <1>2. CASE DEnds
    <2>1. UNCHANGED <<mAcknowledgePackets, mConnected, open, raced, mpc, rpc, plugin, frames, dframe>>
      BY <1>2 DEF DEnds, device, handlers, rvars
    <2> QED  BY <1>2, <2>1 DEF DEnds, Booleans
  <1>3. CASE DCrash \/ RCrash
    <2>1. /\ UNCHANGED <<mAcknowledgePackets, mConnected, open, plugin, frames>> /\ raced' = FALSE
          /\ dpc' = "crashed" /\ rpc' = "crashed" /\ mpc' = "crashed" /\ dframe' = None
      BY <1>3 DEF DCrash, RCrash, Crashes, handlers
    <2> QED  BY <2>1 DEF Booleans
  <1>4. CASE DMonitor \/ DPromiscuous
    <2>1. /\ UNCHANGED <<mAcknowledgePackets, mConnected, open, mpc, rpc, plugin, frames>>
          /\ raced' = FALSE /\ dpc' = "loop" /\ dframe' = None
      BY <1>4 DEF DMonitor, DPromiscuous, Handled, device, handlers, rvars
    <2> QED  BY <2>1 DEF Booleans
  <1>5. CASE DPlugin
    <2>1. /\ UNCHANGED <<mAcknowledgePackets, mConnected, open, mpc, rpc, frames>>
          /\ raced' = FALSE /\ dpc' = "loop" /\ dframe' = None
          /\ plugin' = UpdatePlugin(plugin, dframe)
      BY <1>5 DEF DPlugin, Handled, device, rvars
    <2>2. plugin.mIsBroadcastPacket \in BOOLEAN  BY DEF Booleans
    <2>3. plugin'.mIsBroadcastPacket \in BOOLEAN
      BY <2>1, <2>2, UpdatedFlagIsBoolean DEF EchoInv
    <2> QED  BY <2>1, <2>3 DEF Booleans
  <1>6. CASE RReceive
    <2>1. UNCHANGED <<mAcknowledgePackets, mConnected, open, raced, mpc, dpc, plugin, dframe>>
      BY <1>6 DEF RReceive, device, handlers, dvars
    <2>2. frames' \in 0 .. MaxFrames  BY <1>6, FramesAssumption DEF RReceive
    <2> QED  BY <1>6, <2>1, <2>2 DEF RReceive, Booleans
  <1>7. CASE RBlackList \/ RConnect
    <2>1. /\ UNCHANGED <<mAcknowledgePackets, mConnected, open, mpc, dpc, plugin, dframe>>
          /\ raced' \in BOOLEAN /\ rpc' \in {"sending", rpc}
      BY <1>7 DEF RBlackList, RConnect, device, Touches, Booleans
    <2>2. frames' \in 0 .. MaxFrames  BY <1>7, FramesAssumption DEF RBlackList, RConnect
    <2> QED  BY <2>1, <2>2 DEF Booleans
  <1>8. CASE RSend
    <2>1. UNCHANGED <<mAcknowledgePackets, mConnected, open, raced, mpc, dpc, plugin, dframe, frames>>
      BY <1>8 DEF RSend, device, handlers, dvars
    <2> QED  BY <1>8, <2>1 DEF RSend, Booleans
  <1>9. CASE MClose \/ MJoined
    <2>1. UNCHANGED <<raced, dpc, rpc, plugin, dframe, frames>>
          /\ {mConnected', open', mAcknowledgePackets'} \subseteq BOOLEAN /\ mpc' \in {"joining", "closed"}
      BY <1>9 DEF MClose, MJoined, handlers, dvars, rvars, Booleans
    <2> QED  BY <2>1 DEF Booleans
  <1>10. CASE UNCHANGED vars
    BY <1>10 DEF vars, device, handlers, dvars, rvars, Booleans
  <1> QED  BY <1>1, <1>2, <1>3, <1>4, <1>5, <1>6, <1>7, <1>8, <1>9, <1>10 DEF Next

\* The type invariant; of the parameters it says that the device never works with
\* anything but what some header had, not even while R reads what D is writing
\* (RadioTapReader.cpp, Handler80211.cpp:190-245).
THEOREM FrameDevicesTyped == Spec => []TypeOK
  <1>1. PlacesInv /\ EchoInv /\ [Next]_vars => PlacesInv'  BY PlacesStep
  <1>2. Spec => []PlacesInv  BY <1>1, EchoAlways, PlacesInit, PTL DEF Spec
  <1>3. AirwayInv /\ PlacesInv => TypeOK
    <2> SUFFICES ASSUME AirwayInv, PlacesInv PROVE TypeOK
      OBVIOUS
    <2>1. method \in DOMAIN AirFrames  BY FramesAssumption DEF AirwayInv, EchoInv
    <2>2. DOMAIN mBlackList = {"white", "black"}
      <3>1. mBlackList = [white |-> mBlackList.white, black |-> mBlackList.black]
        BY DEF AirwayInv, EchoInv, ListInv
      <3> QED  BY <3>1
    <2> QED  BY <2>1, <2>2 DEF AirwayInv, HandlerInv, PlacesInv, Booleans, TypeOK
  <1> QED  BY <1>2, <1>3, AirwayAlways, PTL

=============================================================================

------------------------------- MODULE Frames -------------------------------
(***************************************************************************)
(* What the handlers make of a frame (Handler80211.cpp, Handler8023.cpp,   *)
(* HandlerPSPPlugin.cpp, NetConversionFunctions.h).                        *)
(*                                                                         *)
(* An ethernet frame is [dst, src, type, body]; its body is a sequence of  *)
(* parts of at least six bytes, a MAC among them, except "bit", which has  *)
(* one to five.  A frame in the air has a radiotap header, the place where *)
(* the frame begins, its main type and subtype, the flags of its second    *)
(* byte, the addresses and, after the body, perhaps a frame check          *)
(* sequence; a beacon has an SSID.                                         *)
(***************************************************************************)
EXTENDS RadioTap, MacBlackList, SequencesExt

CONSTANTS Broadcast,   \* the broadcast address
          Contained    \* pairs of an SSID and a name found in it

Empty == [empty |-> TRUE]   \* an empty string
Runt  == [runt |-> TRUE]    \* what is left of a frame shortened into its header

HasData(ethernet) == ethernet.body # <<>>   \* longer than cHeaderLength

-----------------------------------------------------------------------------
(* Handler80211, the handler of monitor mode.                              *)

\* A header that is not believed, or not as long as it says, shifts all that
\* follows: the zero it starts with is the type of an association request.
Decode(frame) ==
    IF FillRadioTapParameters(frame.header).length = frame.at THEN frame
    ELSE [frame EXCEPT !.main = "Management", !.sub = "AssociationRequest"]

IsSSIDAllowed(handler, ssid) ==
    \/ handler.mSSIDList = {}
    \/ \E name \in handler.mSSIDList : ssid = name \/ <<ssid, name>> \in Contained

UpdateControl(handler, frame, listed) ==
    IF listed /\ frame.sub = "ACK"
    THEN [handler EXCEPT !.control = FillRadioTapParameters(frame.header)]
    ELSE handler

OfNetwork(handler, frame, allowed) == allowed /\ frame.bssid = handler.mLockedBSSID

\* Only a second byte with nothing but the retry bit is taken for a retry.
UpdateData(handler, frame, allowed) ==
    IF /\ OfNetwork(handler, frame, allowed)
       /\ frame.flags # {"retry"} /\ frame.sub = "Data"
    THEN [handler EXCEPT !.data = FillRadioTapParameters(frame.header)]
    ELSE handler

\* Mutant of UpdateManagement: locked before the name is looked at.
UpdateManagementEarly(handler, frame, allowed) ==
    IF ~allowed \/ frame.sub # "Beacon" THEN handler
    ELSE [handler EXCEPT !.mLockedBSSID = frame.bssid,
                         !.mLockedSSID = IF IsSSIDAllowed(handler, frame.ssid) THEN frame.ssid ELSE @]

UpdateManagement(handler, frame, allowed) ==
    IF /\ allowed /\ frame.sub = "Beacon"
       /\ IsSSIDAllowed(handler, frame.ssid)
       /\ frame.bssid # handler.mLockedBSSID
    THEN [handler EXCEPT !.mLockedBSSID = frame.bssid, !.mLockedSSID = frame.ssid]
    ELSE handler

\* The address the list is asked about, and the handler after the answer.
Asked(frame) == IF Decode(frame).main = "Control" THEN frame.dst ELSE frame.src

Update80211(handler, received, verdict) ==
    LET frame == Decode(received)
    IN  CASE frame.main = "Control"    -> UpdateControl(handler, frame, verdict)
          [] frame.main = "Data"       -> UpdateData(handler, frame, verdict)
          [] frame.main = "Management" -> UpdateManagement(handler, frame, verdict)
          [] OTHER                     -> handler

IsAckable(handler, received, verdict) ==
    LET frame == Decode(received)
    IN  frame.main = "Data" /\ OfNetwork(handler, frame, verdict) /\ frame.dst # Broadcast

ShouldSend(handler, received, verdict) ==
    LET frame == Decode(received)
    IN  /\ frame.main = "Data" /\ OfNetwork(handler, frame, verdict)
        /\ frame.flags # {"retry"} /\ frame.sub \in {"Data", "QoSData"}

\* Mutant of Unchecked: the check sequence stays.
UncheckedNever(frame) == IF frame.fcs THEN Append(frame.body, "fcs") ELSE frame.body

\* The flag of the header, not the frame, says whether four bytes are cut off.
Unchecked(frame) ==
    LET flagged == HasFCS(FillRadioTapParameters(frame.header).flags)
    IN  CASE flagged <=> frame.fcs -> frame.body
          [] flagged /\ ~frame.fcs -> Front(frame.body)
          [] ~flagged /\ frame.fcs -> Append(frame.body, "fcs")

\* Called when ShouldSend: a data frame of one of the two types.
Convert80211Out(frame) ==
    IF frame.sub = "Data" /\ frame.body = <<>> /\ ~frame.fcs THEN Empty
    ELSE [dst |-> frame.dst, src |-> frame.src, type |-> frame.type, body |-> Unchecked(frame)]

-----------------------------------------------------------------------------
(* Handler8023: ethernet into the air; and the acknowledgement.            *)

\* Written between the radiotap header and the data of the packet.
InsertIEEE80211Header(packet, source, destination, bssid) ==
    [header |-> packet.header, at |-> packet.header.length,
     main |-> "Data", sub |-> "Data", flags |-> {}, dst |-> destination, src |-> source,
     bssid |-> bssid, ssid |-> "none", type |-> packet.type, body |-> packet.body, fcs |-> FALSE]

Convert8023Out(ethernet, bssid, parameters) ==
    LET packet == [header |-> InsertRadioTapHeader(parameters),
                   type |-> ethernet.type, body |-> ethernet.body]
    IN  IF HasData(ethernet)
        THEN InsertIEEE80211Header(packet, ethernet.src, ethernet.dst, bssid)
        ELSE Empty

\* Its place does not depend on the length of the header.
ConstructAcknowledgementFrame(receiver, parameters) ==
    [header |-> InsertRadioTapHeader(parameters), at |-> cRadioTapSize,
     main |-> "Control", sub |-> "ACK", dst |-> receiver]

-----------------------------------------------------------------------------
(* HandlerPSPPlugin: the plugin sends unicasts to the adapter and puts the *)
(* real destination at the end.  A frame too short for that leaves the     *)
(* destination of the frame before it.                                     *)

\* Mutant of UpdatePlugin: the flag is only ever set.
UpdatePluginKeepsFlag(handler, ethernet) ==
    LET flag == handler.mIsBroadcastPacket \/ ethernet.dst = Broadcast
    IN  IF ethernet.body \in {<<>>, <<"bit">>}
        THEN [handler EXCEPT !.packet = ethernet, !.mEtherType = ethernet.type]
        ELSE [packet |-> ethernet, mEtherType |-> ethernet.type, mSourceMac |-> ethernet.src,
              mDestinationMac |-> Last(ethernet.body), mIsBroadcastPacket |-> flag]

UpdatePlugin(handler, ethernet) ==
    CASE ~HasData(ethernet) ->
            [handler EXCEPT !.packet = ethernet, !.mEtherType = "none"]
      [] HasData(ethernet) /\ ethernet.dst = Broadcast ->
            [packet |-> ethernet, mEtherType |-> ethernet.type, mSourceMac |-> ethernet.src,
             mDestinationMac |-> Broadcast, mIsBroadcastPacket |-> TRUE]
      [] HasData(ethernet) /\ ethernet.dst # Broadcast /\ ethernet.body # <<"bit">> ->
            [packet |-> ethernet, mEtherType |-> ethernet.type, mSourceMac |-> ethernet.src,
             mDestinationMac |-> Last(ethernet.body), mIsBroadcastPacket |-> FALSE]
      [] OTHER ->
            [handler EXCEPT !.packet = ethernet, !.mEtherType = ethernet.type,
                            !.mSourceMac = ethernet.src]

ConvertPluginOut(handler) ==
    IF handler.packet.body = <<"bit">> THEN Runt
    ELSE [handler.packet EXCEPT !.dst = handler.mDestinationMac, !.body = Front(@)]

ConvertPluginIn(ethernet, adapter) ==
    [ethernet EXCEPT !.src = adapter, !.body = Append(@, ethernet.src)]

ConstructPSPPluginHandshake(psp, adapter) ==
    [dst |-> psp, src |-> adapter, type |-> "psp", body |-> <<adapter>>]

\* The title in an information packet; the old one stays where there is none.
IsInformation(ethernet) == ethernet.body # <<>> /\ Head(ethernet.body) = "info"

ObtainTitleId(title, ethernet) ==
    IF Len(ethernet.body) > 1 /\ ethernet.body[2] # "nul" THEN ethernet.body[2] ELSE title

-----------------------------------------------------------------------------
(* WirelessPromiscuousDevice: a frame of the engine's own address is sent  *)
(* as one of the adapter, also inside an ARP message.                      *)

ReplaceDDS(ethernet, dds, adapter) ==
    IF ethernet.src # dds THEN ethernet
    ELSE IF ethernet.type = "arp" /\ ethernet.body[1] \in {"request", "reply"}
         THEN [ethernet EXCEPT !.src = adapter, !.body[2] = adapter]
         ELSE [ethernet EXCEPT !.src = adapter]

=============================================================================

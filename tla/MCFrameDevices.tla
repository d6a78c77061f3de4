--------------------------- MODULE MCFrameDevices ---------------------------
(* A console, two sources behind XLink Kai and the engine's own address.    *)
EXTENDS FrameDevices

E(d, s, t, b) == [dst |-> d, src |-> s, type |-> t, body |-> b]

MCKaiFrames == {E("con", "rem", "psp", <<"data">>), E("all", "rem2", "psp", <<"data", "data">>),
                E("all", "dds", "arp", <<"request", "dds">>)}
MCPlugin == {E("ad", "con", "psp", <<"data", "rem">>), E("all", "con", "psp", <<"data">>),
             E("ad", "con", "psp", <<"bit">>), E("ad", "con", "psp", <<>>),
             E("ad", "con", "psp", <<"info", "title">>), E("ad", "con", "psp", <<"info">>),
             E("ad", "con", "ip", <<"data", "rem">>)}
MCPromiscuous == {E("rem", "con", "psp", <<"data">>), E("all", "con", "arp", <<"request", "con">>)}

\* Headers: a usual one, one with an MCS field, one with a field before it that
\* the reader takes for wider, one that is too long.
Usual == [length |-> 25, words |-> 1, present |-> {"TSFT", "Flags", "Rate", "Channel", "AntennaSignal"},
          at |-> (8 :> "time") @@ (16 :> "short fcs") @@ (17 :> "1") @@ (18 :> "6") @@ (22 :> "-40")]
Fast  == [length |-> 21, words |-> 2, present |-> {"Flags", "Channel", "MCS"},
          at |-> (12 :> "long") @@ (14 :> "6") @@ (18 :> "hi")]
Wide  == [length |-> 27, words |-> 1, present |-> {"Flags", "Channel", "XChannel", "MCS"},
          at |-> (8 :> "long") @@ (10 :> "6") @@ (16 :> "wide") @@ (24 :> "hi")]
Long  == [Usual EXCEPT !.length = 65]

Air(h, m, sub, flags, d, s, bssid, body, ssid) ==
    [header |-> h, at |-> h.length, main |-> m, sub |-> sub, flags |-> flags, dst |-> d, src |-> s,
     bssid |-> bssid, ssid |-> ssid, type |-> "psp", body |-> body, fcs |-> h.present = Usual.present]
Beacon(ssid, bssid) == Air(Usual, "Management", "Beacon", {}, "all", "con", bssid, <<>>, ssid)
Data(h, sub, flags, d, body) == Air(h, "Data", sub, flags, d, "con", "b1", body, "none")

MCMonitor == {Beacon("PSP_A", "b1"), Beacon("PSP_B", "b2"), Beacon("home", "b3"),
              Data(Usual, "Data", {}, "rem", <<"data">>), Data(Fast, "QoSData", {"toDS"}, "rem", <<"data">>),
              Data(Wide, "Data", {}, "all", <<"data">>), Data(Fast, "Data", {}, "rem", <<>>),
              Data(Usual, "Null", {}, "rem", <<>>), Data(Usual, "Data", {"retry"}, "rem", <<"data">>),
              Data(Long, "Data", {}, "rem", <<"data">>),
              Air(Usual, "Control", "ACK", {}, "rem", "none", "none", <<>>, "none"),
              Air(Fast, "Control", "ACK", {}, "rem", "none", "none", <<>>, "none"),
              Air(Usual, "Data", "Data", {}, "rem", "con", "b3", <<"data">>, "none"),
              Air(Usual, "Extension", "None", {}, "rem", "con", "b1", <<>>, "none")}
MCAirFrames == [plugin |-> MCPlugin, promiscuous |-> MCPromiscuous, monitor |-> MCMonitor]
MCFilters == {{}, {"PSP_", "SCE_"}}
MCContained == {<<"PSP_A", "PSP_">>, <<"PSP_B", "PSP_">>}
MCWhiteLists == {{}, {"con"}}
=============================================================================

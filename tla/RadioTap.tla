------------------------------ MODULE RadioTap ------------------------------
(***************************************************************************)
(* The radiotap header in front of a frame of monitor mode: how it is read *)
(* (RadioTapReader.cpp) and written (InsertRadioTapHeader).                *)
(*                                                                         *)
(* A header is a record: its length, the number of words of present flags, *)
(* the set of fields present and, at the offset where a value starts, the  *)
(* value.  Reading at an offset where none starts yields Junk.  Frequency  *)
(* and flags of the channel are one value, and so are the three bytes of   *)
(* the MCS field; "none" is a zero mKnownMCSInfo.                          *)
(***************************************************************************)
EXTENDS Naturals, Sequences

cMaxLength    == 64
cRadioTapSize == 16
Junk          == "junk"

\* The fields in the order of their bits, with alignment and size.
Fields == <<
    <<"TSFT", 8, 8>>, <<"Flags", 1, 1>>, <<"Rate", 1, 1>>, <<"Channel", 2, 4>>, <<"FHSS", 2, 2>>,
    <<"AntennaSignal", 1, 1>>, <<"AntennaNoise", 1, 1>>, <<"LockQuality", 2, 2>>,
    <<"TXAttenuation", 2, 2>>, <<"dBTXAttenuation", 2, 2>>, <<"dBmTXPower", 1, 1>>,
    <<"Antenna", 1, 1>>, <<"dBAntennaSignal", 1, 1>>, <<"dBAntennaNoise", 1, 1>>,
    <<"RXFlags", 2, 2>>, <<"TXFlags", 2, 2>>, <<"RTSRetries", 1, 1>>, <<"DataRetries", 1, 1>>,
    <<"XChannel", 8, 8>>, <<"MCS", 1, 3>> >>

\* The padding of the reader: the rest is added, not what is missing to it.
Pad(index, align) == index + (index % align)

Offset(header, field) ==
    LET end[i \in 0 .. Len(Fields)] ==
            IF i = 0 THEN 4 + 4 * header.words
            ELSE IF Fields[i][1] \in header.present
                 THEN Pad(end[i - 1], Fields[i][2]) + Fields[i][3]
                 ELSE end[i - 1]
        this == CHOOSE i \in DOMAIN Fields : Fields[i][1] = field
    IN  end[this] - Fields[this][3]

\* The parameters of a physical device, and what they are before a header is read.
FlagValues == {"short", "long", "fcs", "short fcs"}
Parameters(values) == [length : Nat, flags : FlagValues, rate : values, channel : values, mcs : values]

Default == [length |-> 0, flags |-> "short", rate |-> "11", channel |-> "1", mcs |-> "none"]

GetRawData(header, field, default) ==
    IF field \notin header.present THEN default
    ELSE LET index == Offset(header, field)
         IN  IF index \in DOMAIN header.at THEN header.at[index] ELSE Junk

FillRadioTapParameters(header) ==
    IF header.length > cMaxLength THEN Default
    ELSE [length  |-> header.length,
          flags   |-> GetRawData(header, "Flags", Default.flags),
          rate    |-> GetRawData(header, "Rate", Default.rate),
          channel |-> GetRawData(header, "Channel", Default.channel),
          mcs     |-> GetRawData(header, "MCS", Default.mcs)]

\* Of the flags the preamble and the frame check sequence.
HasFCS(flags)   == flags \in {"fcs", "short fcs"}
\* Mutant of ClearFCS: the flag is copied.
ClearNoFCS(flags) == flags
ClearFCS(flags) == CASE flags = "fcs" -> "long" [] flags = "short fcs" -> "short" [] OTHER -> flags

\* The header of a frame to send: no frame check sequence follows the frame.
InsertRadioTapHeader(p) ==
    LET known == p.mcs # "none"
    IN  [length  |-> cRadioTapSize + (IF known THEN 3 ELSE 0),
         words   |-> 1,
         present |-> {"Flags", "Channel", "TXFlags"} \cup (IF known THEN {"MCS"} ELSE {"Rate"}),
         at      |-> [index \in {8, 10, 14, IF known THEN 16 ELSE 9} |->
                        CASE index = 8  -> ClearFCS(p.flags)
                          [] index = 9  -> p.rate
                          [] index = 10 -> p.channel
                          [] index = 14 -> "noack"
                          [] index = 16 -> p.mcs]]

=============================================================================

---------------------------- MODULE FramesProofs ----------------------------
(***************************************************************************)
(* What is written reads back: the radiotap header of a frame that is sent *)
(* and the frame itself, whatever the parameters, and where the reader     *)
(* finds the flags of any header.                                          *)
(***************************************************************************)
EXTENDS Frames, Induction

-----------------------------------------------------------------------------
(* The reader of headers.                                                  *)

\* The recursion over the fields defines a function: where each field ends.

LEMMA EndsExist ==
    ASSUME NEW header, header.words \in Nat
    PROVE  \E end : end = [i \in 0 .. Len(Fields) |->
                       IF i = 0 THEN 4 + 4 * header.words
                       ELSE IF Fields[i][1] \in header.present
                            THEN Pad(end[i - 1], Fields[i][2]) + Fields[i][3]
                            ELSE end[i - 1]]
  <1> DEFINE N == Len(Fields)
             first == 4 + 4 * header.words
             step == [i \in 1 .. N |-> [last \in Nat |->
                        IF Fields[i][1] \in header.present
                        THEN Pad(last, Fields[i][2]) + Fields[i][3] ELSE last]]
  <1>1. N \in Nat /\ \A i \in 1 .. N : Fields[i][2] \in Nat \ {0} /\ Fields[i][3] \in Nat
    BY DEF Fields
  <1>2. first \in Nat  OBVIOUS
  <1> HIDE DEF N, first
  <1>3. StaysIn(step, N, Nat)
    <2> SUFFICES ASSUME NEW i \in 1 .. N, NEW last \in Nat PROVE step[i][last] \in Nat
      BY DEF StaysIn
    <2>1. last % Fields[i][2] \in Nat  BY <1>1
    <2> QED  BY <1>1, <2>1 DEF Pad
  <1> HIDE DEF step
  <1>4. PICK end : IsRecursive(end, N, Nat, first, step)
    BY <1>1, <1>2, <1>3, RecursionExists
  <1>5. ASSUME NEW i \in 1 .. N
        PROVE  end[i] = IF Fields[i][1] \in header.present
                        THEN Pad(end[i - 1], Fields[i][2]) + Fields[i][3] ELSE end[i - 1]
    <2>1. i - 1 \in 0 .. N  BY <1>1
    <2> QED  BY <1>4, <2>1 DEF step, IsRecursive
  <1>6. end = [i \in 0 .. N |->
                  IF i = 0 THEN first
                  ELSE IF Fields[i][1] \in header.present
                       THEN Pad(end[i - 1], Fields[i][2]) + Fields[i][3]
                       ELSE end[i - 1]]
    BY <1>1, <1>4, <1>5 DEF IsRecursive
  <1> QED  BY <1>6, Zenon DEF first, N

\* The flags are read behind the words of present flags or the time stamp.
LEMMA FlagsOffset ==
    ASSUME NEW header, header.words \in Nat, "Flags" \in header.present
    PROVE  Offset(header, "Flags") =
              IF "TSFT" \in header.present THEN Pad(4 + 4 * header.words, 8) + 8 ELSE 4 + 4 * header.words
  <1> DEFINE end[i \in 0 .. Len(Fields)] ==
            IF i = 0 THEN 4 + 4 * header.words
            ELSE IF Fields[i][1] \in header.present
                 THEN Pad(end[i - 1], Fields[i][2]) + Fields[i][3]
                 ELSE end[i - 1]
             this == CHOOSE i \in DOMAIN Fields : Fields[i][1] = "Flags"
  <1>1. Offset(header, "Flags") = end[this] - Fields[this][3]
    BY DEF Offset
  <1>2. end = [i \in 0 .. Len(Fields) |->
            IF i = 0 THEN 4 + 4 * header.words
            ELSE IF Fields[i][1] \in header.present
                 THEN Pad(end[i - 1], Fields[i][2]) + Fields[i][3]
                 ELSE end[i - 1]]
    BY EndsExist, Zenon
  <1> HIDE DEF end
  <1>3. Len(Fields) = 20 /\ DOMAIN Fields = 1 .. 20  BY DEF Fields
  <1>4. this = 2
    <2>1. \A i \in 1 .. 20 : Fields[i][1] = "Flags" <=> i = 2
      BY DEF Fields
    <2> QED  BY <1>3, <2>1
  <1> HIDE DEF this
  <1>5. /\ end[0] = 4 + 4 * header.words
        /\ end[1] = IF Fields[1][1] \in header.present
                    THEN Pad(end[0], Fields[1][2]) + Fields[1][3] ELSE end[0]
        /\ end[2] = IF Fields[2][1] \in header.present
                    THEN Pad(end[1], Fields[2][2]) + Fields[2][3] ELSE end[1]
    BY <1>2, <1>3
  <1>6. Fields[1] = <<"TSFT", 8, 8>> /\ Fields[2] = <<"Flags", 1, 1>>  BY DEF Fields
  <1>7. end[1] = IF "TSFT" \in header.present
                 THEN Pad(4 + 4 * header.words, 8) + 8 ELSE 4 + 4 * header.words
    BY <1>5, <1>6
  <1>8. end[1] \in Nat /\ end[1] % 1 = 0  BY <1>7 DEF Pad
  <1>9. end[2] = end[1] + 1  BY <1>5, <1>6, <1>8 DEF Pad
  <1> QED  BY <1>1, <1>4, <1>6, <1>7, <1>8, <1>9

\* What is read are parameters when the flags are: a value of the header, a
\* default, or what lies where no value starts.
LEMMA ReadsParameters ==
    ASSUME NEW values, {"11", "1", "none", Junk} \subseteq values,
           NEW header, header.length \in Nat,
           \A index \in DOMAIN header.at : header.at[index] \in values,
           GetRawData(header, "Flags", "short") \in FlagValues
    PROVE  FillRadioTapParameters(header) \in Parameters(values)
  <1>1. ASSUME NEW field, NEW default \in values PROVE GetRawData(header, field, default) \in values
    BY DEF GetRawData
  <1>2. GetRawData(header, "Rate", "11") \in values /\ GetRawData(header, "Channel", "1") \in values
        /\ GetRawData(header, "MCS", "none") \in values
    BY <1>1
  <1>3. "short" \in FlagValues  BY DEF FlagValues
  <1> QED  BY <1>2, <1>3 DEF FillRadioTapParameters, Default, Parameters

-----------------------------------------------------------------------------
(* The writer of headers.                                                  *)

\* A header without the flag of a check sequence.
LEMMA ClearedHasNone ==
    ASSUME NEW flags PROVE ~HasFCS(ClearFCS(flags))
  BY DEF ClearFCS, HasFCS

\* A written header is one the reader believes, without a check sequence.
LEMMA HeaderReadsBack ==
    ASSUME NEW values, FlagValues \cup {"11", "1", "none", "noack", Junk} \subseteq values, NEW p
    PROVE  LET header == InsertRadioTapHeader(p)
               read   == FillRadioTapParameters(header)
           IN  /\ header.length = IF p.mcs = "none" THEN 16 ELSE 19
               /\ read.length = header.length
               /\ read.flags = ClearFCS(p.flags)
               /\ p \in Parameters(values) => read \in Parameters(values)
  <1> DEFINE header == InsertRadioTapHeader(p)
             at == header.at
  <1>1. /\ header.length = IF p.mcs = "none" THEN 16 ELSE 19
        /\ header.words = 1
        /\ "Flags" \in header.present /\ "TSFT" \notin header.present
    BY DEF InsertRadioTapHeader, cRadioTapSize
  <1>2. /\ 8 \in DOMAIN at /\ at[8] = ClearFCS(p.flags)
        /\ \A index \in DOMAIN at : at[index] \in {ClearFCS(p.flags), p.channel, "noack", p.mcs, p.rate}
    BY DEF InsertRadioTapHeader
  <1> HIDE DEF header, at
  <1>3. Offset(header, "Flags") = 8  BY <1>1, FlagsOffset
  <1>4. GetRawData(header, "Flags", "short") = ClearFCS(p.flags)
    BY <1>1, <1>2, <1>3 DEF GetRawData, at
  <1>5. header.length \in Nat /\ ~(header.length > cMaxLength)
    BY <1>1 DEF cMaxLength
  <1>6. FillRadioTapParameters(header).length = header.length
        /\ FillRadioTapParameters(header).flags = ClearFCS(p.flags)
    BY <1>4, <1>5 DEF FillRadioTapParameters, Default
  <1>7. ASSUME p \in Parameters(values) PROVE FillRadioTapParameters(header) \in Parameters(values)
    <2>1. p.flags \in FlagValues /\ p.channel \in values /\ p.mcs \in values /\ p.rate \in values
      BY <1>7 DEF Parameters
    <2>2. ClearFCS(p.flags) \in FlagValues
      BY <2>1 DEF ClearFCS, FlagValues
    <2>3. \A index \in DOMAIN header.at : header.at[index] \in values
      BY <1>2, <2>1, <2>2 DEF at
    <2> QED  BY <1>4, <1>5, <2>2, <2>3, ReadsParameters
  <1> QED  BY <1>1, <1>6, <1>7 DEF header

-----------------------------------------------------------------------------
(* The frames of monitor mode.                                             *)

\* The flag that is read of a data frame says whether it has a check sequence.
FlagIsTrue(frame) ==
    Decode(frame).main = "Data" =>
        (HasFCS(FillRadioTapParameters(frame.header).flags) <=> frame.fcs)

\* An ethernet frame that is put into the air is read as the same frame.
LEMMA FrameReadsBack ==
    ASSUME NEW dst, NEW src, NEW type, NEW body, body # <<>>, NEW bssid, NEW p
    PROVE  LET ethernet == [dst |-> dst, src |-> src, type |-> type, body |-> body]
               frame    == Convert8023Out(ethernet, bssid, p)
           IN  /\ frame # Empty /\ frame.header = InsertRadioTapHeader(p)
               /\ Decode(frame) = frame /\ frame.main = "Data"
               /\ FlagIsTrue(frame) /\ Convert80211Out(frame) = ethernet
  <1> DEFINE ethernet == [dst |-> dst, src |-> src, type |-> type, body |-> body]
             frame == Convert8023Out(ethernet, bssid, p)
             header == InsertRadioTapHeader(p)
  <1>1. frame = [header |-> header, at |-> header.length, main |-> "Data", sub |-> "Data", flags |-> {},
                 dst |-> dst, src |-> src, bssid |-> bssid, ssid |-> "none", type |-> type,
                 body |-> body, fcs |-> FALSE]
    BY DEF Convert8023Out, InsertIEEE80211Header, HasData
  <1>2. /\ FillRadioTapParameters(header).length = header.length
        /\ ~HasFCS(FillRadioTapParameters(header).flags)
    <2>1. PICK values : FlagValues \cup {"11", "1", "none", "noack", Junk} \subseteq values
      OBVIOUS
    <2> HIDE DEF header
    <2>2. FillRadioTapParameters(header).length = header.length
          /\ FillRadioTapParameters(header).flags = ClearFCS(p.flags)
      BY <2>1, HeaderReadsBack DEF header
    <2> QED  BY <2>2, ClearedHasNone
  <1> HIDE DEF frame, header
  <1>3. Decode(frame) = frame  BY <1>1, <1>2 DEF Decode
  <1>4. FlagIsTrue(frame)  BY <1>1, <1>2 DEF FlagIsTrue
  <1>5. frame.body = body /\ frame.fcs = FALSE /\ frame.sub = "Data" /\ frame.header = header
    BY <1>1
  <1>6. Unchecked(frame) = body  BY <1>2, <1>5 DEF Unchecked
  <1>7. Convert80211Out(frame) = ethernet  BY <1>1, <1>5, <1>6 DEF Convert80211Out
  <1>8. frame # Empty  BY <1>1 DEF Empty
  <1> QED  BY <1>1, <1>3, <1>4, <1>7, <1>8 DEF frame, header

\* An acknowledgement without an MCS field is read as one.
LEMMA AcknowledgementReadsBack ==
    ASSUME NEW receiver, NEW p
    PROVE  LET frame == Decode(ConstructAcknowledgementFrame(receiver, p))
           IN  \/ frame.sub = "ACK" /\ frame.dst = receiver
               \/ p.mcs # "none"
  <1> DEFINE frame == ConstructAcknowledgementFrame(receiver, p)
             header == InsertRadioTapHeader(p)
  <1>1. frame = [header |-> header, at |-> 16, main |-> "Control", sub |-> "ACK", dst |-> receiver]
    BY DEF ConstructAcknowledgementFrame, cRadioTapSize
  <1>2. p.mcs = "none" => FillRadioTapParameters(header).length = 16
    BY HeaderReadsBack
  <1> HIDE DEF frame, header
  <1>3. p.mcs = "none" => Decode(frame) = frame  BY <1>1, <1>2 DEF Decode
  <1> QED  BY <1>1, <1>3 DEF frame

=============================================================================

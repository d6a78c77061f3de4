------------------------- MODULE WifiInterfaceProofs -------------------------
(***************************************************************************)
(* The wifi interface, for any number of threads, networks and faults:     *)
(* mLocked excludes, the lists are in order, undisturbed answers keep in   *)
(* step with the questions.                                                *)
(*                                                                         *)
(* LockedAlone speaks of two threads and is not inductive.  It follows     *)
(* from Owned, which ties each thread to the mutex: who is between a send  *)
(* and the end of its reading is the one that holds it.  The converse is   *)
(* not claimed: a thread that has crashed may have left it locked.         *)
(***************************************************************************)
EXTENDS WifiInterface, Induction, TLAPS

Steps == Unlocked \cup Holding \cup {"crashed"}

Owned ==
    /\ pc \in [Threads -> Steps]
    /\ \A t \in Threads : pc[t] \in Holding => mLocked = t

\* The steps of the mutex, whatever else they do: it is taken, given back, or left alone.
LEMMA Takes ==
    ASSUME Owned, NEW t \in Threads, NEW step \in Holding, Lock(t), Goto(t, step)
    PROVE  Owned'
  <1>1. pc' \in [Threads -> Steps]  BY DEF Owned, Goto, Steps
  <1>2. ASSUME NEW u \in Threads, pc'[u] \in Holding PROVE mLocked' = u
    <2>1. CASE u = t  BY <2>1 DEF Lock
    <2>2. CASE u # t
      <3>1. pc[u] \in Holding  BY <1>2, <2>2 DEF Owned, Goto
      <3>2. mLocked = u  BY <3>1 DEF Owned
      <3> QED  BY <3>2, WifiAssumption DEF Lock
    <2> QED  BY <2>1, <2>2
  <1> QED  BY <1>1, <1>2 DEF Owned

LEMMA GivesBack ==
    ASSUME Owned, NEW t \in Threads, pc[t] \in Holding, Unlock,
           NEW step \in Unlocked \cup {"crashed"}, Goto(t, step)
    PROVE  Owned'
  <1>1. pc' \in [Threads -> Steps]  BY DEF Owned, Goto, Steps
  <1>2. ASSUME NEW u \in Threads, pc'[u] \in Holding PROVE FALSE
    <2>1. u # t  BY <1>2 DEF Owned, Goto, Unlocked, Holding
    <2>2. pc[u] \in Holding  BY <1>2, <2>1 DEF Owned, Goto
    <2>3. mLocked = u /\ mLocked = t  BY <2>2 DEF Owned
    <2> QED  BY <2>1, <2>3
  <1> QED  BY <1>1, <1>2 DEF Owned

LEMMA GoesOn ==
    ASSUME Owned, NEW t \in Threads, UNCHANGED mLocked,
           NEW step \in Unlocked \cup {"crashed"}, Goto(t, step)
    PROVE  Owned'
  <1>1. pc' \in [Threads -> Steps]  BY DEF Owned, Goto, Steps
  <1>2. ASSUME NEW u \in Threads, pc'[u] \in Holding PROVE mLocked' = u
    <2>1. u # t  BY <1>2 DEF Owned, Goto, Unlocked, Holding
    <2>2. pc[u] \in Holding  BY <1>2, <2>1 DEF Owned, Goto
    <2> QED  BY <2>2 DEF Owned
  <1> QED  BY <1>1, <1>2 DEF Owned

LEMMA KeepsHolding ==
    ASSUME Owned, NEW t \in Threads, UNCHANGED mLocked, pc[t] \in Holding,
           NEW step \in Holding, Goto(t, step)
    PROVE  Owned'
  <1>1. pc' \in [Threads -> Steps]  BY DEF Owned, Goto, Steps
  <1>2. ASSUME NEW u \in Threads, pc'[u] \in Holding PROVE mLocked' = u
    <2>1. pc[u] \in Holding  BY <1>2 DEF Owned, Goto
    <2> QED  BY <2>1 DEF Owned
  <1> QED  BY <1>1, <1>2 DEF Owned

LEMMA LeavesAlone ==
    ASSUME Owned, UNCHANGED <<pc, mLocked>>
    PROVE  Owned'
  BY DEF Owned

\* A message read by nl_recvmsgs_default leads on, or to the crash of its callback.
LEMMA DefaultGoes ==
    ASSUME NEW t, NEW then, Default(t, then)
    PROVE  Goto(t, then) \/ Goto(t, "crashed")
  BY DEF Default

LEMMA NotSentGoes ==
    ASSUME NEW t, NEW step, NEW then, NotSent(t, step, then)
    PROVE  Goto(t, then) /\ UNCHANGED mLocked
  BY DEF NotSent

-----------------------------------------------------------------------------
LEMMA OwnedInit == Init => Owned
  BY DEF Init, Owned, Steps, Unlocked, Holding

\* Every step of a thread is one of the five kinds.
LEMMA OwnedStep ==
    ASSUME Owned, NEW t \in Threads, Step(t)
    PROVE  Owned'
  <1>1. CASE LeaveIBSS(t)
    <2>1. CASE NotSent(t, "leave", "chosen")
      BY <2>1, NotSentGoes, GoesOn, "chosen" \in Unlocked DEF Unlocked
    <2>2. CASE At(t, "leave") /\ Lock(t) /\ Goto(t, "leaving")
      BY <2>2, Takes, "leaving" \in Holding DEF Holding
    <2> QED  BY <1>1, <2>1, <2>2 DEF LeaveIBSS
  <1>2. CASE Left(t)
    <2>1. pc[t] \in Holding /\ Unlock /\ Default(t, "chosen")  BY <1>2 DEF Left, At, Holding
    <2> QED  BY <2>1, DefaultGoes, GivesBack DEF Unlocked
  <1>3. CASE Choose(t)
    <2>1. PICK step \in {"clear", "join"} : Goto(t, step)  BY <1>3 DEF Choose
    <2> QED  BY <1>3, <2>1, GoesOn DEF Choose, Unlocked
  <1>4. CASE Pick(t)
    BY <1>4, GoesOn DEF Pick, Unlocked
  <1>5. CASE Connect(t)
    <2>1. CASE NotSent(t, "join", "out")
      BY <2>1, NotSentGoes, GoesOn DEF Unlocked
    <2>2. CASE At(t, "join") /\ Lock(t) /\ Goto(t, "joining")
      BY <2>2, Takes DEF Holding
    <2> QED  BY <1>5, <2>1, <2>2 DEF Connect
  <1>6. CASE Connected(t)
    <2>1. pc[t] \in Holding /\ Unlock /\ Default(t, "out")  BY <1>6 DEF Connected, At, Holding
    <2> QED  BY <2>1, DefaultGoes, GivesBack DEF Unlocked
  <1>7. CASE Clear(t) \/ Resolve(t) \/ AddMembership(t) \/ ModifyCallback(t) \/ DropMembership(t) \/ Free(t)
    BY <1>7, GoesOn DEF Clear, Resolve, AddMembership, ModifyCallback, DropMembership, Free, Returns, Unlocked
  <1>8. CASE Resolved(t)
    <2>1. UNCHANGED mLocked /\ (Goto(t, "familyAck") \/ Goto(t, "group") \/ Goto(t, "crashed"))
      BY <1>8, DefaultGoes DEF Resolved
    <2> QED  BY <2>1, GoesOn DEF Unlocked
  <1>9. CASE Group(t)
    <2>1. CASE NotSent(t, "group", "add")
      BY <2>1, NotSentGoes, GoesOn DEF Unlocked
    <2>2. CASE At(t, "group") /\ Lock(t) /\ Goto(t, "grouping")
      BY <2>2, Takes DEF Holding
    <2> QED  BY <1>9, <2>1, <2>2 DEF Group
  <1>10. CASE Grouped(t)
    <2>1. pc[t] \in Holding  BY <1>10 DEF Grouped, At, Holding
    <2>2. CASE Unlock /\ Goto(t, "add")  BY <2>1, <2>2, GivesBack DEF Unlocked
    <2>3. CASE UNCHANGED <<mLocked, pc>>  BY <2>3, LeavesAlone
    <2> QED  BY <1>10, <2>2, <2>3 DEF Grouped
  <1>11. CASE Trigger(t)
    <2>1. CASE NotSent(t, "trigger", "drop")
      BY <2>1, NotSentGoes, GoesOn DEF Unlocked
    <2>2. CASE At(t, "trigger") /\ Lock(t) /\ Goto(t, "scanning")
      BY <2>2, Takes DEF Holding
    <2> QED  BY <1>11, <2>1, <2>2 DEF Trigger
  <1>12. CASE Scanned(t)
    <2>1. pc[t] \in Holding  BY <1>12 DEF Scanned, At, Holding
    <2>2. CASE Goto(t, "drain") /\ UNCHANGED mLocked  BY <2>1, <2>2, KeepsHolding DEF Holding
    <2>3. CASE Unlock /\ Goto(t, "drop")  BY <2>1, <2>3, GivesBack DEF Unlocked
    <2>4. CASE UNCHANGED <<mLocked, pc>>  BY <2>4, LeavesAlone
    <2> QED  BY <1>12, <2>2, <2>3, <2>4 DEF Scanned
  <1>13. CASE ClearSocket(t)
    BY <1>13, LeavesAlone DEF ClearSocket
  <1>14. CASE Dump(t)
    <2>1. CASE UNCHANGED mLocked /\ Goto(t, "listed")  BY <2>1, GoesOn DEF Unlocked
    <2>2. CASE Lock(t) /\ Goto(t, "dumping")  BY <2>2, Takes DEF Holding
    <2> QED  BY <1>14, <2>1, <2>2 DEF Dump, Returns
  <1>15. CASE Dumped(t)
    <2>1. pc[t] \in Holding /\ Unlock /\ Default(t, "listed")  BY <1>15 DEF Dumped, At, Holding
    <2> QED  BY <2>1, DefaultGoes, GivesBack DEF Unlocked
  <1>16. CASE UseFreed(t)
    BY <1>16, GoesOn DEF UseFreed
  <1> QED
    BY <1>1, <1>2, <1>3, <1>4, <1>5, <1>6, <1>7, <1>8, <1>9, <1>10, <1>11, <1>12, <1>13, <1>14,
       <1>15, <1>16 DEF Step

LEMMA OwnedNext ==
    ASSUME Owned, [Next]_vars
    PROVE  Owned'
  <1>1. CASE UNCHANGED vars  BY <1>1, LeavesAlone DEF vars
  <1>2. ASSUME NEW t \in Threads, Begin(t) PROVE Owned'
    BY <1>2, GoesOn DEF Begin, Unlocked
  <1>3. ASSUME NEW t \in Threads, Step(t) PROVE Owned'
    BY <1>3, OwnedStep
  <1>4. CASE ScanEnds \/ ForeignScan
    BY <1>4, LeavesAlone DEF ScanEnds, ForeignScan
  <1> QED  BY <1>1, <1>2, <1>3, <1>4 DEF Next

\* No two threads are ever between mLocked.lock() and its unlock(), on any path
\* through the failures of a scan (WifiInterfaceLinuxBSD.cpp:387-484).
THEOREM OneHolder == Spec => []LockedAlone
  <1>1. Spec => []Owned  BY OwnedInit, OwnedNext, PTL DEF Spec
  <1>2. Owned => LockedAlone  BY DEF Owned, LockedAlone
  <1> QED  BY <1>1, <1>2, PTL

-----------------------------------------------------------------------------
(* The list.  A callback extends the list another thread's callback has    *)
(* begun, so what is claimed of it is claimed of extending any list that   *)
(* is in order (Lists), by any listing of the kernel's.                    *)

First(list) == (\E i \in DOMAIN list : list[i].isconnected) => list[1].isconnected
Lists       == {list \in Seq(Infos) : First(list)}

\* The list after clear().
LEMMA EmptyListed == <<>> \in Lists
  BY DEF Lists, First

\* One network more.
LEMMA AddKeepsFirst ==
    ASSUME NEW list \in Lists, NEW info \in Infos
    PROVE  Add(list, info) \in Lists
  <1>1. list \in Seq(Infos) /\ First(list)  BY DEF Lists
  <1>2. info.isconnected \in BOOLEAN  BY DEF Infos
  <1>3. CASE info.isconnected /\ list # <<>>
    <2> DEFINE longer == Append(list, list[1])
               new    == [longer EXCEPT ![1] = info]
    <2>1. list[1] \in Infos /\ Len(list) > 0  BY <1>1, <1>3
    <2>2. longer \in Seq(Infos) /\ 1 \in DOMAIN longer  BY <1>1, <2>1
    <2> HIDE DEF longer
    <2>3. new \in Seq(Infos) /\ new[1] = info  BY <2>2
    <2>4. First(new)  BY <1>3, <2>3 DEF First
    <2>5. Add(list, info) = new  BY <1>3 DEF Add, longer
    <2> QED  BY <2>3, <2>4, <2>5 DEF Lists
  <1>4. CASE ~(info.isconnected /\ list # <<>>)
    <2> DEFINE new == Append(list, info)
    <2>1. Add(list, info) = new  BY <1>4 DEF Add
    <2>2. new \in Seq(Infos) /\ DOMAIN new = 1 .. Len(list) + 1 /\ DOMAIN list = 1 .. Len(list)
      BY <1>1
    <2>3. new[Len(list) + 1] = info /\ \A i \in DOMAIN list : new[i] = list[i]  BY <1>1
    <2> HIDE DEF new
    <2>4. CASE list = <<>>
      <3>1. DOMAIN new = {1} /\ new[1] = info  BY <2>2, <2>3, <2>4
      <3> QED  BY <2>1, <2>2, <3>1 DEF Lists, First
    <2>5. CASE list # <<>>
      <3>1. ~info.isconnected /\ 1 \in DOMAIN list  BY <1>1, <1>4, <2>5
      <3>2. First(new)  BY <1>1, <2>2, <2>3, <3>1 DEF First
      <3> QED  BY <2>1, <2>2, <3>2 DEF Lists
    <2> QED  BY <2>4, <2>5
  <1> QED  BY <1>3, <1>4

\* What the kernel lists: the networks that do not hide are of the type of the list.
IsListing(report) ==
    /\ Len(report) \in Nat
    /\ \A i \in 1 .. Len(report) : report[i].ssid \notin Hidden => report[i] \in Infos

LEMMA ListingTyped == IsListing(<<>>) /\ \A n : IsListing(Listing(n))
  <1> SUFFICES ASSUME NEW n PROVE IsListing(Listing(n))
    BY DEF IsListing
  <1>1. Len(Air) \in Nat /\ DOMAIN Air = 1 .. Len(Air)  BY WifiAssumption
  <1>2. Len(Listing(n)) = Len(Air) /\ DOMAIN Listing(n) = 1 .. Len(Air)  BY <1>1 DEF Listing
  <1>3. ASSUME NEW i \in 1 .. Len(Air), Air[i] \notin Hidden
        PROVE  Listing(n)[i] \in Infos
    <2> DEFINE connected == Air[i] = n
    <2>1. Air[i] \in Networks  BY <1>1, <1>3 DEF Networks
    <2>2. Listing(n)[i] = [ssid |-> Air[i], isconnected |-> connected]  BY <1>1 DEF Listing
    <2>3. connected \in BOOLEAN  OBVIOUS
    <2> HIDE DEF connected
    <2> QED  BY <2>1, <2>2, <2>3 DEF Infos
  <1>4. \A i \in 1 .. Len(Air) : Listing(n)[i].ssid = Air[i]  BY <1>1 DEF Listing
  <1> QED  BY <1>1, <1>2, <1>3, <1>4 DEF IsListing

\* All that the kernel lists.
LEMMA DumpKeepsFirst ==
    ASSUME NEW list \in Lists, NEW report, IsListing(report)
    PROVE  DumpResults(list, report) \in Lists
  <1> DEFINE N == Len(report)
             step == [i \in 1 .. N |-> [v \in Lists |->
                        IF report[i].ssid \in Hidden THEN v ELSE Add(v, report[i])]]
             added == CHOOSE f : f = [i \in 0 .. N |->
                        IF i = 0 THEN list
                        ELSE IF report[i].ssid \in Hidden THEN f[i - 1] ELSE Add(f[i - 1], report[i])]
  <1>1. N \in Nat /\ \A i \in 1 .. N : report[i].ssid \notin Hidden => report[i] \in Infos
    BY DEF IsListing
  <1>2. DumpResults(list, report) = added[N]  BY DEF DumpResults
  <1> HIDE DEF N
  <1>3. StaysIn(step, N, Lists)
    <2> SUFFICES ASSUME NEW i \in 1 .. N, NEW v \in Lists PROVE step[i][v] \in Lists
      BY DEF StaysIn
    <2> QED  BY <1>1, AddKeepsFirst
  <1> HIDE DEF step
  <1>4. PICK f : IsRecursive(f, N, Lists, list, step)
    BY <1>1, <1>3, RecursionExists
  <1>5. ASSUME NEW i \in 1 .. N
        PROVE  f[i] = IF report[i].ssid \in Hidden THEN f[i - 1] ELSE Add(f[i - 1], report[i])
    <2>1. i - 1 \in 0 .. N  BY <1>1
    <2> QED  BY <1>4, <2>1 DEF step, IsRecursive
  <1>6. f = [i \in 0 .. N |->
                  IF i = 0 THEN list
                  ELSE IF report[i].ssid \in Hidden THEN f[i - 1] ELSE Add(f[i - 1], report[i])]
    BY <1>1, <1>4, <1>5 DEF IsRecursive
  <1>7. added = [i \in 0 .. N |->
                  IF i = 0 THEN list
                  ELSE IF report[i].ssid \in Hidden THEN added[i - 1] ELSE Add(added[i - 1], report[i])]
    BY <1>6, Zenon
  <1> HIDE DEF added
  <1> DEFINE S == {i \in Nat : i <= N => added[i] \in Lists}
  <1>8. 0 \in S
    <2>1. 0 \in 0 .. N  BY <1>1
    <2> QED  BY <1>7, <2>1
  <1>9. ASSUME NEW i \in Nat, i \in S PROVE i + 1 \in S
    <2>1. CASE i + 1 <= N
      <3>1. i + 1 \in 1 .. N /\ i + 1 \in 0 .. N /\ (i + 1) - 1 = i /\ i + 1 # 0  BY <1>1, <2>1
      <3>2. added[i] \in Lists  BY <1>1, <1>9, <2>1
      <3>3. added[i + 1] = IF report[i + 1].ssid \in Hidden THEN added[i] ELSE Add(added[i], report[i + 1])
        BY <1>7, <3>1
      <3>4. added[i + 1] \in Lists  BY <1>1, <3>1, <3>2, <3>3, AddKeepsFirst
      <3> QED  BY <3>4
    <2>2. CASE ~(i + 1 <= N)  BY <2>2
    <2> QED  BY <2>1, <2>2
  <1> HIDE DEF S
  <1>10. N \in S  BY <1>1, <1>8, <1>9, NumberInduction
  <1> QED  BY <1>1, <1>2, <1>10 DEF S

-----------------------------------------------------------------------------
(* The types, one group of variables after the other.                      *)

\* Requests and the reading of answers.
LEMMA AnswersTyped ==
    ASSUME inbox \in Seq(Messages), NEW kinds \in Seq(Kinds), Answers(kinds)
    PROVE  inbox' \in Seq(Messages)
  <1> DEFINE answers == [i \in DOMAIN kinds |-> Message(kinds[i])]
  <1>1. \A i \in DOMAIN kinds : Message(kinds[i]) \in Messages  BY DEF Message, Messages
  <1>2. answers \in Seq(Messages)  BY <1>1
  <1> QED  BY <1>2 DEF Answers

\* The kernel answers with one message or with two.
LEMMA OneAnswer ==
    /\ \A kind \in Kinds : <<kind>> \in Seq(Kinds)
    /\ \A kind, other \in Kinds : <<kind, other>> \in Seq(Kinds)
  OBVIOUS

LEMMA ReadTyped ==
    ASSUME inbox \in Seq(Messages), Read
    PROVE  inbox' \in Seq(Messages) /\ Head(inbox) \in Messages /\ Len(inbox) > 0
  BY DEF Read

\* The queue after a message was read.
LEMMA ReadTakesHead ==
    ASSUME inbox \in Seq(Messages), Read
    PROVE  /\ Len(inbox) > 0 /\ Head(inbox) = inbox[1] /\ Len(inbox') = Len(inbox) - 1
           /\ inbox' \in Seq(Messages)
           /\ \A i \in 1 .. Len(inbox') : inbox'[i] = inbox[i + 1]
  BY DEF Read

\* The socket.
LEMMA InboxTyped ==
    ASSUME TypeOK, [Next]_vars
    PROVE  inbox' \in Seq(Messages)
  <1>1. inbox \in Seq(Messages) /\ joined \in Networks \cup {"none"}  BY DEF TypeOK
  <1>2. CASE UNCHANGED inbox  BY <1>1, <1>2
  <1>3. CASE Read  BY <1>1, <1>3, ReadTyped
  <1>4. ASSUME NEW kind \in Kinds, Answers(<<kind>>) PROVE inbox' \in Seq(Messages)
    BY <1>1, <1>4, OneAnswer, AnswersTyped
  <1>5. ASSUME NEW kind \in Kinds, NEW other \in Kinds, Answers(<<kind, other>>)
        PROVE  inbox' \in Seq(Messages)
    BY <1>1, <1>5, OneAnswer, AnswersTyped
  <1>6. ASSUME NEW t \in Threads, Step(t) PROVE inbox' \in Seq(Messages)
    <2>1. CASE LeaveIBSS(t)
      <3>1. CASE Answers(<<IF joined = "none" THEN "error" ELSE "ack">>)
        BY <1>4, <3>1 DEF Kinds
      <3> QED  BY <1>2, <2>1, <3>1 DEF LeaveIBSS, NotSent
    <2>2. CASE Connect(t)
      BY <1>2, <1>4, <2>2 DEF Connect, NotSent, Kinds
    <2>3. CASE Resolve(t) \/ Group(t)
      BY <1>2, <1>5, <2>3 DEF Resolve, Group, NotSent, Kinds
    <2>4. CASE Trigger(t)
      <3>1. CASE Answers(<<"error">>) \/ Answers(<<"EIO">>)
        BY <1>4, <3>1 DEF Kinds
      <3>2. CASE Answers(IF member THEN <<"start", "ack">> ELSE <<"ack">>)
        BY <1>4, <1>5, <3>2 DEF Kinds
      <3> QED  BY <1>2, <2>4, <3>1, <3>2 DEF Trigger, NotSent
    <2>5. CASE Dump(t)
      <3>1. CASE inbox' = Append(inbox, [is |-> "dump", of |-> Listing(joined)])
        <4>1. [is |-> "dump", of |-> Listing(joined)] \in Messages  BY <1>1 DEF Messages, Kinds
        <4> QED  BY <1>1, <3>1, <4>1
      <3> QED  BY <1>2, <2>5, <3>1 DEF Dump
    <2>6. CASE Free(t)
      <3>1. inbox' = <<>>  BY <2>6 DEF Free
      <3> QED  BY <3>1
    <2>7. CASE Choose(t) \/ Pick(t) \/ Clear(t) \/ AddMembership(t) \/ DropMembership(t)
               \/ ModifyCallback(t) \/ UseFreed(t)
      BY <1>2, <2>7 DEF Choose, Pick, Clear, AddMembership, DropMembership, ModifyCallback, UseFreed
    <2>8. CASE Left(t) \/ Connected(t) \/ Resolved(t) \/ Grouped(t) \/ Scanned(t) \/ ClearSocket(t)
               \/ Dumped(t)
      BY <1>3, <2>8 DEF Left, Connected, Resolved, Grouped, Scanned, ClearSocket, Dumped, Default
    <2> QED  BY <1>6, <2>1, <2>2, <2>3, <2>4, <2>5, <2>6, <2>7, <2>8 DEF Step
  <1>7. CASE ScanEnds
    <2>1. PICK end \in {"results"} \cup (Faults \cap {"aborted"}) :
            IF member THEN Answers(<<end>>) ELSE UNCHANGED inbox
      BY <1>7 DEF ScanEnds
    <2>2. end \in Kinds  BY <2>1 DEF Kinds
    <2> QED  BY <1>2, <1>4, <2>1, <2>2
  <1>8. CASE ForeignScan  BY <1>4, <1>8 DEF ForeignScan, Kinds
  <1>9. ASSUME NEW t \in Threads, Begin(t) PROVE UNCHANGED inbox
    BY <1>9 DEF Begin
  <1>10. CASE UNCHANGED vars  BY <1>2, <1>10 DEF vars
  <1> QED  BY <1>2, <1>6, <1>7, <1>8, <1>9, <1>10 DEF Next

\* The list of the interface and those the callers were given.
LEMMA DefaultListed ==
    ASSUME inbox \in Seq(Messages), mLastReceivedScanInformation \in Lists,
           NEW t, NEW then, Default(t, then)
    PROVE  mLastReceivedScanInformation' \in Lists
  <1>1. Head(inbox) \in Messages  BY ReadTyped DEF Default
  <1>2. CASE UNCHANGED mLastReceivedScanInformation  BY <1>2
  <1>3. CASE /\ Is({"dump"}) /\ valid # "none"
             /\ mLastReceivedScanInformation' = DumpResults(mLastReceivedScanInformation, Head(inbox).of)
    <2>1. IsListing(Head(inbox).of)  BY <1>1, ListingTyped DEF Messages
    <2> QED  BY <1>3, <2>1, DumpKeepsFirst
  <1> QED  BY <1>2, <1>3 DEF Default

ListsOK ==
    /\ mLastReceivedScanInformation \in Lists
    /\ lNetworks \in [Threads -> Lists]

\* Every step leaves the lists as they should be.
LEMMA ListsTyped ==
    ASSUME TypeOK, ListsOK, [Next]_vars
    PROVE  ListsOK'
  <1>1. inbox \in Seq(Messages)  BY DEF TypeOK
  <1>2. CASE UNCHANGED <<mLastReceivedScanInformation, lNetworks>>  BY <1>2 DEF ListsOK
  <1>3. ASSUME NEW t \in Threads, NEW then, Default(t, then)
        PROVE  mLastReceivedScanInformation' \in Lists
    BY <1>1, <1>3, DefaultListed DEF ListsOK
  <1>4. ASSUME NEW t \in Threads, Step(t) PROVE ListsOK'
    <2>1. CASE Left(t) \/ Connected(t) \/ Resolved(t)
      BY <1>2, <1>3, <1>4, <2>1 DEF Left, Connected, Resolved, locals, ListsOK
    <2>2. CASE Dumped(t)
      <3>1. mLastReceivedScanInformation' \in Lists  BY <1>3, <2>2 DEF Dumped
      <3>2. lNetworks' \in [Threads -> Lists]  BY <2>2, <3>1 DEF Dumped, ListsOK
      <3> QED  BY <3>1, <3>2 DEF ListsOK
    <2>3. CASE Free(t)
      BY <1>4, <2>3 DEF Free, Returns, ListsOK
    <2>4. CASE Dump(t)
      BY <1>4, <2>4 DEF Dump, Returns, ListsOK, locals
    <2>5. CASE Pick(t)
      BY <1>4, <2>5, EmptyListed DEF Pick, ListsOK
    <2>6. CASE Clear(t)
      BY <1>4, <2>6, EmptyListed DEF Clear, ListsOK, locals
    <2>7. CASE LeaveIBSS(t) \/ Choose(t) \/ Connect(t) \/ Resolve(t) \/ Group(t) \/ Grouped(t) \/ AddMembership(t)
               \/ Trigger(t) \/ Scanned(t) \/ ClearSocket(t) \/ DropMembership(t) \/ ModifyCallback(t)
               \/ UseFreed(t)
      BY <1>2, <2>7 DEF LeaveIBSS, Choose, Connect, Resolve, Group, Grouped, AddMembership,
               Trigger, Scanned, ClearSocket, DropMembership, ModifyCallback, UseFreed, NotSent, locals
    <2> QED  BY <1>4, <2>1, <2>2, <2>3, <2>4, <2>5, <2>6, <2>7 DEF Step
  <1>5. CASE ScanEnds \/ ForeignScan
    BY <1>2, <1>5 DEF ScanEnds, ForeignScan, locals
  <1>6. ASSUME NEW t \in Threads, Begin(t) PROVE ListsOK'
    BY <1>2, <1>6 DEF Begin, locals
  <1>7. CASE UNCHANGED vars  BY <1>2, <1>7 DEF vars, locals
  <1> QED  BY <1>4, <1>5, <1>6, <1>7 DEF Next

\* What is no list, message or place.
Flags ==
    /\ mSocket \in BOOLEAN /\ member \in BOOLEAN /\ scans \in BOOLEAN
    /\ mLocked \in Threads \cup {"free"} /\ valid \in Threads \cup {"none"}
    /\ joined \in Networks \cup {"none"}
    /\ lMulticastId \in [Threads -> BOOLEAN] /\ lSuccess \in [Threads -> BOOLEAN]

Bounds == calls \in 0..MaxCalls /\ foreign \in 0..MaxForeign

\* Every step leaves them so.
LEMMA FlagsTyped ==
    ASSUME Flags, [Next]_vars
    PROVE  Flags'
  <1> USE DEF Flags, socket, kernel, locals
  <1>1. CASE UNCHANGED vars  BY <1>1 DEF vars
  <1>2. ASSUME NEW t \in Threads, Begin(t) PROVE Flags'
    BY <1>2 DEF Begin
  <1>3. CASE ScanEnds \/ ForeignScan
    BY <1>3 DEF ScanEnds, ForeignScan
  <1>4. ASSUME NEW t \in Threads, Step(t) PROVE Flags'
    <2>1. CASE Left(t) \/ Connected(t) \/ Dumped(t) \/ Resolved(t)
      BY <1>4, <2>1 DEF Left, Connected, Dumped, Resolved, Unlock
    <2>2. CASE Choose(t) \/ Pick(t) \/ Clear(t) \/ Resolve(t) \/ ClearSocket(t) \/ UseFreed(t)
      BY <1>4, <2>2 DEF Choose, Pick, Clear, Resolve, ClearSocket, UseFreed
    <2>3. CASE LeaveIBSS(t) \/ Group(t) \/ Dump(t)
      BY <1>4, <2>3 DEF LeaveIBSS, Group, Dump, NotSent, Lock, Returns
    <2>4. CASE Connect(t)
      BY <1>4, <2>4 DEF Connect, NotSent, Lock
    <2>5. CASE Grouped(t)
      <3>1. PICK new \in BOOLEAN : lMulticastId' = [lMulticastId EXCEPT ![t] = new]
        <4>1. lMulticastId[t] \in BOOLEAN  BY <1>4
        <4>2. (Is({"ack"}) /\ lMulticastId[t]) \in BOOLEAN /\ (Is({"family"}) \/ lMulticastId[t]) \in BOOLEAN
          OBVIOUS
        <4> QED  BY <2>5, <4>2, Zenon DEF Grouped
      <3> QED  BY <1>4, <2>5, <3>1 DEF Grouped, Unlock
    <2>6. CASE AddMembership(t)
      BY <1>4, <2>6 DEF AddMembership
    <2>7. CASE Trigger(t)
      BY <1>4, <2>7 DEF Trigger, NotSent, Lock
    <2>8. CASE Scanned(t)
      <3>1. UNCHANGED lSuccess \/ \E new \in BOOLEAN : lSuccess' = [lSuccess EXCEPT ![t] = new]
        <4>1. \A timedOut : (Is({"results", "dump"}) /\ ~timedOut) \in BOOLEAN  OBVIOUS
        <4> QED  BY <2>8, <4>1, Zenon DEF Scanned
      <3>2. lSuccess' \in [Threads -> BOOLEAN]  BY <1>4, <3>1
      <3>3. mLocked' = mLocked \/ mLocked' = "free"  BY <2>8 DEF Scanned, Unlock
      <3>4. UNCHANGED <<socket, kernel, lMulticastId>>  BY <2>8 DEF Scanned
      <3> QED  BY <3>2, <3>3, <3>4
    <2>9. CASE DropMembership(t)
      <3>1. member' \in BOOLEAN
        <4>1. (member /\ ~lMulticastId[t]) \in BOOLEAN  OBVIOUS
        <4> QED  BY <2>9, <4>1, Zenon DEF DropMembership
      <3>2. /\ lMulticastId' = [lMulticastId EXCEPT ![t] = FALSE]
            /\ lSuccess' = [lSuccess EXCEPT ![t] = FALSE]
            /\ UNCHANGED <<mSocket, valid, mLocked, kernel>>
        BY <2>9 DEF DropMembership
      <3> QED  BY <3>1, <3>2
    <2>10. CASE Free(t) \/ ModifyCallback(t)
      BY <1>4, <2>10 DEF Free, ModifyCallback, Returns
    <2> QED  BY <1>4, <2>1, <2>2, <2>3, <2>4, <2>5, <2>6, <2>7, <2>8, <2>9, <2>10 DEF Step
  <1> QED  BY <1>1, <1>2, <1>3, <1>4 DEF Next

\* The counters stay within the bounds.
LEMMA BoundsKept ==
    ASSUME Bounds, [Next]_vars
    PROVE  Bounds'
  <1>1. CASE UNCHANGED vars  BY <1>1 DEF vars, kernel, Bounds
  <1>2. ASSUME NEW t \in Threads, Begin(t) PROVE Bounds'
    BY <1>2, WifiAssumption DEF Begin, kernel, Bounds
  <1>3. CASE ScanEnds /\ UNCHANGED calls  BY <1>3 DEF ScanEnds, Bounds
  <1>4. CASE ForeignScan /\ UNCHANGED calls  BY <1>4, WifiAssumption DEF ForeignScan, Bounds
  <1>5. ASSUME NEW t \in Threads, Step(t), UNCHANGED calls PROVE Bounds'
    <2>1. UNCHANGED foreign
      BY <1>5 DEF Step, LeaveIBSS, Left, Choose, Pick, Connect, Connected, Clear, Resolve, Resolved, Group,
             Grouped, AddMembership, Trigger, Scanned, ClearSocket, DropMembership, Free, ModifyCallback, Dump,
             Dumped, UseFreed, NotSent, kernel
    <2> QED  BY <1>5, <2>1 DEF Bounds
  <1> QED  BY <1>1, <1>2, <1>3, <1>4, <1>5 DEF Next

WifiInv == TypeOK /\ ListsOK /\ Owned

\* The groups of variables make up the type invariant.
LEMMA TypesSplit ==
    WifiInv <=> Flags /\ Bounds /\ inbox \in Seq(Messages) /\ ListsOK /\ Owned
  <1>1. ListsOK => mLastReceivedScanInformation \in Seq(Infos) /\ lNetworks \in [Threads -> Seq(Infos)]
    BY DEF ListsOK, Lists
  <1> QED  BY <1>1 DEF WifiInv, TypeOK, Flags, Bounds, Owned, Steps

LEMMA WifiStart == Init => WifiInv
  <1> SUFFICES ASSUME Init PROVE WifiInv
    OBVIOUS
  <1>1. Owned  BY OwnedInit
  <1>2. ListsOK  BY EmptyListed DEF Init, ListsOK
  <1>3. Flags  BY DEF Init, Flags
  <1>4. Bounds  BY WifiAssumption DEF Init, Bounds
  <1>5. inbox \in Seq(Messages)  BY DEF Init
  <1> QED  BY <1>1, <1>2, <1>3, <1>4, <1>5, TypesSplit

LEMMA WifiStep == WifiInv /\ [Next]_vars => WifiInv'
  <1> SUFFICES ASSUME WifiInv, [Next]_vars PROVE WifiInv'
    OBVIOUS
  <1>1. Flags' /\ Bounds'  BY TypesSplit, FlagsTyped, BoundsKept
  <1>2. ListsOK' /\ inbox' \in Seq(Messages)  BY ListsTyped, InboxTyped DEF WifiInv
  <1>3. Owned'  BY OwnedNext DEF WifiInv
  <1>4. mLastReceivedScanInformation' \in Seq(Infos) /\ lNetworks' \in [Threads -> Seq(Infos)]
    BY <1>2 DEF ListsOK, Lists
  <1>5. TypeOK'
    BY <1>1, <1>2, <1>3, <1>4 DEF TypeOK, Flags, Bounds, Owned, Steps
  <1> QED  BY <1>2, <1>3, <1>5 DEF WifiInv

\* The types, what every list begins with, and who holds the mutex.
THEOREM WifiInvariant == Spec => []WifiInv
  BY WifiStart, WifiStep, PTL DEF Spec

\* The variables keep their types, for any number of threads and networks: messages
\* that one thread left for another included.
THEOREM WifiTyped == Spec => []TypeOK
  <1>1. WifiInv => TypeOK  BY DEF WifiInv
  <1> QED  BY <1>1, WifiInvariant, PTL

\* "Associated info will always be put at the beginning"
\* (WifiInterfaceLinuxBSD.cpp:326), whatever is listed how often and by whom.
THEOREM ConnectedAlwaysFirst == Spec => []ConnectedFirst
  <1>1. WifiInv => ConnectedFirst  BY DEF WifiInv, ListsOK, Lists, First, ConnectedFirst
  <1> QED  BY <1>1, WifiInvariant, PTL

-----------------------------------------------------------------------------
(* In step.  As long as one thread at a time uses the interface, what is   *)
(* in the socket is known from the step its call is at: nothing between    *)
(* the requests, the rest of one answer within them.  A scan that a call   *)
(* gave up is the exception, and then the socket is freed before the call  *)
(* returns (lSuccess tells those apart); a scan that ends later finds no   *)
(* member of the group.                                                    *)

Between  == {"out", "leave", "chosen", "clear", "resolve", "group", "add", "trigger", "modify", "dump",
             "listed", "join"}
Asking   == {"leaving", "family", "familyAck", "grouping", "joining", "dumping"}
Scanning == {"trigger", "scanning", "drop", "free"}
Final    == {"results", "dump", "aborted", "error", "EIO"}

\* The answer to the question at which the call of a thread is.
Awaits(t) ==
    /\ lSuccess[t] => pc[t] = "drop" /\ inbox = <<>>
    /\ pc[t] \in {"trigger", "scanning", "drop"} => mSocket /\ (member => lMulticastId[t])
    /\ pc[t] \in Asking \/ lSuccess[t] => ~scans
    /\ pc[t] \in {"leaving", "familyAck", "joining", "dumping"} => Len(inbox) = 1
    /\ pc[t] = "family" => Len(inbox) = 2
    /\ pc[t] = "grouping" => \/ Len(inbox) = 2 /\ inbox[1].is = "family" /\ inbox[2].is = "ack"
                             \/ Len(inbox) = 1 /\ inbox[1].is = "ack"
    /\ pc[t] = "scanning" =>
          \A i \in DOMAIN inbox : inbox[i].is \in Final => i = Len(inbox) /\ ~scans

QuietInv ==
    /\ ~mSocket => ~member
    /\ (\A t \in Threads : pc[t] \in Between) => inbox = <<>> /\ (mSocket => ~scans)
    /\ (\A t \in Threads : pc[t] \notin Scanning) => ~member
    /\ \A t \in Threads : Awaits(t)

\* All threads but one are out; what is awaited of them asks nothing.
Alone(t) == \A u \in Threads \ {t} : pc[u] = "out" /\ pc'[u] = "out" /\ lSuccess'[u] = FALSE

\* Undisturbed, the others stay where they are.
LEMMA OthersOut ==
    ASSUME WifiInv, QuietInv, Undisturbed, NEW t \in Threads, Step(t)
    PROVE  Alone(t)
  <1>1. pc[t] # "out"
    BY DEF Step, LeaveIBSS, Left, Choose, Pick, Connect, Connected, Clear, Resolve, Resolved, Group,
           Grouped, AddMembership, Trigger, Scanned, ClearSocket, DropMembership, Free, ModifyCallback, Dump,
           Dumped, UseFreed, NotSent, At
  <1>2. \A u \in Threads \ {t} : pc[u] = "out"  BY <1>1 DEF Undisturbed
  <1>3. pc \in [Threads -> Steps] /\ lSuccess \in [Threads -> BOOLEAN]
    BY DEF WifiInv, TypeOK, Owned
  <1>4. \A u \in Threads \ {t} : pc'[u] = pc[u]
    BY <1>3 DEF Step, LeaveIBSS, Left, Choose, Pick, Connect, Connected, Clear, Resolve, Resolved, Group,
           Grouped, AddMembership, Trigger, Scanned, ClearSocket, DropMembership, Free, ModifyCallback, Dump,
           Dumped, UseFreed, NotSent, Goto, Default, Returns
  <1>5. \A u \in Threads \ {t} : lSuccess'[u] = lSuccess[u]
    BY <1>3 DEF Step, LeaveIBSS, Left, Choose, Pick, Connect, Connected, Clear, Resolve, Resolved, Group,
           Grouped, AddMembership, Trigger, Scanned, ClearSocket, DropMembership, Free, ModifyCallback, Dump,
           Dumped, UseFreed, NotSent, locals
  <1>6. \A u \in Threads \ {t} : lSuccess[u] = FALSE
    BY <1>2, <1>3 DEF QuietInv, Awaits
  <1> QED  BY <1>2, <1>4, <1>5, <1>6 DEF Alone

\* QuietInv, when t is the thread that is not out.
QuietAt(t) ==
    /\ ~mSocket => ~member
    /\ pc[t] \in Between => inbox = <<>> /\ (mSocket => ~scans)
    /\ pc[t] \notin Scanning => ~member
    /\ Awaits(t)

\* So it is enough to look at the thread that is not out.
LEMMA QuietWhenAlone ==
    ASSUME NEW t \in Threads, Alone(t)
    PROVE  (QuietInv => QuietAt(t)) /\ (QuietAt(t)' => QuietInv')
  <1>1. "out" \in Between /\ "out" \notin Scanning /\ "out" \notin Asking
    BY DEF Between, Scanning, Asking
  <1>2. QuietInv => QuietAt(t)
    BY <1>1 DEF Alone, QuietInv, QuietAt
  <1>3. ASSUME NEW u \in Threads, u # t PROVE Awaits(u)'
    BY <1>1, <1>3 DEF Alone, Awaits
  <1>4. QuietAt(t)' => QuietInv'
    BY <1>1, <1>3 DEF Alone, QuietInv, QuietAt
  <1> QED  BY <1>2, <1>4

\* A request is made between two answers, of which nothing is left.
LEMMA Requested ==
    ASSUME inbox = <<>>, NEW kind, NEW other
    PROVE  /\ Answers(<<kind>>) => Len(inbox') = 1 /\ inbox'[1].is = kind
           /\ Answers(<<kind, other>>) => Len(inbox') = 2 /\ inbox'[1].is = kind /\ inbox'[2].is = other
  <1>1. Message(kind).is = kind /\ Message(other).is = other  BY DEF Message
  <1> DEFINE one == [i \in DOMAIN <<kind>> |-> Message(<<kind>>[i])]
             two == [i \in DOMAIN <<kind, other>> |-> Message(<<kind, other>>[i])]
  <1>2. one = <<Message(kind)>>  OBVIOUS
  <1>3. two = <<Message(kind), Message(other)>>  OBVIOUS
  <1> HIDE DEF one, two
  <1>4. Answers(<<kind>>) => inbox' = <<Message(kind)>>  BY <1>2 DEF Answers, one
  <1>5. Answers(<<kind, other>>) => inbox' = <<Message(kind), Message(other)>>  BY <1>3 DEF Answers, two
  <1> QED  BY <1>1, <1>4, <1>5

\* Its calls leave nothing in the socket, step by step.
LEMMA QuietStep ==
    ASSUME WifiInv, NEW t \in Threads, QuietAt(t), Step(t), Undisturbed'
    PROVE  QuietAt(t)'
  <1>1. /\ pc \in [Threads -> Steps] /\ inbox \in Seq(Messages)
        /\ lMulticastId \in [Threads -> BOOLEAN] /\ lSuccess \in [Threads -> BOOLEAN]
        /\ mSocket \in BOOLEAN /\ member \in BOOLEAN /\ scans \in BOOLEAN
    BY DEF WifiInv, TypeOK, Owned
  <1>2. pc'[t] # "drain" /\ (pc'[t] = "scanning" => member')
    BY DEF Undisturbed
  \* From one step between the requests to another.
  <1>3. ASSUME NEW step \in Between, pc[t] \in Between \ Scanning, step # "trigger",
               Goto(t, step), UNCHANGED <<inbox, mSocket, member, scans, lMulticastId, lSuccess>>
        PROVE  QuietAt(t)'
    BY <1>1, <1>3 DEF QuietAt, Awaits, Goto, Between, Scanning, Asking
  \* A crash: nothing is claimed of what the socket holds.
  <1>4. ASSUME pc[t] # "free", pc[t] \in Scanning => ~mSocket, Goto(t, "crashed"),
               UNCHANGED <<mSocket, member, lSuccess, scans>>
        PROVE  QuietAt(t)'
    BY <1>1, <1>4 DEF QuietAt, Awaits, Goto, Between, Scanning, Asking
  \* A request and its one answer.
  <1>5. ASSUME pc[t] \in Between \ Scanning, mSocket, NEW kind \in Kinds, NEW step \in {"leaving", "joining", "dumping"},
               Goto(t, step), Answers(<<kind>>), UNCHANGED <<mSocket, member, scans, lMulticastId, lSuccess>>
        PROVE  QuietAt(t)'
    BY <1>1, <1>5, Requested DEF QuietAt, Awaits, Goto, Between, Scanning, Asking
  \* The last message of an answer is read, or the callback crashes on it.
  <1>6. ASSUME pc[t] \in {"leaving", "familyAck", "joining", "dumping"}, NEW step \in Between \ Scanning,
               Default(t, step), UNCHANGED <<mSocket, member, scans, lMulticastId, lSuccess>>
        PROVE  QuietAt(t)'
    <2>1. inbox' = <<>>  BY <1>1, <1>6 DEF QuietAt, Awaits, Default, Read
    <2>2. CASE Goto(t, step)
      BY <1>1, <1>6, <2>1, <2>2 DEF QuietAt, Awaits, Goto, Between, Scanning, Asking
    <2>3. CASE Goto(t, "crashed")
      BY <1>4, <1>6, <2>3 DEF Scanning
    <2> QED  BY <1>6, <2>2, <2>3 DEF Default
  <1>7. CASE LeaveIBSS(t)
    <2>1. CASE NotSent(t, "leave", "chosen") /\ UNCHANGED locals
      BY <1>3, <2>1 DEF NotSent, At, Between, Scanning, locals, socket, kernel
    <2>2. CASE At(t, "leave") /\ Goto(t, "leaving") /\ UNCHANGED <<socket, scans, locals>>
               /\ Answers(<<IF joined = "none" THEN "error" ELSE "ack">>)
      BY <1>5, <2>2 DEF At, Between, Scanning, Kinds, locals, socket
    <2> QED  BY <1>7, <2>1, <2>2 DEF LeaveIBSS
  <1>8. CASE Left(t) \/ Connected(t) \/ Dumped(t)
    BY <1>6, <1>8 DEF Left, Connected, Dumped, At, Between, Scanning, locals, socket, kernel
  <1>9. CASE Choose(t) \/ Pick(t) \/ Clear(t)
    BY <1>3, <1>4, <1>9 DEF Choose, Pick, Clear, Between, Scanning, locals, socket, kernel
  <1>10. CASE Connect(t)
    <2>1. CASE NotSent(t, "join", "out") /\ UNCHANGED locals
      BY <1>3, <2>1 DEF NotSent, At, Between, Scanning, locals, socket, kernel
    <2>2. CASE /\ At(t, "join") /\ Goto(t, "joining") /\ UNCHANGED <<socket, scans, locals>>
               /\ Answers(<<"ack">>) \/ Answers(<<"error">>)
      BY <1>5, <2>2 DEF At, Between, Scanning, Kinds, locals, socket
    <2> QED  BY <1>10, <2>1, <2>2 DEF Connect
  <1>11. CASE Resolve(t)
    <2>1. pc[t] = "resolve" /\ mSocket  BY <1>11 DEF Resolve, At
    <2>2. inbox = <<>> /\ ~scans /\ ~member  BY <2>1 DEF QuietAt, Between, Scanning
    <2>3. Len(inbox') = 2  BY <1>11, <2>2, Requested DEF Resolve
    <2> QED
      BY <1>1, <1>11, <2>1, <2>2, <2>3
         DEF Resolve, QuietAt, Awaits, Goto, Between, Scanning, Asking, locals, socket, kernel
  <1>12. CASE Resolved(t)
    <2>1. CASE At(t, "family") /\ Read /\ Goto(t, "familyAck") /\ UNCHANGED <<socket, kernel, locals>>
      <3>1. Len(inbox') = 1  BY <1>1, <2>1 DEF At, Read, QuietAt, Awaits
      <3> QED
        BY <1>1, <2>1, <3>1 DEF At, QuietAt, Awaits, Goto, Between, Scanning, Asking, locals, socket, kernel
    <2>2. CASE At(t, "familyAck") /\ Default(t, "group") /\ UNCHANGED <<socket, kernel, locals>>
      BY <1>6, <2>2 DEF At, Between, Scanning, locals, socket, kernel
    <2> QED  BY <1>12, <2>1, <2>2 DEF Resolved
  <1>13. CASE Group(t)
    <2>1. CASE NotSent(t, "group", "add") /\ UNCHANGED locals
      BY <1>3, <2>1 DEF NotSent, At, Between, Scanning, locals, socket, kernel
    <2>2. CASE At(t, "group") /\ Goto(t, "grouping") /\ Answers(<<"family", "ack">>)
               /\ UNCHANGED <<socket, kernel, locals>>
      <3>1. inbox = <<>> /\ ~scans /\ ~member  BY <2>2 DEF At, QuietAt, Between, Scanning
      <3>2. Len(inbox') = 2 /\ inbox'[1].is = "family" /\ inbox'[2].is = "ack"
        BY <2>2, <3>1, Requested
      <3> QED
        BY <1>1, <2>2, <3>1, <3>2
           DEF At, QuietAt, Awaits, Goto, Between, Scanning, Asking, locals, socket, kernel
    <2> QED  BY <1>13, <2>1, <2>2 DEF Group
  <1>14. CASE Grouped(t)
    <2>1. /\ pc[t] = "grouping" /\ Read /\ UNCHANGED <<mSocket, member, scans, lSuccess>>
          /\ ~scans /\ ~member /\ lSuccess[t] = FALSE
      BY <1>1, <1>14 DEF Grouped, At, QuietAt, Awaits, Scanning, Asking, locals, socket, kernel
    <2>2. CASE Len(inbox) = 2 /\ inbox[1].is = "family" /\ inbox[2].is = "ack"
      <3>1. Head(inbox).is = "family" /\ Len(inbox') = 1 /\ inbox'[1].is = "ack"
        <4>1. /\ Head(inbox) = inbox[1] /\ Len(inbox') = Len(inbox) - 1
              /\ \A i \in 1 .. Len(inbox') : inbox'[i] = inbox[i + 1]
          BY <1>1, <2>1, ReadTakesHead
        <4>2. Len(inbox') = 1  BY <2>2, <4>1
        <4>3. \A i, j \in 1 .. Len(inbox) : j = i + 1 => inbox'[i] = inbox[j]
          BY <2>2, <4>1
        <4>4. inbox'[1] = inbox[2]  BY <2>2, <4>3
        <4> QED  BY <2>2, <4>1, <4>2, <4>4
      <3>2. UNCHANGED pc  BY <1>14, <3>1 DEF Grouped, Is
      <3> QED  BY <2>1, <3>1, <3>2 DEF QuietAt, Awaits, Between, Scanning, Asking
    <2>3. CASE Len(inbox) = 1 /\ inbox[1].is = "ack"
      <3>1. Head(inbox).is = "ack" /\ inbox' = <<>>  BY <1>1, <2>1, <2>3 DEF Read
      <3>2. Goto(t, "add")  BY <1>14, <3>1 DEF Grouped, Is
      <3> QED  BY <1>1, <2>1, <3>1, <3>2 DEF QuietAt, Awaits, Goto, Between, Scanning, Asking
    <2> QED  BY <2>1, <2>2, <2>3 DEF QuietAt, Awaits
  <1>15. CASE AddMembership(t)
    <2>1. pc[t] = "add" /\ mSocket /\ pc'[t] = "trigger" /\ UNCHANGED <<mSocket, inbox, scans, lMulticastId, lSuccess>>
      BY <1>1, <1>15 DEF AddMembership, At, Goto, locals, kernel
    <2>2. inbox = <<>> /\ ~scans /\ ~member /\ lSuccess[t] = FALSE
      BY <1>1, <2>1 DEF QuietAt, Awaits, Between, Scanning
    <2>3. member' => lMulticastId[t]  BY <1>15, <2>2 DEF AddMembership
    <2> QED  BY <2>1, <2>2, <2>3 DEF QuietAt, Awaits, Between, Scanning, Asking
  <1>16. CASE Trigger(t)
    <2>1. /\ pc[t] = "trigger" /\ mSocket /\ UNCHANGED <<mSocket, member, lMulticastId, lSuccess>>
          /\ inbox = <<>> /\ ~scans /\ lSuccess[t] = FALSE /\ (member => lMulticastId[t])
      BY <1>1, <1>16 DEF Trigger, NotSent, At, QuietAt, Awaits, Between, Scanning, locals, socket, kernel
    <2>2. CASE Goto(t, "drop") /\ UNCHANGED inbox
      BY <1>1, <2>1, <2>2 DEF QuietAt, Awaits, Goto, Between, Scanning, Asking
    <2>3. CASE Goto(t, "scanning")
      <3>1. pc'[t] = "scanning" /\ member  BY <1>1, <1>2, <2>1, <2>3 DEF Goto
      <3>2. CASE Answers(<<"EIO">>) /\ UNCHANGED scans
        <4>1. Len(inbox') = 1  BY <2>1, <3>2, Requested
        <4>2. inbox' \in Seq(Messages)  BY <1>1, <3>2, OneAnswer, AnswersTyped DEF Kinds
        <4>3. DOMAIN inbox' = {1}  BY <4>1, <4>2
        <4> QED  BY <2>1, <3>1, <3>2, <4>1, <4>3 DEF QuietAt, Awaits, Between, Scanning, Asking
      <3>3. CASE Answers(<<"start", "ack">>)
        <4>1. Len(inbox') = 2 /\ inbox'[1].is = "start" /\ inbox'[2].is = "ack"
          BY <2>1, <3>3, Requested
        <4>2. inbox' \in Seq(Messages)  BY <1>1, <3>3, OneAnswer, AnswersTyped DEF Kinds
        <4>3. DOMAIN inbox' = {1, 2}  BY <4>1, <4>2
        <4> QED  BY <2>1, <3>1, <4>1, <4>3 DEF QuietAt, Awaits, Between, Scanning, Asking, Final
      <3> QED  BY <1>1, <1>16, <2>1, <3>1, <3>2, <3>3 DEF Trigger, NotSent, Goto
    <2> QED  BY <1>16, <2>2, <2>3 DEF Trigger, NotSent
  <1>17. CASE Scanned(t)
    <2>1. /\ pc[t] = "scanning" /\ mSocket /\ Read /\ UNCHANGED <<mSocket, member, scans, lMulticastId>>
          /\ lSuccess[t] = FALSE /\ (member => lMulticastId[t])
          /\ \A i \in DOMAIN inbox : inbox[i].is \in Final => i = Len(inbox) /\ ~scans
      BY <1>1, <1>17 DEF Scanned, At, QuietAt, Awaits, locals, socket, kernel
    <2>2. CASE Goto(t, "drain")  BY <1>1, <1>2, <2>2 DEF Goto
    <2>3. ASSUME Goto(t, "drop"), NEW timedOut,
                 lSuccess' = [lSuccess EXCEPT ![t] = Is({"results", "dump"}) /\ ~timedOut]
          PROVE  QuietAt(t)'
      <3>1. pc'[t] = "drop"  BY <1>1, <2>3 DEF Goto
      <3>2. lSuccess'[t] => Is({"results", "dump"})
        BY <1>1, <2>3, Zenon
      <3>3. lSuccess'[t] => inbox' = <<>> /\ ~scans
        <4>1. 1 \in DOMAIN inbox /\ Head(inbox) = inbox[1] /\ Len(inbox') = Len(inbox) - 1 /\ inbox' \in Seq(Messages)
          BY <1>1, <2>1, ReadTakesHead
        <4>2. Is({"results", "dump"}) => Len(inbox) = 1 /\ ~scans
          BY <2>1, <4>1 DEF Is, Final
        <4>3. Len(inbox) = 1 => inbox' = <<>>  BY <4>1
        <4> QED  BY <3>2, <4>2, <4>3
      <3> QED  BY <2>1, <3>1, <3>3 DEF QuietAt, Awaits, Between, Scanning, Asking
    <2>4. CASE UNCHANGED <<pc, lSuccess>>
      <3>1. ASSUME NEW i \in DOMAIN inbox', inbox'[i].is \in Final PROVE i = Len(inbox') /\ ~scans
        <4>1. /\ i + 1 \in DOMAIN inbox /\ inbox'[i] = inbox[i + 1] /\ Len(inbox') = Len(inbox) - 1
              /\ i \in Nat
          BY <1>1, <2>1, <3>1, ReadTakesHead
        <4>2. i + 1 = Len(inbox) /\ ~scans  BY <2>1, <3>1, <4>1
        <4> QED  BY <1>1, <4>1, <4>2
      <3> QED  BY <2>1, <2>4, <3>1 DEF QuietAt, Awaits, Between, Scanning, Asking
    <2> QED  BY <1>17, <2>2, <2>3, <2>4 DEF Scanned
  <1>18. CASE ClearSocket(t)
    BY <1>1, <1>2, <1>18 DEF ClearSocket, At
  <1>19. CASE DropMembership(t)
    <2>1. /\ pc[t] = "drop" /\ mSocket /\ UNCHANGED <<mSocket, inbox, scans>>
          /\ pc'[t] = (IF lSuccess[t] THEN "modify" ELSE "free") /\ lSuccess'[t] = FALSE
          /\ member' = (member /\ ~lMulticastId[t])
      BY <1>1, <1>19 DEF DropMembership, At, Goto, kernel
    <2>2. ~member'  BY <2>1 DEF QuietAt, Awaits
    <2> QED  BY <1>1, <2>1, <2>2 DEF QuietAt, Awaits, Between, Scanning, Asking
  <1>20. CASE Free(t)
    <2>1. pc'[t] = "listed" /\ inbox' = <<>> /\ mSocket' = FALSE /\ member' = FALSE /\ UNCHANGED lSuccess
      BY <1>1, <1>20 DEF Free, Returns, Goto
    <2>2. lSuccess[t] = FALSE  BY <1>1, <1>20 DEF Free, QuietAt, Awaits
    <2> QED  BY <2>1, <2>2 DEF QuietAt, Awaits, Between, Scanning, Asking
  <1>21. CASE ModifyCallback(t)
    BY <1>3, <1>21 DEF ModifyCallback, At, Between, Scanning, locals, kernel
  <1>22. CASE Dump(t)
    <2>1. CASE At(t, "dump") /\ Returns(t, mLastReceivedScanInformation)
               /\ UNCHANGED <<socket, inbox, kernel, lMulticastId, lSuccess>>
      BY <1>3, <2>1 DEF At, Returns, Between, Scanning, socket, kernel
    <2>2. CASE At(t, "dump") /\ Goto(t, "dumping") /\ UNCHANGED <<socket, kernel, locals>>
               /\ inbox' = Append(inbox, [is |-> "dump", of |-> Listing(joined)])
      <3>1. inbox = <<>> /\ ~scans /\ ~member  BY <2>2 DEF At, QuietAt, Between, Scanning
      <3>2. Len(inbox') = 1  BY <2>2, <3>1
      <3> QED
        BY <1>1, <2>2, <3>1, <3>2
           DEF At, QuietAt, Awaits, Goto, Between, Scanning, Asking, locals, socket, kernel
    <2> QED  BY <1>22, <2>1, <2>2 DEF Dump
  <1>23. CASE UseFreed(t)
    BY <1>4, <1>23 DEF UseFreed, locals, socket, kernel
  <1> QED
    BY <1>7, <1>8, <1>9, <1>10, <1>11, <1>12, <1>13, <1>14, <1>15, <1>16, <1>17, <1>18, <1>19, <1>20,
       <1>21, <1>22, <1>23 DEF Step

\* A scan that ends tells the thread that waits for it, and no other.
LEMMA QuietEnd ==
    ASSUME WifiInv, QuietInv, Undisturbed, ScanEnds
    PROVE  QuietInv'
  <1>1. /\ pc \in [Threads -> Steps] /\ inbox \in Seq(Messages) /\ scans /\ scans' = FALSE
        /\ UNCHANGED <<pc, mSocket, member, lMulticastId, lSuccess>>
    BY DEF WifiInv, TypeOK, Owned, ScanEnds, socket, locals
  <1>2. CASE member
    <2>1. PICK t \in Threads : pc[t] \in Scanning  BY <1>2 DEF QuietInv
    <2>2. mSocket /\ pc[t] # "out"  BY <1>2, <2>1 DEF QuietInv, Scanning
    <2>3. \A u \in Threads \ {t} : pc[u] = "out"  BY <2>2 DEF Undisturbed
    <2>4. pc[t] \notin Between  BY <1>1, <2>2, <2>3 DEF QuietInv, Between
    <2>5. \A u \in Threads : ~lSuccess[u]  BY <1>1 DEF QuietInv, Awaits
    <2>6. ASSUME pc[t] = "scanning", NEW i \in DOMAIN inbox', inbox'[i].is \in Final
          PROVE  i = Len(inbox')
      <3>1. PICK end : inbox' = inbox \o [j \in DOMAIN <<end>> |-> Message(<<end>>[j])]
        BY <1>1, <1>2 DEF ScanEnds, Answers
      <3>2. [j \in DOMAIN <<end>> |-> Message(<<end>>[j])] = <<Message(end)>>  OBVIOUS
      <3>3. inbox' = inbox \o <<Message(end)>>  BY <3>1, <3>2
      <3>4. inbox' \in Seq(Messages \cup {Message(end)}) /\ Len(inbox') = Len(inbox) + 1
            /\ \A j \in DOMAIN inbox : inbox'[j] = inbox[j]
        <4> DEFINE message == Message(end)
        <4>1. inbox \in Seq(Messages \cup {message})  BY <1>1
        <4> HIDE DEF message
        <4> QED  BY <1>1, <3>3, <4>1 DEF message
      <3>5. \A j \in DOMAIN inbox : inbox[j].is \notin Final
        BY <1>1, <2>6 DEF QuietInv, Awaits
      <3>6. i \notin DOMAIN inbox  BY <2>6, <3>4, <3>5
      <3> QED  BY <1>1, <2>6, <3>4, <3>6
    <2>7. ASSUME NEW u \in Threads PROVE Awaits(u)'
      <3>1. CASE u = t
        BY <1>1, <2>1, <2>2, <2>4, <2>5, <2>6, <3>1 DEF QuietInv, Awaits, Scanning, Between, Asking
      <3>2. CASE u # t
        BY <1>1, <2>3, <2>5, <3>2 DEF Awaits, Asking
      <3> QED  BY <3>1, <3>2
    <2> QED  BY <1>1, <2>2, <2>4, <2>7 DEF QuietInv, Scanning
  <1>3. CASE ~member
    <2>1. UNCHANGED inbox  BY <1>3 DEF ScanEnds
    <2> QED  BY <1>1, <1>3, <2>1 DEF QuietInv, Awaits
  <1> QED  BY <1>2, <1>3

\* The same for every step.
LEMMA QuietNext ==
    ASSUME WifiInv, QuietInv, Undisturbed, Undisturbed', [Next]_vars
    PROVE  QuietInv'
  <1>1. CASE UNCHANGED vars
    BY <1>1 DEF vars, socket, kernel, locals, QuietInv, Awaits
  <1>2. ASSUME NEW t \in Threads, Step(t) PROVE QuietInv'
    <2>1. Alone(t)  BY <1>2, OthersOut
    <2>2. QuietAt(t)  BY <2>1, QuietWhenAlone
    <2>3. QuietAt(t)'  BY <1>2, <2>2, QuietStep
    <2> QED  BY <2>1, <2>3, QuietWhenAlone
  <1>3. ASSUME NEW t \in Threads, Begin(t) PROVE QuietInv'
    <2>1. /\ pc \in [Threads -> Steps] /\ pc[t] = "out" /\ pc' = [pc EXCEPT ![t] = "leave"]
          /\ UNCHANGED <<inbox, mSocket, member, scans, lMulticastId, lSuccess>>
      BY <1>3 DEF WifiInv, Owned, Begin, Goto, socket, kernel, locals
    <2>2. \A u \in Threads : pc'[u] \in Between => pc[u] \in Between
      BY <2>1 DEF Between
    <2>3. \A u \in Threads : pc'[u] \notin Scanning => pc[u] \notin Scanning
      BY <2>1 DEF Scanning
    <2>4. ASSUME NEW u \in Threads PROVE Awaits(u)'
      <3>1. CASE u = t  BY <2>1, <3>1 DEF QuietInv, Awaits, Asking
      <3>2. CASE u # t  BY <2>1, <3>2 DEF QuietInv, Awaits
      <3> QED  BY <3>1, <3>2
    <2> QED  BY <2>1, <2>2, <2>3, <2>4 DEF QuietInv
  <1>4. CASE ScanEnds  BY <1>4, QuietEnd
  <1>5. CASE ForeignScan
    <2>1. foreign = 0 /\ foreign' = foreign + 1 /\ foreign' = 0
      BY <1>5 DEF ForeignScan, Undisturbed
    <2> QED  BY <2>1
  <1> QED  BY <1>1, <1>2, <1>3, <1>4, <1>5 DEF Next

\* When one thread at a time uses the interface, and no other adapter scans, a call
\* that is over has left nothing in the socket for the next to take for its answer:
\* on every path through ScanTrigger and GetAdhocNetworks
\* (WifiInterfaceLinuxBSD.cpp:376-559).
THEOREM AnswersInStep == Spec => InStep
  <1> DEFINE Over == (\A t \in Threads : pc[t] \in {"out", "chosen", "listed"}) => inbox = <<>>
  <1>1. Init => QuietInv
    BY DEF Init, QuietInv, Awaits, Asking
  <1>2. WifiInv /\ QuietInv /\ Undisturbed /\ Undisturbed' /\ [Next]_vars => QuietInv'
    BY QuietNext
  <1>3. QuietInv => Over  BY DEF QuietInv, Between
  <1>4. Spec => []WifiInv  BY WifiInvariant
  <1> HIDE DEF Over
  <1>5. Spec => ([]Undisturbed => []Over)
    BY <1>1, <1>2, <1>3, <1>4, PTL DEF Spec
  <1> QED  BY <1>5 DEF InStep, Over

=============================================================================

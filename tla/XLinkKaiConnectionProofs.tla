---------------------- MODULE XLinkKaiConnectionProofs ----------------------
(***************************************************************************)
(* Theorems about XLinkKaiConnection for every set of stations and names,  *)
(* every bound and every combination of faults.                            *)
(***************************************************************************)
EXTENDS XLinkKaiConnection, TLAPS

-----------------------------------------------------------------------------
(* Messages.                                                               *)

\* A control message is not a frame, and kinds tell control messages apart.
LEMMA MessageFacts ==
    /\ \A k, l : Msg(k) = Msg(l) => k = l
    /\ \A k, S : Msg(k) \notin Frames(S)
    /\ \A s, S : Data(s) \in Frames(S) <=> s \in S
    /\ \A k, K : Msg(k) \in Kinds(K) <=> k \in K
    /\ \A s, K : Data(s) \notin Kinds(K)
<1>1. \A k, l : Msg(k) = Msg(l) => k = l
  BY DEF Msg
<1>2. \A k, S : Msg(k) \notin Frames(S)
  BY DEF Msg, Frames
<1>3. \A s, S : Data(s) \in Frames(S) <=> s \in S
  BY DEF Data, Frames
<1>4. \A k, K : Msg(k) \in Kinds(K) <=> k \in K
  BY DEF Msg, Kinds
<1>5. \A s, K : Data(s) \notin Kinds(K)
  BY DEF Data, Kinds
<1>6. QED
  BY <1>1, <1>2, <1>3, <1>4, <1>5

\* What the threads send are messages the engine can be sent.
LEMMA MessageTypes ==
    /\ \A k \in {"connect", "disconnect", "titleid", "essid", "setessid", "keepalive"} :
          Msg(k) \in ClientMessages
    /\ \A k \in Names : Msg(k) \in ClientMessages
    /\ \A s \in Stations \cup Handhelds : Data(s) \in ClientMessages
<1>1. \A k \in {"connect", "disconnect"} : Msg(k) \in ClientMessages
  BY MessageFacts DEF ClientMessages, Handshake
<1>2. \A k \in {"titleid", "essid", "setessid", "keepalive"} : Msg(k) \in ClientMessages
  BY MessageFacts DEF ClientMessages, SettingMessages
<1>3. \A s \in Stations \cup Handhelds : Data(s) \in ClientMessages
  BY MessageFacts DEF ClientMessages
<1>4. QED
  BY <1>1, <1>2, <1>3, InputAssumption

\* So are the settings, whatever is remembered.
LEMMA SettingsType ==
    ASSUME cached \subseteq Names
    PROVE  Settings \subseteq SettingMessages
<1>1. Msg("ddsonly") \in SettingMessages /\ Msg("setessid") \in SettingMessages
  BY MessageFacts DEF SettingMessages
<1>2. Kinds(cached) \subseteq SettingMessages
  BY InputAssumption DEF Kinds, SettingMessages
<1>3. QED
  BY <1>1, <1>2 DEF Settings

\* Every name that is remembered is among the settings.
LEMMA SettingsHoldNames == \A k \in cached : Msg(k) \in Settings
BY MessageFacts DEF Settings

\* What the engine answers with is what the threads can receive.
LEMMA AnswerTypes == \A k \in {"connected", "disconnected"} : Msg(k) \in EngineMessages
BY MessageFacts DEF EngineMessages

\* Sending adds messages of M and nothing else.
LEMMA TransmitAdds ==
    ASSUME NEW ms, Transmit(ms)
    PROVE  /\ toEngine' \subseteq toEngine \cup ms
           /\ told' = told \cup {k \in Names : Msg(k) \in ms}
BY DEF Transmit

LEMMA SendAdds ==
    ASSUME NEW m, Send(m)
    PROVE  /\ toEngine' \subseteq toEngine \cup {m}
           /\ IF socketOpen /\ MayTransmit(m)
              THEN told' = told \cup {k \in Names : Msg(k) = m}
              ELSE UNCHANGED sent
           /\ mConnected' = (mConnected /\ socketOpen)
BY TransmitAdds DEF Send, sent

LEMMA ReplyAdds ==
    ASSUME NEW m, Reply(m)
    PROVE  toClient' \subseteq toClient \cup {m}
BY DEF Reply

-----------------------------------------------------------------------------
(* Type correctness.  DSend transmits outgoing, which TypeOK alone allows   *)
(* to be NoMessage: where D is about to send, it holds a message.           *)

Carries == pcD \in {"gate", "send"} => outgoing \in ClientMessages
TypeInv == TypeOK /\ Carries

LEMMA TypeInvariant == Spec => []TypeInv
<1> USE DEF vars, own, udp, outside, flags, timers, socket, io, device, engine, network,
            sent, settings, threads
<1>1. Init => TypeInv
  BY DEF Init, TypeInv, TypeOK, FlagsOK, ValuesOK, Carries, TimerStates, RSteps, MSteps, DSteps
<1>2. TypeInv /\ [Next]_vars => FlagsOK'
  <2> SUFFICES ASSUME FlagsOK, [Next]_vars
               PROVE  FlagsOK'
    BY DEF TypeInv, TypeOK
  <2> USE DEF FlagsOK
  <2>1. CASE RStartThread
    BY <2>1 DEF RStartThread, RGoto
  <2>2. CASE RDial
    BY <2>2, SendAdds DEF RDial, RGoto, Dial
  <2>3. CASE RLeave
    BY <2>3 DEF RLeave, RGoto
  <2>4. CASE RPost
    BY <2>4 DEF RPost, RGoto
  <2>5. CASE RReset
    BY <2>5 DEF RReset, RGoto, Reset
  <2>6. CASE ROpen
    BY <2>6 DEF ROpen, RGoto
  <2>7. CASE RTimeout
    BY <2>7 DEF RTimeout, RGoto, RConnectTimeout, RKeepAliveTimeout
  <2>8. CASE RSettings
    BY <2>8 DEF RSettings, RGoto
  <2>9. CASE RIdle
    BY <2>9 DEF RIdle, RGoto
  <2>10. CASE ReceiveConnected
    BY <2>10 DEF ReceiveConnected, Take
  <2>11. CASE ReceiveKeepAlive
    BY <2>11, SendAdds DEF ReceiveKeepAlive, Take
  <2>12. CASE ReceiveSetESSID
    BY <2>12, SendAdds DEF ReceiveSetESSID, Take
  <2>13. CASE ReceiveDisconnected
    BY <2>13 DEF ReceiveDisconnected, Take
  <2>14. ASSUME NEW s \in Stations, ReceiveData(s)
         PROVE  FlagsOK'
    BY <2>14 DEF ReceiveData, Take
  <2>15. ASSUME NEW m \in EngineMessages, ReceiveIgnored(m)
         PROVE  FlagsOK'
    BY <2>15 DEF ReceiveIgnored, Take
  <2>16. CASE RInject
    BY <2>16 DEF RInject, RGoto
  <2>17. CASE RPolled
    BY <2>17 DEF RPolled, RGoto
  <2>18. CASE RCheck
    BY <2>18 DEF RCheck, RGoto
  <2>19. ASSUME NEW s \in Stations \cup Handhelds, DCapture(s)
         PROVE  FlagsOK'
    BY <2>19 DEF DCapture, DGoto
  <2>20. ASSUME NEW k \in Names, DInform(k)
         PROVE  FlagsOK'
    BY <2>20 DEF DInform, DGoto
  <2>21. CASE DGate
    BY <2>21 DEF DGate, DReturn
  <2>22. CASE DSend
    BY <2>22 DEF DSend, DReturn
  <2>23. CASE DUnconfirm
    BY <2>23 DEF DUnconfirm, DReturn
  <2>24. CASE DHost
    BY <2>24 DEF DHost, DGoto
  <2>25. CASE MOpen
    BY <2>25 DEF MOpen, MGoto
  <2>26. CASE MStart
    BY <2>26 DEF MStart, MGoto
  <2>27. CASE MSetHosting
    BY <2>27, InputAssumption DEF MSetHosting
  <2>28. CASE MDisconnect
    BY <2>28, SendAdds DEF MDisconnect
  <2>29. CASE MStop
    BY <2>29 DEF MStop, MGoto
  <2>30. CASE MStopThread
    BY <2>30 DEF MStopThread, MGoto
  <2>31. CASE MJoin
    BY <2>31 DEF MJoin, MGoto
  <2>32. CASE MFinish
    BY <2>32 DEF MFinish, MGoto, Reset
  <2>33. CASE Clock
    BY <2>33 DEF Clock, ConnectionTimerExpires, KeepAliveTimerExpires
  <2>34. CASE KaiAccept
    BY <2>34 DEF KaiAccept, EngineOnly
  <2>35. CASE KaiRelease
    BY <2>35 DEF KaiRelease, EngineOnly
  <2>36. CASE KaiConsume
    BY <2>36 DEF KaiConsume, EngineOnly
  <2>37. CASE KaiSend
    BY <2>37 DEF KaiSend, EngineOnly
  <2>38. CASE KaiEnd
    BY <2>38 DEF KaiEnd, EngineOnly
  <2>39. CASE KaiDie
    BY <2>39 DEF KaiDie, EngineOnly
  <2>40. CASE KaiStart
    BY <2>40 DEF KaiStart, EngineOnly
  <2>41. CASE UNCHANGED vars
    BY <2>41
  <2>42. QED
    BY <2>1, <2>2, <2>3, <2>4, <2>5, <2>6, <2>7, <2>8, <2>9, <2>10, <2>11, <2>12, <2>13,
       <2>14, <2>15, <2>16, <2>17, <2>18, <2>19, <2>20, <2>21, <2>22, <2>23, <2>24,
       <2>25, <2>26, <2>27, <2>28, <2>29, <2>30, <2>31, <2>32, <2>33, <2>34, <2>35,
       <2>36, <2>37, <2>38, <2>39, <2>40, <2>41
    DEF Next, R, RBranch, RReceive, D, DFinish, M, MClosing, Kai
<1>3. TypeInv /\ [Next]_vars => ValuesOK' /\ Carries'
  <2> SUFFICES ASSUME TypeInv, [Next]_vars
               PROVE  ValuesOK' /\ Carries'
    OBVIOUS
  <2> USE MessageTypes
      DEF TypeInv, TypeOK, ValuesOK, Carries, TimerStates, RSteps, MSteps, DSteps
  <2>1. CASE RStartThread
    BY <2>1 DEF RStartThread, RGoto
  <2>2. CASE RDial
    BY <2>2, SendAdds DEF RDial, RGoto, Dial
  <2>3. CASE RLeave
    BY <2>3 DEF RLeave, RGoto
  <2>4. CASE RPost
    BY <2>4 DEF RPost, RGoto
  <2>5. CASE RReset
    BY <2>5 DEF RReset, RGoto, Reset
  <2>6. CASE ROpen
    BY <2>6 DEF ROpen, RGoto
  <2>7. CASE RTimeout
    BY <2>7 DEF RTimeout, RGoto, RConnectTimeout, RKeepAliveTimeout
  <2>8. CASE RSettings
    <3>1. /\ toEngine' \subseteq toEngine \cup Settings
          /\ told' \subseteq told \cup Names
      BY <2>8, TransmitAdds DEF RSettings
    <3>2. Settings \subseteq ClientMessages
      BY SettingsType DEF ClientMessages
    <3>3. QED
      BY <2>8, <3>1, <3>2 DEF RSettings, RGoto
  <2>9. CASE RIdle
    BY <2>9 DEF RIdle, RGoto
  <2>10. CASE ReceiveConnected
    BY <2>10 DEF ReceiveConnected, Take
  <2>11. CASE ReceiveKeepAlive
    BY <2>11, SendAdds DEF ReceiveKeepAlive, Take
  <2>12. CASE ReceiveSetESSID
    BY <2>12, SendAdds DEF ReceiveSetESSID, Take
  <2>13. CASE ReceiveDisconnected
    BY <2>13 DEF ReceiveDisconnected, Take
  <2>14. ASSUME NEW s \in Stations, ReceiveData(s)
         PROVE  ValuesOK' /\ Carries'
    BY <2>14 DEF ReceiveData, Take
  <2>15. ASSUME NEW m \in EngineMessages, ReceiveIgnored(m)
         PROVE  ValuesOK' /\ Carries'
    BY <2>15 DEF ReceiveIgnored, Take
  <2>16. CASE RInject
    BY <2>16 DEF RInject, RGoto
  <2>17. CASE RPolled
    BY <2>17 DEF RPolled, RGoto
  <2>18. CASE RCheck
    BY <2>18 DEF RCheck, RGoto
  <2>19. ASSUME NEW s \in Stations \cup Handhelds, DCapture(s)
         PROVE  ValuesOK' /\ Carries'
    BY <2>19 DEF DCapture, DGoto
  <2>20. ASSUME NEW k \in Names, DInform(k)
         PROVE  ValuesOK' /\ Carries'
    BY <2>20 DEF DInform, DGoto
  <2>21. CASE DGate
    BY <2>21 DEF DGate, DReturn
  <2>22. CASE DSend
    BY <2>22, TransmitAdds DEF DSend, DReturn
  <2>23. CASE DUnconfirm
    BY <2>23 DEF DUnconfirm, DReturn
  <2>24. CASE DHost
    BY <2>24 DEF DHost, DGoto
  <2>25. CASE MOpen
    BY <2>25 DEF MOpen, MGoto
  <2>26. CASE MStart
    BY <2>26 DEF MStart, MGoto
  <2>27. CASE MSetHosting
    BY <2>27, InputAssumption DEF MSetHosting
  <2>28. CASE MDisconnect
    BY <2>28, SendAdds DEF MDisconnect
  <2>29. CASE MStop
    BY <2>29 DEF MStop, MGoto
  <2>30. CASE MStopThread
    BY <2>30 DEF MStopThread, MGoto
  <2>31. CASE MJoin
    BY <2>31 DEF MJoin, MGoto
  <2>32. CASE MFinish
    BY <2>32 DEF MFinish, MGoto, Reset
  <2>33. CASE Clock
    BY <2>33 DEF Clock, ConnectionTimerExpires, KeepAliveTimerExpires
  <2>34. CASE KaiAccept
    BY <2>34, ReplyAdds, AnswerTypes DEF KaiAccept, EngineOnly
  <2>35. CASE KaiRelease
    BY <2>35, ReplyAdds, AnswerTypes DEF KaiRelease, EngineOnly
  <2>36. CASE KaiConsume
    BY <2>36 DEF KaiConsume, EngineOnly
  <2>37. CASE KaiSend
    BY <2>37, ReplyAdds DEF KaiSend, EngineOnly, EngineMessages
  <2>38. CASE KaiEnd
    BY <2>38, ReplyAdds, AnswerTypes DEF KaiEnd, EngineOnly
  <2>39. CASE KaiDie
    BY <2>39 DEF KaiDie, EngineOnly
  <2>40. CASE KaiStart
    BY <2>40 DEF KaiStart, EngineOnly
  <2>41. CASE UNCHANGED vars
    BY <2>41
  <2>42. QED
    BY <2>1, <2>2, <2>3, <2>4, <2>5, <2>6, <2>7, <2>8, <2>9, <2>10, <2>11, <2>12, <2>13,
       <2>14, <2>15, <2>16, <2>17, <2>18, <2>19, <2>20, <2>21, <2>22, <2>23, <2>24,
       <2>25, <2>26, <2>27, <2>28, <2>29, <2>30, <2>31, <2>32, <2>33, <2>34, <2>35,
       <2>36, <2>37, <2>38, <2>39, <2>40, <2>41
    DEF Next, R, RBranch, RReceive, D, DFinish, M, MClosing, Kai
<1>4. QED
  BY <1>1, <1>2, <1>3, PTL DEF Spec, TypeInv, TypeOK

\* The variables keep their types in every reachable state: what the three
\* threads, the engine and the network leave in the members of the connection.
THEOREM TypeCorrect == Spec => []TypeOK
BY TypeInvariant, PTL DEF TypeInv

-----------------------------------------------------------------------------
(* The threads.  LinkIsGuarded and ThreadStopsOnRequest are not inductive:  *)
(* a dial finds no confirmation because of where R and M are, a             *)
(* confirmation finds the socket open because only an open socket has a     *)
(* receive pending, and R leaves its loop with the io_context stopped       *)
(* because of who stopped it.                                               *)

\* M has started a receiver thread and not joined it yet.
Joined == pcM \in {"running", "stop", "stopThread", "join"} <=> pcR # "none"

\* The socket is new, or there is none.
Fresh == pcM \in {"off", "opened"} \/ pcR \in {"begin", "hello", "open", "redial"}
Quiet == Fresh => ~mConnected /\ ~mConnectInitiated /\ ~mSettingsSent

Listens == work = "pending" => socketOpen

\* Who stops the io_context, and from where R sees it stopped.
Stops ==
    /\ mStopCommand => pcM \in {"stopThread", "join", "finish"}
    /\ pcR \in {"hello", "loop"} /\ stopped => pcM \in {"stopThread", "join"}

ThreadInv == Joined /\ Quiet /\ Listens /\ Stops /\ LinkIsGuarded /\ ThreadStopsOnRequest

LEMMA ThreadInvariant == Spec => []ThreadInv
<1> USE DEF vars, own, udp, outside, flags, timers, socket, io, device, engine, network,
            sent, settings, threads
<1>1. Init => ThreadInv
  BY DEF Init, ThreadInv, Joined, Fresh, Quiet, Listens, Stops, LinkIsGuarded,
         ThreadStopsOnRequest
<1>2. TypeInv /\ ThreadInv /\ [Next]_vars => ThreadInv'
  <2> SUFFICES ASSUME FlagsOK, ThreadInv, [Next]_vars
               PROVE  ThreadInv'
    BY DEF TypeInv, TypeOK
  <2> USE DEF ThreadInv, Joined, Fresh, Quiet, Listens, Stops, LinkIsGuarded,
              ThreadStopsOnRequest, FlagsOK
  <2>1. CASE RStartThread
    BY <2>1 DEF RStartThread, RGoto
  <2>2. CASE RDial
    BY <2>2, SendAdds DEF RDial, RGoto, Dial
  <2>3. CASE RLeave
    BY <2>3 DEF RLeave, RGoto
  <2>4. CASE RPost
    BY <2>4 DEF RPost, RGoto
  <2>5. CASE RReset
    BY <2>5 DEF RReset, RGoto, Reset
  <2>6. CASE ROpen
    BY <2>6 DEF ROpen, RGoto
  <2>7. CASE RTimeout
    BY <2>7 DEF RTimeout, RGoto, RConnectTimeout, RKeepAliveTimeout
  <2>8. CASE RSettings
    BY <2>8 DEF RSettings, RGoto
  <2>9. CASE RIdle
    BY <2>9 DEF RIdle, RGoto
  <2>10. CASE ReceiveConnected
    BY <2>10 DEF ReceiveConnected, Take
  <2>11. CASE ReceiveKeepAlive
    BY <2>11, SendAdds DEF ReceiveKeepAlive, Take
  <2>12. CASE ReceiveSetESSID
    BY <2>12, SendAdds DEF ReceiveSetESSID, Take
  <2>13. CASE ReceiveDisconnected
    BY <2>13 DEF ReceiveDisconnected, Take
  <2>14. ASSUME NEW s \in Stations, ReceiveData(s)
         PROVE  ThreadInv'
    BY <2>14 DEF ReceiveData, Take
  <2>15. ASSUME NEW m \in EngineMessages, ReceiveIgnored(m)
         PROVE  ThreadInv'
    BY <2>15 DEF ReceiveIgnored, Take
  <2>16. CASE RInject
    BY <2>16 DEF RInject, RGoto
  <2>17. CASE RPolled
    BY <2>17 DEF RPolled, RGoto
  <2>18. CASE RCheck
    BY <2>18 DEF RCheck, RGoto
  <2>19. ASSUME NEW s \in Stations \cup Handhelds, DCapture(s)
         PROVE  ThreadInv'
    BY <2>19 DEF DCapture, DGoto
  <2>20. ASSUME NEW k \in Names, DInform(k)
         PROVE  ThreadInv'
    BY <2>20 DEF DInform, DGoto
  <2>21. CASE DGate
    BY <2>21 DEF DGate, DReturn
  <2>22. CASE DSend
    BY <2>22 DEF DSend, DReturn
  <2>23. CASE DUnconfirm
    BY <2>23 DEF DUnconfirm, DReturn
  <2>24. CASE DHost
    BY <2>24 DEF DHost, DGoto
  <2>25. CASE MOpen
    BY <2>25 DEF MOpen, MGoto
  <2>26. CASE MStart
    BY <2>26 DEF MStart, MGoto
  <2>27. CASE MSetHosting
    BY <2>27 DEF MSetHosting
  <2>28. CASE MDisconnect
    BY <2>28, SendAdds DEF MDisconnect
  <2>29. CASE MStop
    BY <2>29 DEF MStop, MGoto
  <2>30. CASE MStopThread
    BY <2>30 DEF MStopThread, MGoto
  <2>31. CASE MJoin
    BY <2>31 DEF MJoin, MGoto
  <2>32. CASE MFinish
    BY <2>32 DEF MFinish, MGoto, Reset
  <2>33. CASE Clock
    BY <2>33 DEF Clock, ConnectionTimerExpires, KeepAliveTimerExpires
  <2>34. CASE KaiAccept
    BY <2>34 DEF KaiAccept, EngineOnly
  <2>35. CASE KaiRelease
    BY <2>35 DEF KaiRelease, EngineOnly
  <2>36. CASE KaiConsume
    BY <2>36 DEF KaiConsume, EngineOnly
  <2>37. CASE KaiSend
    BY <2>37 DEF KaiSend, EngineOnly
  <2>38. CASE KaiEnd
    BY <2>38 DEF KaiEnd, EngineOnly
  <2>39. CASE KaiDie
    BY <2>39 DEF KaiDie, EngineOnly
  <2>40. CASE KaiStart
    BY <2>40 DEF KaiStart, EngineOnly
  <2>41. CASE UNCHANGED vars
    BY <2>41
  <2>42. QED
    BY <2>1, <2>2, <2>3, <2>4, <2>5, <2>6, <2>7, <2>8, <2>9, <2>10, <2>11, <2>12, <2>13,
       <2>14, <2>15, <2>16, <2>17, <2>18, <2>19, <2>20, <2>21, <2>22, <2>23, <2>24,
       <2>25, <2>26, <2>27, <2>28, <2>29, <2>30, <2>31, <2>32, <2>33, <2>34, <2>35,
       <2>36, <2>37, <2>38, <2>39, <2>40, <2>41
    DEF Next, R, RBranch, RReceive, D, DFinish, M, MClosing, Kai
<1>3. QED
  BY <1>1, <1>2, TypeInvariant, PTL DEF Spec

\* The link is never in a state that no branch of the receiver loop leaves.
THEOREM LinkGuarded == Spec => []LinkIsGuarded
BY ThreadInvariant, PTL DEF ThreadInv

\* R leaves its loop only while Close(true) waits for it, however its polls ran
\* out of work and restarted the io_context before.
THEOREM ThreadStops == Spec => []ThreadStopsOnRequest
BY ThreadInvariant, PTL DEF ThreadInv

-----------------------------------------------------------------------------
(* No echo.  NoEcho says nothing of a frame that D is still holding; what D  *)
(* holds is a handheld's because the device blacklisted every other source   *)
(* before it put a frame of it on the air.                                   *)

\* What the device put on the air it had blacklisted before.
Listed == onAir \cup frame \subseteq blackListed
EchoInv == Listed /\ outgoing \notin Frames(Stations) /\ NoEcho

LEMMA ControlIsNoFrame ==
    /\ NoMessage \notin Frames(Stations)
    /\ SettingMessages \cap Frames(Stations) = {}
BY DEF NoMessage, Frames, SettingMessages, Kinds

LEMMA EchoInvariant == Spec => []EchoInv
<1> USE DEF vars, own, udp, outside, flags, timers, socket, io, device, engine, network,
            sent, settings, threads
<1>1. Init => EchoInv
  BY ControlIsNoFrame DEF Init, EchoInv, Listed, NoEcho
<1>2. TypeInv /\ EchoInv /\ [Next]_vars => EchoInv'
  <2> SUFFICES ASSUME ValuesOK, EchoInv, [Next]_vars
               PROVE  EchoInv'
    BY DEF TypeInv, TypeOK
  <2> USE MessageFacts, ControlIsNoFrame DEF EchoInv, Listed, NoEcho
  <2>1. CASE RStartThread
    BY <2>1 DEF RStartThread, RGoto
  <2>2. CASE RDial
    BY <2>2, SendAdds DEF RDial, RGoto, Dial
  <2>3. CASE RLeave
    BY <2>3 DEF RLeave, RGoto
  <2>4. CASE RPost
    BY <2>4 DEF RPost, RGoto
  <2>5. CASE RReset
    BY <2>5 DEF RReset, RGoto, Reset
  <2>6. CASE ROpen
    BY <2>6 DEF ROpen, RGoto
  <2>7. CASE RTimeout
    BY <2>7 DEF RTimeout, RGoto, RConnectTimeout, RKeepAliveTimeout
  <2>8. CASE RSettings
    <3>1. toEngine' \subseteq toEngine \cup Settings
      BY <2>8, TransmitAdds DEF RSettings
    <3>2. Settings \subseteq SettingMessages
      BY SettingsType DEF ValuesOK
    <3>3. QED
      BY <2>8, <3>1, <3>2 DEF RSettings, RGoto
  <2>9. CASE RIdle
    BY <2>9 DEF RIdle, RGoto
  <2>10. CASE ReceiveConnected
    BY <2>10 DEF ReceiveConnected, Take
  <2>11. CASE ReceiveKeepAlive
    BY <2>11, SendAdds DEF ReceiveKeepAlive, Take
  <2>12. CASE ReceiveSetESSID
    <3>1. toEngine' \subseteq toEngine \cup {Msg("essid")}
      BY <2>12, SendAdds DEF ReceiveSetESSID
    <3>2. UNCHANGED <<frame, blackListed, onAir, outgoing>>
      BY <2>12 DEF ReceiveSetESSID, Take
    <3>3. QED
      BY <3>1, <3>2
  <2>13. CASE ReceiveDisconnected
    BY <2>13 DEF ReceiveDisconnected, Take
  <2>14. ASSUME NEW s \in Stations, ReceiveData(s)
         PROVE  EchoInv'
    BY <2>14 DEF ReceiveData, Take
  <2>15. ASSUME NEW m \in EngineMessages, ReceiveIgnored(m)
         PROVE  EchoInv'
    BY <2>15 DEF ReceiveIgnored, Take
  <2>16. CASE RInject
    BY <2>16 DEF RInject, RGoto
  <2>17. CASE RPolled
    BY <2>17 DEF RPolled, RGoto
  <2>18. CASE RCheck
    BY <2>18 DEF RCheck, RGoto
  <2>19. ASSUME NEW s \in Stations \cup Handhelds, DCapture(s)
         PROVE  EchoInv'
    BY <2>19, SourceAssumption DEF DCapture, DGoto
  <2>20. ASSUME NEW k \in Names, DInform(k)
         PROVE  EchoInv'
    BY <2>20 DEF DInform, DGoto
  <2>21. CASE DGate
    BY <2>21 DEF DGate, DReturn
  <2>22. CASE DSend
    BY <2>22, TransmitAdds DEF DSend, DReturn
  <2>23. CASE DUnconfirm
    BY <2>23 DEF DUnconfirm, DReturn
  <2>24. CASE DHost
    BY <2>24 DEF DHost, DGoto
  <2>25. CASE MOpen
    BY <2>25 DEF MOpen, MGoto
  <2>26. CASE MStart
    BY <2>26 DEF MStart, MGoto
  <2>27. CASE MSetHosting
    BY <2>27 DEF MSetHosting
  <2>28. CASE MDisconnect
    BY <2>28, SendAdds DEF MDisconnect
  <2>29. CASE MStop
    BY <2>29 DEF MStop, MGoto
  <2>30. CASE MStopThread
    BY <2>30 DEF MStopThread, MGoto
  <2>31. CASE MJoin
    BY <2>31 DEF MJoin, MGoto
  <2>32. CASE MFinish
    BY <2>32 DEF MFinish, MGoto, Reset
  <2>33. CASE Clock
    BY <2>33 DEF Clock, ConnectionTimerExpires, KeepAliveTimerExpires
  <2>34. CASE KaiAccept
    BY <2>34 DEF KaiAccept, EngineOnly
  <2>35. CASE KaiRelease
    BY <2>35 DEF KaiRelease, EngineOnly
  <2>36. CASE KaiConsume
    BY <2>36 DEF KaiConsume, EngineOnly
  <2>37. CASE KaiSend
    BY <2>37 DEF KaiSend, EngineOnly
  <2>38. CASE KaiEnd
    BY <2>38 DEF KaiEnd, EngineOnly
  <2>39. CASE KaiDie
    BY <2>39 DEF KaiDie, EngineOnly
  <2>40. CASE KaiStart
    BY <2>40 DEF KaiStart, EngineOnly
  <2>41. CASE UNCHANGED vars
    BY <2>41
  <2>42. QED
    BY <2>1, <2>2, <2>3, <2>4, <2>5, <2>6, <2>7, <2>8, <2>9, <2>10, <2>11, <2>12, <2>13,
       <2>14, <2>15, <2>16, <2>17, <2>18, <2>19, <2>20, <2>21, <2>22, <2>23, <2>24,
       <2>25, <2>26, <2>27, <2>28, <2>29, <2>30, <2>31, <2>32, <2>33, <2>34, <2>35,
       <2>36, <2>37, <2>38, <2>39, <2>40, <2>41
    DEF Next, R, RBranch, RReceive, D, DFinish, M, MClosing, Kai
<1>3. QED
  BY <1>1, <1>2, TypeInvariant, PTL DEF Spec

\* What the engine sent is never captured on the air and sent back to it,
\* whatever the order of blacklisting, injecting and capturing.
THEOREM NothingEchoed == Spec => []NoEcho
BY EchoInvariant, PTL DEF EchoInv

-----------------------------------------------------------------------------
(* The connection implements KaiLink, if no datagram is delivered twice.    *)
(* A confirmation is abstractly allowed only while no settings count as     *)
(* sent; it finds none because a request and its answer are one token that  *)
(* is under way only while the link is not up and nothing has been sent.    *)

\* A dial is under way at most once, as a request or as its answer, and neither
\* is left when the link is up or its settings count as sent.
Requested == Msg("connect") \in toEngine
Confirmed == Msg("connected") \in toClient
SessionInv ==
    /\ ~(Requested /\ Confirmed)
    /\ Fresh \/ mConnected \/ mSettingsSent => ~Requested /\ ~Confirmed
    /\ outgoing # Msg("connect")

\* The two words of a dial are no other message.
LEMMA DialWords ==
    /\ Msg("connect") # Msg("connected")
    /\ \A k \in {"disconnect", "titleid", "essid", "setessid", "keepalive"} :
          Msg(k) # Msg("connect")
    /\ \A k \in Names : Msg(k) # Msg("connect")
    /\ \A s : Data(s) # Msg("connect")
    /\ NoMessage # Msg("connect")
    /\ Msg("disconnected") # Msg("connected")
    /\ Msg("connect") \notin SettingMessages
    /\ Msg("connected") \notin SessionMessages
<1>1. \A s : Data(s) # Msg("connect")
  BY DEF Data, Msg
<1>2. NoMessage # Msg("connect")
  BY DEF NoMessage, Msg
<1>3. Msg("connect") \notin SettingMessages
  BY MessageFacts DEF SettingMessages
<1>4. Msg("connected") \notin SessionMessages
  BY MessageFacts DEF SessionMessages
<1>5. QED
  BY <1>1, <1>2, <1>3, <1>4, MessageFacts, InputAssumption

LEMMA SessionInvariant ==
    ASSUME ~Duplicates
    PROVE  Spec => []SessionInv
<1> USE DEF vars, own, udp, outside, flags, timers, socket, io, device, engine, network,
            sent, settings, threads
<1>1. Init => SessionInv
  BY DialWords DEF Init, SessionInv, Fresh, Requested, Confirmed
<1>2. TypeInv /\ ThreadInv /\ SessionInv /\ [Next]_vars => SessionInv'
  <2> SUFFICES ASSUME ValuesOK, ThreadInv, SessionInv, [Next]_vars
               PROVE  SessionInv'
    BY DEF TypeInv, TypeOK
  <2> USE DialWords DEF SessionInv, Requested, Confirmed, Fresh, ThreadInv, Joined, Quiet
  <2>1. CASE RStartThread
    BY <2>1 DEF RStartThread, RGoto
  <2>2. CASE RDial
    BY <2>2, SendAdds DEF RDial, RGoto, Dial
  <2>3. CASE RLeave
    BY <2>3 DEF RLeave, RGoto
  <2>4. CASE RPost
    BY <2>4 DEF RPost, RGoto
  <2>5. CASE RReset
    BY <2>5 DEF RReset, RGoto, Reset
  <2>6. CASE ROpen
    BY <2>6 DEF ROpen, RGoto
  <2>7. CASE RTimeout
    BY <2>7 DEF RTimeout, RGoto, RConnectTimeout, RKeepAliveTimeout
  <2>8. CASE RSettings
    <3>1. toEngine' \subseteq toEngine \cup Settings
      BY <2>8, TransmitAdds DEF RSettings
    <3>2. Settings \subseteq SettingMessages
      BY SettingsType DEF ValuesOK
    <3>3. QED
      BY <2>8, <3>1, <3>2 DEF RSettings, RGoto
  <2>9. CASE RIdle
    BY <2>9 DEF RIdle, RGoto
  <2>10. CASE ReceiveConnected
    BY <2>10 DEF ReceiveConnected, Take
  <2>11. CASE ReceiveKeepAlive
    BY <2>11, SendAdds DEF ReceiveKeepAlive, Take
  <2>12. CASE ReceiveSetESSID
    BY <2>12, SendAdds DEF ReceiveSetESSID, Take
  <2>13. CASE ReceiveDisconnected
    BY <2>13 DEF ReceiveDisconnected, Take
  <2>14. ASSUME NEW s \in Stations, ReceiveData(s)
         PROVE  SessionInv'
    BY <2>14 DEF ReceiveData, Take
  <2>15. ASSUME NEW m \in EngineMessages, ReceiveIgnored(m)
         PROVE  SessionInv'
    BY <2>15 DEF ReceiveIgnored, Take
  <2>16. CASE RInject
    BY <2>16 DEF RInject, RGoto
  <2>17. CASE RPolled
    BY <2>17 DEF RPolled, RGoto
  <2>18. CASE RCheck
    BY <2>18 DEF RCheck, RGoto
  <2>19. ASSUME NEW s \in Stations \cup Handhelds, DCapture(s)
         PROVE  SessionInv'
    BY <2>19 DEF DCapture, DGoto
  <2>20. ASSUME NEW k \in Names, DInform(k)
         PROVE  SessionInv'
    BY <2>20 DEF DInform, DGoto
  <2>21. CASE DGate
    BY <2>21 DEF DGate, DReturn
  <2>22. CASE DSend
    BY <2>22, TransmitAdds DEF DSend, DReturn
  <2>23. CASE DUnconfirm
    BY <2>23 DEF DUnconfirm, DReturn
  <2>24. CASE DHost
    BY <2>24 DEF DHost, DGoto
  <2>25. CASE MOpen
    BY <2>25 DEF MOpen, MGoto
  <2>26. CASE MStart
    BY <2>26 DEF MStart, MGoto
  <2>27. CASE MSetHosting
    BY <2>27 DEF MSetHosting
  <2>28. CASE MDisconnect
    BY <2>28, SendAdds DEF MDisconnect
  <2>29. CASE MStop
    BY <2>29 DEF MStop, MGoto
  <2>30. CASE MStopThread
    BY <2>30 DEF MStopThread, MGoto
  <2>31. CASE MJoin
    BY <2>31 DEF MJoin, MGoto
  <2>32. CASE MFinish
    BY <2>32 DEF MFinish, MGoto, Reset
  <2>33. CASE Clock
    BY <2>33 DEF Clock, ConnectionTimerExpires, KeepAliveTimerExpires
  <2>34. CASE KaiAccept
    BY <2>34, ReplyAdds DEF KaiAccept, EngineOnly
  <2>35. CASE KaiRelease
    BY <2>35, ReplyAdds DEF KaiRelease, EngineOnly
  <2>36. CASE KaiConsume
    BY <2>36 DEF KaiConsume, EngineOnly
  <2>37. CASE KaiSend
    BY <2>37, ReplyAdds DEF KaiSend, EngineOnly
  <2>38. CASE KaiEnd
    BY <2>38, ReplyAdds DEF KaiEnd, EngineOnly
  <2>39. CASE KaiDie
    BY <2>39 DEF KaiDie, EngineOnly
  <2>40. CASE KaiStart
    BY <2>40 DEF KaiStart, EngineOnly
  <2>41. CASE UNCHANGED vars
    BY <2>41
  <2>42. QED
    BY <2>1, <2>2, <2>3, <2>4, <2>5, <2>6, <2>7, <2>8, <2>9, <2>10, <2>11, <2>12, <2>13,
       <2>14, <2>15, <2>16, <2>17, <2>18, <2>19, <2>20, <2>21, <2>22, <2>23, <2>24,
       <2>25, <2>26, <2>27, <2>28, <2>29, <2>30, <2>31, <2>32, <2>33, <2>34, <2>35,
       <2>36, <2>37, <2>38, <2>39, <2>40, <2>41
    DEF Next, R, RBranch, RReceive, D, DFinish, M, MClosing, Kai
<1>3. QED
  BY <1>1, <1>2, TypeInvariant, ThreadInvariant, PTL DEF Spec

\* Every step of the threads, the clock and the engine is a step of KaiLink or
\* leaves the link alone: dials start from a link that is down, each confirmation
\* finds the settings still to be sent, and none are sent twice.
THEOREM LinkImplemented ==
    ASSUME ~Duplicates
    PROVE  Spec => ImplementsLink
<1> USE DEF vars, own, udp, outside, flags, timers, socket, io, device, engine, network,
            sent, settings, threads
<1>1. Init => Link!Init
  BY DEF Init, Link!Init
<1>2. TypeInv /\ ThreadInv /\ SessionInv /\ [Next]_vars
        => [Link!Next]_(Link!linkVars)
  <2> SUFFICES ASSUME FlagsOK, ThreadInv, SessionInv, [Next]_vars
               PROVE  [Link!Next]_(Link!linkVars)
    BY DEF TypeInv, TypeOK
  <2> USE DEF FlagsOK, ThreadInv, Quiet, Fresh, LinkIsGuarded, SessionInv, Confirmed,
              Link!linkVars, Link!Next, Link!Dial, Link!Confirm, Link!Settle, Link!Drop,
              Link!Forget
  <2>1. CASE RStartThread
    BY <2>1 DEF RStartThread, RGoto
  <2>2. CASE RDial
    BY <2>2, SendAdds DEF RDial, RGoto, Dial
  <2>3. CASE RLeave
    BY <2>3 DEF RLeave, RGoto
  <2>4. CASE RPost
    BY <2>4 DEF RPost, RGoto
  <2>5. CASE RReset
    BY <2>5 DEF RReset, RGoto, Reset
  <2>6. CASE ROpen
    BY <2>6 DEF ROpen, RGoto
  <2>7. CASE RTimeout
    BY <2>7 DEF RTimeout, RGoto, RConnectTimeout, RKeepAliveTimeout
  <2>8. CASE RSettings
    BY <2>8 DEF RSettings, RGoto
  <2>9. CASE RIdle
    BY <2>9 DEF RIdle, RGoto
  <2>10. CASE ReceiveConnected
    BY <2>10 DEF ReceiveConnected, Take
  <2>11. CASE ReceiveKeepAlive
    BY <2>11, SendAdds DEF ReceiveKeepAlive, Take
  <2>12. CASE ReceiveSetESSID
    BY <2>12, SendAdds DEF ReceiveSetESSID, Take
  <2>13. CASE ReceiveDisconnected
    BY <2>13 DEF ReceiveDisconnected, Take
  <2>14. ASSUME NEW s \in Stations, ReceiveData(s)
         PROVE  [Link!Next]_(Link!linkVars)
    BY <2>14 DEF ReceiveData, Take
  <2>15. ASSUME NEW m \in EngineMessages, ReceiveIgnored(m)
         PROVE  [Link!Next]_(Link!linkVars)
    BY <2>15 DEF ReceiveIgnored, Take
  <2>16. CASE RInject
    BY <2>16 DEF RInject, RGoto
  <2>17. CASE RPolled
    BY <2>17 DEF RPolled, RGoto
  <2>18. CASE RCheck
    BY <2>18 DEF RCheck, RGoto
  <2>19. ASSUME NEW s \in Stations \cup Handhelds, DCapture(s)
         PROVE  [Link!Next]_(Link!linkVars)
    BY <2>19 DEF DCapture, DGoto
  <2>20. ASSUME NEW k \in Names, DInform(k)
         PROVE  [Link!Next]_(Link!linkVars)
    BY <2>20 DEF DInform, DGoto
  <2>21. CASE DGate
    BY <2>21 DEF DGate, DReturn
  <2>22. CASE DSend
    BY <2>22 DEF DSend, DReturn
  <2>23. CASE DUnconfirm
    BY <2>23 DEF DUnconfirm, DReturn
  <2>24. CASE DHost
    BY <2>24 DEF DHost, DGoto
  <2>25. CASE MOpen
    BY <2>25 DEF MOpen, MGoto
  <2>26. CASE MStart
    BY <2>26 DEF MStart, MGoto
  <2>27. CASE MSetHosting
    BY <2>27 DEF MSetHosting
  <2>28. CASE MDisconnect
    BY <2>28, SendAdds DEF MDisconnect
  <2>29. CASE MStop
    BY <2>29 DEF MStop, MGoto
  <2>30. CASE MStopThread
    BY <2>30 DEF MStopThread, MGoto
  <2>31. CASE MJoin
    BY <2>31 DEF MJoin, MGoto
  <2>32. CASE MFinish
    BY <2>32 DEF MFinish, MGoto, Reset
  <2>33. CASE Clock
    <3>1. UNCHANGED <<mConnected, mConnectInitiated, mSettingsSent>>
      BY <2>33 DEF Clock, ConnectionTimerExpires, KeepAliveTimerExpires
    <3>2. QED
      BY <3>1
  <2>34. CASE KaiAccept
    BY <2>34 DEF KaiAccept, EngineOnly
  <2>35. CASE KaiRelease
    BY <2>35 DEF KaiRelease, EngineOnly
  <2>36. CASE KaiConsume
    BY <2>36 DEF KaiConsume, EngineOnly
  <2>37. CASE KaiSend
    BY <2>37 DEF KaiSend, EngineOnly
  <2>38. CASE KaiEnd
    BY <2>38 DEF KaiEnd, EngineOnly
  <2>39. CASE KaiDie
    BY <2>39 DEF KaiDie, EngineOnly
  <2>40. CASE KaiStart
    BY <2>40 DEF KaiStart, EngineOnly
  <2>41. CASE UNCHANGED vars
    BY <2>41
  <2>42. QED
    BY <2>1, <2>2, <2>3, <2>4, <2>5, <2>6, <2>7, <2>8, <2>9, <2>10, <2>11, <2>12, <2>13,
       <2>14, <2>15, <2>16, <2>17, <2>18, <2>19, <2>20, <2>21, <2>22, <2>23, <2>24,
       <2>25, <2>26, <2>27, <2>28, <2>29, <2>30, <2>31, <2>32, <2>33, <2>34, <2>35,
       <2>36, <2>37, <2>38, <2>39, <2>40, <2>41
    DEF Next, R, RBranch, RReceive, D, DFinish, M, MClosing, Kai
<1>3. QED
  BY <1>1, <1>2, TypeInvariant, ThreadInvariant, SessionInvariant, PTL
  DEF Spec, ImplementsLink, Link!Spec

-----------------------------------------------------------------------------
(* No name is lost, if no datagram is delivered twice.  While D is between  *)
(* learning a name and sending it the name is D's to tell; if the gate       *)
(* refuses it, the link is down and the settings are still to come.          *)

Holds(k) == pcD \in {"gate", "send"} /\ outgoing = Msg(k)
NameInv == mConnected /\ mSettingsSent => \A k \in cached : k \in told \/ Holds(k)

LEMMA NameInvariant ==
    ASSUME ~Duplicates
    PROVE  Spec => []NameInv
<1> USE DEF vars, own, udp, outside, flags, timers, socket, io, device, engine, network,
            sent, settings, threads
<1>1. Init => NameInv
  BY DEF Init, NameInv
<1>2. TypeInv /\ ThreadInv /\ SessionInv /\ NameInv /\ [Next]_vars => NameInv'
  <2> SUFFICES ASSUME TypeOK, ThreadInv, SessionInv, NameInv, [Next]_vars
               PROVE  NameInv'
    BY DEF TypeInv
  <2> USE DEF TypeOK, FlagsOK, ThreadInv, LinkIsGuarded, NameInv, Holds
  <2>1. CASE RStartThread
    BY <2>1 DEF RStartThread, RGoto
  <2>2. CASE RDial
    BY <2>2, SendAdds DEF RDial, RGoto, Dial
  <2>3. CASE RLeave
    BY <2>3 DEF RLeave, RGoto
  <2>4. CASE RPost
    BY <2>4 DEF RPost, RGoto
  <2>5. CASE RReset
    BY <2>5 DEF RReset, RGoto, Reset
  <2>6. CASE ROpen
    BY <2>6 DEF ROpen, RGoto
  <2>7. CASE RTimeout
    BY <2>7 DEF RTimeout, RGoto, RConnectTimeout, RKeepAliveTimeout
  <2>8. CASE RSettings
    <3> SUFFICES ASSUME mConnected', NEW k \in cached'
                 PROVE  k \in told'
      BY <2>8
    <3>1. k \in Names /\ Msg(k) \in Settings
      BY <2>8, SettingsHoldNames DEF RSettings, ValuesOK
    <3>2. socketOpen /\ Transmit(Settings)
      BY <2>8 DEF RSettings
    <3>3. QED
      BY <3>1, <3>2, TransmitAdds
  <2>9. CASE RIdle
    BY <2>9 DEF RIdle, RGoto
  <2>10. CASE ReceiveConnected
    <3>1. ~mSettingsSent /\ UNCHANGED mSettingsSent
      BY <2>10 DEF ReceiveConnected, Take, SessionInv, Confirmed
    <3>2. QED
      BY <3>1
  <2>11. CASE ReceiveKeepAlive
    BY <2>11, SendAdds DEF ReceiveKeepAlive, Take
  <2>12. CASE ReceiveSetESSID
    <3>1. mConnected /\ socketOpen /\ UNCHANGED <<pcD, outgoing, mSettingsSent>>
      BY <2>12 DEF ReceiveSetESSID, Take
    <3>2. CASE UNCHANGED <<cached, mConnected, sent>>
      BY <3>1, <3>2
    <3>3. CASE /\ "essid" \in Names /\ cached' = cached \cup {"essid"}
               /\ Send(Msg("essid"))
      <4>1. told' = told \cup {k \in Names : Msg(k) = Msg("essid")}
        BY <3>1, <3>3, SendAdds DEF MayTransmit
      <4>2. told \subseteq told' /\ "essid" \in told'
        BY <3>3, <4>1
      <4>3. QED
        BY <3>1, <3>3, <4>2
    <3>4. QED
      BY <2>12, <3>2, <3>3 DEF ReceiveSetESSID
  <2>13. CASE ReceiveDisconnected
    BY <2>13 DEF ReceiveDisconnected, Take
  <2>14. ASSUME NEW s \in Stations, ReceiveData(s)
         PROVE  NameInv'
    BY <2>14 DEF ReceiveData, Take
  <2>15. ASSUME NEW m \in EngineMessages, ReceiveIgnored(m)
         PROVE  NameInv'
    BY <2>15 DEF ReceiveIgnored, Take
  <2>16. CASE RInject
    BY <2>16 DEF RInject, RGoto
  <2>17. CASE RPolled
    BY <2>17 DEF RPolled, RGoto
  <2>18. CASE RCheck
    BY <2>18 DEF RCheck, RGoto
  <2>19. ASSUME NEW s \in Stations \cup Handhelds, DCapture(s)
         PROVE  NameInv'
    BY <2>19 DEF DCapture, DGoto
  <2>20. ASSUME NEW k \in Names, DInform(k)
         PROVE  NameInv'
    BY <2>20 DEF DInform, DGoto
  <2>21. CASE DGate
    <3>1. CASE ~mConnected
      BY <2>21, <3>1 DEF DGate
    <3>2. CASE mConnected
      <4>1. pcD = "gate" /\ pcD' = "send" /\ UNCHANGED outgoing
        BY <2>21, <3>2 DEF DGate, MayTransmit
      <4>2. UNCHANGED <<mConnected, mSettingsSent, cached, told>>
        BY <2>21 DEF DGate
      <4>3. QED
        BY <4>1, <4>2
    <3>3. QED
      BY <3>1, <3>2
  <2>22. CASE DSend
    <3>1. UNCHANGED <<mConnected, mSettingsSent, cached>>
      BY <2>22 DEF DSend
    <3>2. CASE ~socketOpen
      BY <3>1, <3>2
    <3>3. CASE socketOpen
      <4>1. told' = told \cup {k \in Names : Msg(k) = outgoing}
        BY <2>22, <3>3, TransmitAdds DEF DSend
      <4>2. cached \subseteq Names
        BY DEF ValuesOK
      <4>3. \A k \in cached : k \in told \/ Holds(k) => k \in told'
        BY <4>1, <4>2
      <4>4. QED
        BY <3>1, <4>3
    <3>4. QED
      BY <3>2, <3>3
  <2>23. CASE DUnconfirm
    BY <2>23 DEF DUnconfirm, DReturn
  <2>24. CASE DHost
    BY <2>24 DEF DHost, DGoto
  <2>25. CASE MOpen
    BY <2>25 DEF MOpen, MGoto
  <2>26. CASE MStart
    BY <2>26 DEF MStart, MGoto
  <2>27. CASE MSetHosting
    BY <2>27 DEF MSetHosting
  <2>28. CASE MDisconnect
    BY <2>28, SendAdds DEF MDisconnect
  <2>29. CASE MStop
    BY <2>29 DEF MStop, MGoto
  <2>30. CASE MStopThread
    BY <2>30 DEF MStopThread, MGoto
  <2>31. CASE MJoin
    BY <2>31 DEF MJoin, MGoto
  <2>32. CASE MFinish
    BY <2>32 DEF MFinish, MGoto, Reset
  <2>33. CASE Clock
    BY <2>33 DEF Clock, ConnectionTimerExpires, KeepAliveTimerExpires
  <2>34. CASE KaiAccept
    BY <2>34 DEF KaiAccept, EngineOnly
  <2>35. CASE KaiRelease
    BY <2>35 DEF KaiRelease, EngineOnly
  <2>36. CASE KaiConsume
    BY <2>36 DEF KaiConsume, EngineOnly
  <2>37. CASE KaiSend
    BY <2>37 DEF KaiSend, EngineOnly
  <2>38. CASE KaiEnd
    BY <2>38 DEF KaiEnd, EngineOnly
  <2>39. CASE KaiDie
    BY <2>39 DEF KaiDie, EngineOnly
  <2>40. CASE KaiStart
    BY <2>40 DEF KaiStart, EngineOnly
  <2>41. CASE UNCHANGED vars
    BY <2>41
  <2>42. QED
    BY <2>1, <2>2, <2>3, <2>4, <2>5, <2>6, <2>7, <2>8, <2>9, <2>10, <2>11, <2>12, <2>13,
       <2>14, <2>15, <2>16, <2>17, <2>18, <2>19, <2>20, <2>21, <2>22, <2>23, <2>24,
       <2>25, <2>26, <2>27, <2>28, <2>29, <2>30, <2>31, <2>32, <2>33, <2>34, <2>35,
       <2>36, <2>37, <2>38, <2>39, <2>40, <2>41
    DEF Next, R, RBranch, RReceive, D, DFinish, M, MClosing, Kai
<1>3. QED
  BY <1>1, <1>2, TypeInvariant, ThreadInvariant, SessionInvariant, PTL DEF Spec

\* Once the settings count as sent, every name the device has learned has been
\* sent to the engine since the confirmation.
THEOREM NamesTold ==
    ASSUME ~Duplicates
    PROVE  Spec => []NamesAreTold
<1>1. NameInv => NamesAreTold
  BY DEF NameInv, Holds, NamesAreTold
<1>2. QED
  BY <1>1, NameInvariant, PTL

=============================================================================

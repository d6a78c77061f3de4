------------------------- MODULE XLinkKaiConnection -------------------------
(***************************************************************************)
(* The connection to the XLink Kai engine (Sources/XLinkKaiConnection.cpp) *)
(* on its UDP socket (Sources/UDPSocketWrapper.cpp) and its two timers     *)
(* (Sources/Timer.cpp).  Three threads share its members without a lock:   *)
(*                                                                         *)
(*   R   the receiver thread of StartReceiverThread, which dials, polls    *)
(*       the socket and runs every ReceiveCallback;                        *)
(*   M   the main loop of main.cpp, which opens, starts and closes;        *)
(*   D   the receiver thread of the handheld's device, which hands         *)
(*       captured frames and network names to Send and SendESSID.          *)
(*                                                                         *)
(* Each thread has a program counter; a step of the model ends where       *)
(* another thread can see, or change, what the next line of the code       *)
(* reads.  The engine and the network are the environment: a datagram may  *)
(* be lost, delayed and overtaken, and with Duplicates delivered again.    *)
(* A datagram belongs to the socket that is open: a reopened socket has a  *)
(* new local port, so what was under way to the old one never arrives, and *)
(* session says whether the engine serves the socket that is open now.     *)
(***************************************************************************)
EXTENDS Naturals, FiniteSets

CONSTANTS
    Stations,            \* source MACs of the frames the engine passes on
    Handhelds,           \* source MACs of the handhelds in reach of the device
    ConfiguredEndpoint,  \* what main.cpp passes to Open (mXLinkIp, mXLinkPort)
    DefaultEndpoint,     \* cIp and cPort, the initial values of mIp and mPort
    KaiEndpoint,         \* where the engine listens
    MaxInFlight,         \* bound: datagrams under way in one direction
    Faults,              \* whether opening a socket and sending may fail
    Duplicates,          \* whether a datagram may be handed over twice
    Prompt,              \* whether a round trip always beats the connection timer
    UseHostSSID,         \* mUseHostSSID, set once before the engine starts
    Names,               \* what the device learns: "titleid", "essid"
    Hosting              \* the values mHosting is set to

ASSUME SourceAssumption == Stations \cap Handhelds = {}
ASSUME BoundAssumption == MaxInFlight \in Nat \ {0}
ASSUME FlagAssumption  == /\ Faults \in BOOLEAN /\ Duplicates \in BOOLEAN
                          /\ Prompt \in BOOLEAN /\ UseHostSSID \in BOOLEAN
ASSUME InputAssumption == Names \subseteq {"titleid", "essid"} /\ Hosting \subseteq BOOLEAN

VARIABLES
    mConnected, mConnectInitiated, mSettingsSent, mStopCommand, mHosting,
    cached,           \* which of mLastTitleId and mLastESSID are not empty
    connectionTimer,  \* mConnectionTimer
    keepAliveTimer,   \* mKeepAliveTimer
    socketOpen,       \* mSocket.is_open()
    endpoint,         \* mEndpoint, where SendTo sends
    stopped,          \* mThread.stopped(): the io_context runs no handler
    work,             \* the receives posted on the io_context
    pcR, pcM, pcD,    \* where R, M and D are
    frame,            \* {source MAC} of the frame R is handing to the device
    outgoing,         \* the message D is sending
    blackListed,      \* MACs the device does not capture
    onAir,            \* MACs whose frames the device has put on the air
    toEngine, toClient,   \* datagrams under way
    told,             \* history: the names sent since the last confirmation
    kaiUp, session        \* the engine runs; it serves the open socket

flags    == <<mConnected, mConnectInitiated, mSettingsSent>>
timers   == <<connectionTimer, keepAliveTimer>>
socket   == <<socketOpen, endpoint>>
io       == <<stopped, work>>
device   == <<frame, blackListed, onAir>>
engine   == <<kaiUp, session>>
sent     == <<toEngine, told>>
network  == <<sent, toClient>>
settings == <<mHosting, cached>>
threads  == <<pcR, pcM, pcD>>
own      == <<flags, mStopCommand, settings, timers>>
udp      == <<socket, io>>
outside  == <<outgoing, device, network, engine>>

vars == <<own, udp, threads, outside>>

Kinds(K)  == [kind : K]
Frames(S) == [kind : {"data"}, source : S]

Handshake       == Kinds({"connect", "disconnect"})
SettingMessages == Kinds({"ddsonly", "titleid", "essid", "setessid"})
ClientMessages  == Handshake \cup SettingMessages \cup Kinds({"keepalive"})
                     \cup Frames(Stations \cup Handhelds)
SessionMessages == Kinds({"keepalive", "setessid"}) \cup Frames(Stations)
EngineMessages  == SessionMessages \cup Kinds({"connected", "disconnected"})

NoMessage == [kind |-> "none"]
Msg(k)    == [kind |-> k]
Data(s)   == [kind |-> "data", source |-> s]

TimerStates == {"off", "running", "due"}
RSteps == {"none", "begin", "hello", "loop", "branch", "open", "redial", "poll",
           "inject", "check", "restart", "done"}
MSteps == {"off", "opened", "running", "stop", "stopThread", "join", "finish"}
DSteps == {"idle", "gate", "send", "unconfirm", "host"}

FlagsOK ==
    /\ mConnected \in BOOLEAN /\ mConnectInitiated \in BOOLEAN /\ mSettingsSent \in BOOLEAN
    /\ mStopCommand \in BOOLEAN /\ mHosting \in BOOLEAN
    /\ socketOpen \in BOOLEAN /\ stopped \in BOOLEAN
    /\ kaiUp \in BOOLEAN /\ session \in BOOLEAN

ValuesOK ==
    /\ cached \subseteq Names
    /\ connectionTimer \in TimerStates /\ keepAliveTimer \in TimerStates
    /\ endpoint \in {ConfiguredEndpoint, DefaultEndpoint}
    /\ work \in {"none", "pending", "cancelled"}
    /\ pcR \in RSteps /\ pcM \in MSteps /\ pcD \in DSteps
    /\ frame \subseteq Stations
    /\ outgoing \in ClientMessages \cup {NoMessage}
    /\ blackListed \subseteq Stations /\ onAir \subseteq Stations /\ told \subseteq Names
    /\ toEngine \subseteq ClientMessages /\ toClient \subseteq EngineMessages

TypeOK == FlagsOK /\ ValuesOK

Init ==
    /\ mConnected = FALSE /\ mConnectInitiated = FALSE /\ mSettingsSent = FALSE
    /\ mStopCommand = FALSE /\ mHosting = FALSE /\ cached = {}
    /\ connectionTimer = "off" /\ keepAliveTimer = "off"
    /\ socketOpen = FALSE /\ endpoint = ConfiguredEndpoint
    /\ stopped = FALSE /\ work = "none"
    /\ pcR = "none" /\ pcM = "off" /\ pcD = "idle"
    /\ frame = {} /\ outgoing = NoMessage
    /\ blackListed = {} /\ onAir = {}
    /\ toEngine = {} /\ toClient = {} /\ told = {}
    /\ kaiUp \in BOOLEAN /\ session = FALSE

-----------------------------------------------------------------------------
(* What the threads share: sending, dialling and closing.                  *)

\* SendTo: some of the messages ms reach the engine's queue, the rest is lost.
Transmit(ms) ==
    \E S \in SUBSET ms :
        /\ S # {} => endpoint = KaiEndpoint
        /\ Cardinality(toEngine \cup S) <= MaxInFlight
        /\ toEngine' = toEngine \cup S
        /\ told' = told \cup {k \in Names : Msg(k) \in ms}

\* The gate of Send, once the socket is known to be open.
MayTransmit(m) == mConnected \/ m \in Handshake

\* Send, called by R or M.  A closed socket withdraws the confirmation.
Send(m) ==
    /\ mConnected' = (mConnected /\ socketOpen)
    /\ IF socketOpen /\ MayTransmit(m) THEN Transmit({m}) ELSE UNCHANGED sent

\* Mutant of Dial: the connection timer is not started again.
DialWithoutTimer ==
    /\ Send(Msg("connect"))
    /\ mConnectInitiated' = (mConnectInitiated \/ socketOpen)
    /\ UNCHANGED connectionTimer

\* Connect, and the start of the timer that follows it in the receiver thread.
Dial ==
    /\ Send(Msg("connect"))
    /\ mConnectInitiated' \in
         (IF ~socketOpen THEN {mConnectInitiated}
          ELSE IF Faults /\ toEngine' = toEngine THEN {mConnectInitiated, TRUE}
          ELSE {TRUE})
    /\ connectionTimer' = "running"

\* Mutant of Reset: the settings of the last session still count as sent.
ResetKeepsSettings ==
    /\ mConnected' = FALSE /\ mConnectInitiated' = FALSE /\ UNCHANGED mSettingsSent
    /\ mStopCommand' = FALSE /\ socketOpen' = FALSE
    /\ work' = IF work = "pending" THEN "cancelled" ELSE work
    /\ toEngine' = {} /\ toClient' = {} /\ told' = {} /\ session' = FALSE

\* Close, after the receiver thread has been dealt with: the members are reset
\* and the posted receives of the socket complete empty.
Reset ==
    /\ mConnected' = FALSE /\ mConnectInitiated' = FALSE /\ mSettingsSent' = FALSE
    /\ mStopCommand' = FALSE
    /\ socketOpen' = FALSE
    /\ work' = IF work = "pending" THEN "cancelled" ELSE work
    /\ toEngine' = {} /\ toClient' = {} /\ told' = {} /\ session' = FALSE

-----------------------------------------------------------------------------
(* R, the receiver thread.                                                 *)

RGoto(from, to) == pcR = from /\ pcR' = to /\ UNCHANGED <<pcM, pcD>>

\* mSocketWrapper->StartThread(), before the first dial; and at the end of the
\* loop, so that it goes on after a poll that ran out of work.
RStartThread ==
    /\ RGoto("begin", "hello") \/ RGoto("restart", "loop")
    /\ stopped' = FALSE
    /\ UNCHANGED <<own, socket, work, outside>>

\* Connect() and the timer: the first dial, and the dial on a reopened socket.
RDial ==
    /\ RGoto("hello", "loop") \/ RGoto("redial", "poll")
    /\ Dial
    /\ UNCHANGED <<mSettingsSent, mStopCommand, settings, keepAliveTimer, udp, outgoing,
                   device, toClient, engine>>

\* The loop condition.
RLeave ==
    /\ RGoto("loop", "done")
    /\ stopped
    /\ UNCHANGED <<own, udp, outside>>

\* AsyncReceiveFrom: on a closed socket the receive completes at once, empty.
RPost ==
    /\ RGoto("loop", "branch")
    /\ ~stopped
    /\ work' = IF socketOpen THEN "pending" ELSE "cancelled"
    /\ UNCHANGED <<own, socket, stopped, outside>>

\* Mutant of RReset: waits for mSettingsSent, which only the reset clears.
RResetOnceUnsettled ==
    /\ RGoto("branch", "open")
    /\ ~mConnected /\ ~mConnectInitiated /\ ~mSettingsSent
    /\ Reset
    /\ UNCHANGED <<settings, timers, endpoint, stopped, outgoing, device, kaiUp>>

\* Neither connected nor dialling: Close(false).
RReset ==
    /\ RGoto("branch", "open")
    /\ ~mConnected /\ ~mConnectInitiated
    /\ Reset
    /\ UNCHANGED <<settings, timers, endpoint, stopped, outgoing, device, kaiUp>>

\* Open(mIp, mPort).
ROpen ==
    /\ RGoto("open", "redial")
    /\ \/ socketOpen' = TRUE
       \/ Faults /\ UNCHANGED socketOpen
    /\ endpoint' = DefaultEndpoint
    /\ UNCHANGED <<own, io, outside>>

\* No confirmation came in time.
RConnectTimeout ==
    /\ ~mConnected /\ mConnectInitiated /\ connectionTimer = "due"
    /\ connectionTimer' = "off" /\ UNCHANGED keepAliveTimer

\* Mutant of RKeepAliveTimeout: the timer is only looked at during a dial.
RKeepAliveTimeoutWhenDialling ==
    /\ mConnected /\ mConnectInitiated /\ keepAliveTimer = "due"
    /\ keepAliveTimer' = "off" /\ UNCHANGED connectionTimer

\* The engine has been silent for too long.
RKeepAliveTimeout ==
    /\ mConnected /\ ~mConnectInitiated /\ keepAliveTimer = "due"
    /\ keepAliveTimer' = "off" /\ UNCHANGED connectionTimer

\* Mutant of RTimeout: the dial that timed out still counts as under way.
RTimeoutKeepsDialling ==
    /\ RGoto("branch", "poll")
    /\ RConnectTimeout \/ RKeepAliveTimeout
    /\ mConnected' = FALSE /\ mSettingsSent' = FALSE /\ UNCHANGED mConnectInitiated
    /\ UNCHANGED <<mStopCommand, settings, udp, outside>>

\* Either way the link counts as down.  IsTimedOut fires once.
RTimeout ==
    /\ RGoto("branch", "poll")
    /\ RConnectTimeout \/ RKeepAliveTimeout
    /\ mConnected' = FALSE /\ mConnectInitiated' = FALSE /\ mSettingsSent' = FALSE
    /\ UNCHANGED <<mStopCommand, settings, udp, outside>>

\* Mutant of Settings: the engine's own word instead of ddsonly.
SettingsEchoed == {Msg("connected")} \cup Kinds(cached)

\* Mutant of Settings: only a host tells the engine the network's name.
SettingsOfHost ==
    {Msg("ddsonly")} \cup Kinds(cached \ (IF mHosting THEN {} ELSE {"essid"}))
      \cup {m \in {Msg("setessid")} : mHosting /\ "essid" \in cached}

\* The settings that go out once the engine has confirmed.
Settings ==
    {Msg("ddsonly")} \cup Kinds(cached)
      \cup {m \in {Msg("setessid")} : mHosting /\ "essid" \in cached}

RSettings ==
    /\ RGoto("branch", "poll")
    /\ mConnected /\ ~mConnectInitiated /\ keepAliveTimer # "due" /\ ~mSettingsSent
    /\ IF socketOpen THEN Transmit(Settings) ELSE UNCHANGED sent
    /\ mConnected' = socketOpen
    /\ mSettingsSent' = TRUE
    /\ UNCHANGED <<mConnectInitiated, mStopCommand, settings, timers, udp, outgoing,
                   device, toClient, engine>>

\* Nothing to do: the short sleep.
RIdle ==
    /\ RGoto("branch", "poll")
    /\ mConnected \/ mConnectInitiated
    /\ mConnectInitiated /\ ~mConnected => connectionTimer # "due"
    /\ mConnected /\ ~mConnectInitiated => keepAliveTimer # "due" /\ mSettingsSent
    /\ UNCHANGED <<own, udp, outside>>

-----------------------------------------------------------------------------
(* R inside PollThread: the handlers, one datagram at a time.              *)

\* A posted receive completes with m; it may have been the last one posted.
\* Every non-empty datagram restarts the keep-alive timer.
Take(m) ==
    /\ pcR = "poll" /\ ~stopped /\ work = "pending"
    /\ m \in toClient
    /\ toClient' \in {toClient \ {m}} \cup {t \in {toClient} : Duplicates}
    /\ work' \in {"pending", "none"}
    /\ keepAliveTimer' = "running"
    /\ UNCHANGED <<pcM, pcD, mSettingsSent, mStopCommand, mHosting, connectionTimer,
                   socket, stopped, outgoing, engine>>

\* connected;XLHA_Device
ReceiveConnected ==
    /\ Take(Msg("connected"))
    /\ ~mConnected
    /\ mConnectInitiated' = FALSE
    /\ mConnected' = TRUE
    /\ told' = {}
    /\ UNCHANGED <<pcR, cached, device, toEngine>>

\* keepalive; is answered.
ReceiveKeepAlive ==
    /\ Take(Msg("keepalive"))
    /\ mConnected
    /\ Send(Msg("keepalive"))
    /\ UNCHANGED <<pcR, mConnectInitiated, cached, device>>

\* Mutant of ReceiveData: the frame goes out without a word to the blacklist.
ReceiveDataUnlisted(s) ==
    /\ Take(Data(s))
    /\ mConnected
    /\ frame' = {s} /\ pcR' = "inject"
    /\ UNCHANGED <<mConnected, mConnectInitiated, cached, blackListed, onAir,
                   sent>>

\* e;e; the source of the frame is blacklisted on the device ...
ReceiveData(s) ==
    /\ Take(Data(s))
    /\ mConnected
    /\ blackListed' = blackListed \cup {s}
    /\ frame' = {s}
    /\ pcR' = "inject"
    /\ UNCHANGED <<mConnected, mConnectInitiated, cached, onAir, sent>>

\* ... before the device puts the frame on the air.
RInject ==
    /\ RGoto("inject", "poll")
    /\ onAir' = onAir \cup frame
    /\ frame' = {}
    /\ UNCHANGED <<own, udp, outgoing, blackListed, network, engine>>

\* e;d;setessid; unless it hosts itself the device follows the host: a device that
\* joins networks joins this one and says so with SendESSID, a monitor listens.
ReceiveSetESSID ==
    /\ Take(Msg("setessid"))
    /\ mConnected
    /\ IF ~mHosting /\ UseHostSSID /\ "essid" \in Names
       THEN cached' = cached \cup {"essid"} /\ Send(Msg("essid"))
       ELSE UNCHANGED <<cached, mConnected, sent>>
    /\ UNCHANGED <<pcR, mConnectInitiated, device>>

\* disconnected;XLHA_Device
ReceiveDisconnected ==
    /\ Take(Msg("disconnected"))
    /\ mConnected
    /\ mConnected' = FALSE
    /\ UNCHANGED <<pcR, mConnectInitiated, cached, device, sent>>

\* Everything else only restarts the timer: a second confirmation, and any
\* message that arrives while the engine has not confirmed.
ReceiveIgnored(m) ==
    /\ Take(m)
    /\ mConnected <=> m = Msg("connected")
    /\ UNCHANGED <<pcR, mConnected, mConnectInitiated, cached, device, sent>>

\* PollThread returns; it has stopped the io_context if no receive is posted.
RPolled ==
    /\ RGoto("poll", "check")
    /\ stopped' = (stopped \/ work # "pending")
    /\ work' = IF work = "cancelled" /\ ~stopped THEN "none" ELSE work
    /\ UNCHANGED <<own, socket, outside>>

\* Mutant of RCheck: the io_context is not restarted.
RCheckOnly ==
    /\ RGoto("check", "loop")
    /\ UNCHANGED <<own, udp, outside>>

\* if (!mStopCommand)
RCheck ==
    /\ RGoto("check", IF mStopCommand THEN "loop" ELSE "restart")
    /\ UNCHANGED <<own, udp, outside>>

RReceive ==
    \/ ReceiveConnected \/ ReceiveKeepAlive \/ ReceiveSetESSID \/ ReceiveDisconnected
    \/ \E s \in Stations : ReceiveData(s)
    \/ \E m \in EngineMessages : ReceiveIgnored(m)

RBranch == RReset \/ RTimeout \/ RSettings \/ RIdle

R == \/ RStartThread \/ RDial \/ RLeave \/ RPost \/ RBranch \/ ROpen
     \/ RReceive \/ RInject \/ RPolled \/ RCheck

-----------------------------------------------------------------------------
(* D, the device's receiver thread.                                        *)

DGoto(from, to) == pcD = from /\ pcD' = to /\ UNCHANGED <<pcR, pcM>>

\* A frame heard on the air: the handheld's own, or one the device itself put
\* there.  The device passes on what its blacklist lets through.
DCapture(s) ==
    /\ DGoto("idle", "gate")
    /\ pcM # "off"
    /\ s \in Handhelds \cup onAir
    /\ s \notin blackListed
    /\ outgoing' = Data(s)
    /\ UNCHANGED <<own, udp, device, network, engine>>

\* SendTitleId and SendESSID: the name is remembered before it is sent.
DInform(k) ==
    /\ DGoto("idle", "gate")
    /\ pcM # "off"
    /\ cached' = cached \cup {k}
    /\ outgoing' = Msg(k)
    /\ UNCHANGED <<flags, mStopCommand, mHosting, timers, udp, device, network, engine>>

\* Where a Send returns to; SendESSID has a second Send to make.
DReturn ==
    /\ pcD' = IF outgoing = Msg("essid") THEN "host" ELSE "idle"
    /\ outgoing' = NoMessage
    /\ UNCHANGED <<pcR, pcM>>

\* Send, first half: the gate.
DGate ==
    /\ pcD = "gate"
    /\ IF socketOpen /\ ~MayTransmit(outgoing)
       THEN DReturn
       ELSE /\ pcD' = IF socketOpen THEN "send" ELSE "unconfirm"
            /\ UNCHANGED <<pcR, pcM, outgoing>>
    /\ UNCHANGED <<own, udp, device, network, engine>>

\* Send, second half: SendTo, which throws if the socket has been closed ...
DSend ==
    /\ pcD = "send"
    /\ IF socketOpen THEN Transmit({outgoing}) ELSE UNCHANGED sent
    /\ DReturn
    /\ UNCHANGED <<own, udp, device, toClient, engine>>

\* ... or the withdrawal of the confirmation, if the gate found it closed.
DUnconfirm ==
    /\ pcD = "unconfirm"
    /\ mConnected' = FALSE
    /\ DReturn
    /\ UNCHANGED <<mConnectInitiated, mSettingsSent, mStopCommand, settings, timers, udp,
                   device, network, engine>>

\* The second half of SendESSID: a host also broadcasts the network's name.
DHost ==
    /\ DGoto("host", IF mHosting THEN "gate" ELSE "idle")
    /\ outgoing' = IF mHosting THEN Msg("setessid") ELSE NoMessage
    /\ UNCHANGED <<own, udp, device, network, engine>>

DFinish == DGate \/ DSend \/ DUnconfirm \/ DHost
D == DFinish \/ (\E s \in Stations \cup Handhelds : DCapture(s))
             \/ (\E k \in Names : DInform(k))

-----------------------------------------------------------------------------
(* M, the main loop.                                                       *)

MGoto(from, to) == pcM = from /\ pcM' = to /\ UNCHANGED pcD

\* Command::StartEngine, first half: Open, with a new device.
MOpen ==
    /\ MGoto("off", "opened")
    /\ pcD = "idle"
    /\ socketOpen' = TRUE /\ endpoint' = ConfiguredEndpoint
    /\ frame' = {} /\ blackListed' = {} /\ onAir' = {}
    /\ UNCHANGED <<pcR, own, io, outgoing, network, engine>>

\* Command::StartEngine, second half: StartReceiverThread.
MStart ==
    /\ MGoto("opened", "running")
    /\ pcR' = "begin"
    /\ UNCHANGED <<own, udp, outside>>

\* Command::SetHosting.
MSetHosting ==
    /\ pcM \in {"off", "opened", "running"}
    /\ mHosting' \in Hosting
    /\ UNCHANGED <<threads, flags, mStopCommand, cached, timers, udp, outside>>

\* Close(true): disconnect; if a session is up or on its way.
MDisconnect ==
    /\ pcM \in {"opened", "running"}
    /\ pcM' = IF pcR = "none" THEN "finish" ELSE "stop"
    /\ IF mConnected \/ mConnectInitiated
       THEN Send(Msg("disconnect")) ELSE UNCHANGED <<mConnected, sent>>
    /\ UNCHANGED <<pcR, pcD, mConnectInitiated, mSettingsSent, mStopCommand, settings,
                   timers, udp, outgoing, device, toClient, engine>>

\* mStopCommand = true
MStop ==
    /\ MGoto("stop", "stopThread")
    /\ mStopCommand' = TRUE
    /\ UNCHANGED <<pcR, flags, settings, timers, udp, outside>>

\* mSocketWrapper->StopThread()
MStopThread ==
    /\ MGoto("stopThread", "join")
    /\ stopped' = TRUE
    /\ UNCHANGED <<pcR, own, socket, work, outside>>

\* mReceiverThread->join() returns once R has left its loop.
MJoin ==
    /\ MGoto("join", "finish")
    /\ pcR = "done" /\ pcR' = "none"
    /\ UNCHANGED <<own, udp, outside>>

\* The rest of Close.
MFinish ==
    /\ MGoto("finish", "off")
    /\ Reset
    /\ UNCHANGED <<pcR, settings, timers, endpoint, stopped, outgoing, device, kaiUp>>

MClosing == MStop \/ MStopThread \/ MJoin \/ MFinish
M == MOpen \/ MStart \/ MSetHosting \/ MDisconnect \/ MClosing

-----------------------------------------------------------------------------
(* The clock, the engine and the network.                                  *)

\* Ten seconds have passed since the dial; under Prompt not while the request or
\* its answer is still under way.
ConnectionTimerExpires ==
    /\ connectionTimer = "running" /\ connectionTimer' = "due"
    /\ Prompt => Msg("connect") \notin toEngine /\ Msg("connected") \notin toClient
    /\ UNCHANGED <<flags, mStopCommand, settings, keepAliveTimer, udp, threads, outside>>

\* A minute has passed since the last datagram.
KeepAliveTimerExpires ==
    /\ keepAliveTimer = "running" /\ keepAliveTimer' = "due"
    /\ UNCHANGED <<flags, mStopCommand, settings, connectionTimer, udp, threads, outside>>

\* The engine sends m, which may be lost.
Reply(m) ==
    \/ Cardinality(toClient \cup {m}) <= MaxInFlight /\ toClient' = toClient \cup {m}
    \/ UNCHANGED toClient

EngineOnly == UNCHANGED <<own, udp, threads, outgoing, device, told>>

\* connect; opens a session and is confirmed.
KaiAccept ==
    /\ kaiUp /\ Msg("connect") \in toEngine
    /\ toEngine' = toEngine \ {Msg("connect")}
    /\ session' = TRUE
    /\ Reply(Msg("connected"))
    /\ UNCHANGED kaiUp /\ EngineOnly

\* disconnect; ends the session and is answered.
KaiRelease ==
    /\ kaiUp /\ Msg("disconnect") \in toEngine
    /\ toEngine' = toEngine \ {Msg("disconnect")}
    /\ session' = FALSE
    /\ Reply(Msg("disconnected"))
    /\ UNCHANGED kaiUp /\ EngineOnly

\* Any other message is consumed; an engine that is down consumes nothing and
\* whatever reaches its port is lost.
KaiConsume ==
    /\ \E m \in toEngine :
        /\ kaiUp => m \notin Handshake
        /\ toEngine' = toEngine \ {m}
    /\ UNCHANGED <<toClient, engine>> /\ EngineOnly

\* Traffic of a session.
KaiSend ==
    /\ session
    /\ \E m \in SessionMessages : Reply(m)
    /\ UNCHANGED <<toEngine, engine>> /\ EngineOnly

\* The engine ends a session, or stops without a word, or starts again.
KaiEnd ==
    /\ session /\ session' = FALSE
    /\ Reply(Msg("disconnected"))
    /\ UNCHANGED <<toEngine, kaiUp>> /\ EngineOnly

KaiDie ==
    /\ kaiUp /\ kaiUp' = FALSE /\ session' = FALSE
    /\ UNCHANGED network /\ EngineOnly

KaiStart ==
    /\ ~kaiUp /\ kaiUp' = TRUE
    /\ UNCHANGED <<session, network>> /\ EngineOnly

Clock == ConnectionTimerExpires \/ KeepAliveTimerExpires
Kai   == KaiAccept \/ KaiRelease \/ KaiConsume \/ KaiSend \/ KaiEnd \/ KaiDie \/ KaiStart

-----------------------------------------------------------------------------

Next == R \/ M \/ D \/ Clock \/ Kai
Spec == Init /\ [][Next]_vars

(* The threads are scheduled, a poll returns after finitely many handlers, *)
(* the clock advances, the engine answers, and not every attempt to reach  *)
(* it or to hear from it is lost.                                          *)
Fairness ==
    /\ WF_vars(R) /\ WF_vars(RPolled) /\ WF_vars(MClosing) /\ WF_vars(DFinish)
    /\ WF_vars(ConnectionTimerExpires) /\ WF_vars(KeepAliveTimerExpires)
    /\ WF_vars(KaiConsume) /\ WF_vars(KaiRelease)
    /\ SF_vars(RDial /\ toEngine' # toEngine)
    /\ SF_vars(KaiAccept /\ toClient' # toClient)
    /\ SF_vars(ReceiveConnected)
FairSpec == Spec /\ Fairness

-----------------------------------------------------------------------------
(* Properties.                                                             *)

\* The branches of the receiver loop test mConnected, mConnectInitiated and two
\* one-shot timers.  In every state they can meet, the link is either down, or
\* dialling with the connection timer armed, or up on an open socket with the
\* keep-alive timer armed: there is no state from which no branch ever leaves.
LinkIsGuarded ==
    /\ ~(mConnected /\ mConnectInitiated)
    /\ mConnectInitiated => connectionTimer # "off"
    /\ mConnected => keepAliveTimer # "off" /\ socketOpen

\* A poll that runs out of posted receives stops the io_context on its own (line
\* 308).  R still leaves its loop only while Close(true) is waiting for it.
ThreadStopsOnRequest == pcR = "done" => pcM \in {"stopThread", "join"}

\* "Data from XLink Kai should never be caught in the receiver thread" (line
\* 205): what the engine sent is never captured by D and sent back to it.
NoEcho == toEngine \cap Frames(Stations) = {}

\* A name the device learned is not lost on the way to the engine, whichever way
\* learning, refusal at the gate, confirmation and settings interleave: once the
\* settings count as sent, every name has been sent since the confirmation.
NamesAreTold == mConnected /\ mSettingsSent /\ pcD = "idle" => cached \subseteq told

\* The connection implements the link that KaiLink promises: in particular every
\* new confirmation finds the settings still to be sent, whatever the sequence of
\* drops, timeouts, resets and restarts before it.
Link == INSTANCE KaiLink WITH
    link    <- IF mConnected THEN "up"
               ELSE IF mConnectInitiated THEN "dialling" ELSE "down",
    settled <- mSettingsSent
ImplementsLink == Link!Spec

\* Under fairness it also serves it: no dial and no session without settings
\* lasts for ever.
ServesLink == Link!FairSpec

\* An engine that died without a word, or that lost the session, does not stay
\* "connected" for ever.
DeadSessionNoticed ==
    (pcM = "running" /\ mConnected /\ ~session)
        ~> (~mConnected \/ session \/ pcM # "running")

\* Once the engine is back for good, R connects to it again and again, from
\* whatever state of timers, flags and sockets it came back to.
LinkComesBack == <>[](pcM = "running" /\ kaiUp) => []<>mConnected

\* XLinkKaiConnection.h:142, "set true if the receiver thread needs to be killed
\* as well": a Close(true) that has begun to stop the thread returns.
CloseReturns == pcM = "stop" ~> pcM = "off"
=============================================================================

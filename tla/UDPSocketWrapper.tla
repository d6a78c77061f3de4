--------------------------- MODULE UDPSocketWrapper ---------------------------
(***************************************************************************)
(* How a datagram of the engine gets from the socket to ReceiveCallback    *)
(* (UDPSocketWrapper.cpp, and the loop of the receiver thread R in         *)
(* XLinkKaiConnection.cpp).  Every turn of the loop posts one more receive *)
(* into the one buffer mData, whether or not the earlier ones have read    *)
(* anything; a poll lets the receives read, as many as there are datagrams *)
(* and receives, and only then calls the handlers, each with the size its  *)
(* receive has read.                                                       *)
(*                                                                         *)
(* The socket stays open here: XLinkKaiConnection has its resets, in which *)
(* receives end without a datagram, and the order of datagrams and flags.  *)
(* The kernel's queue and the io_context are external.                     *)
(***************************************************************************)
EXTENDS Naturals, Sequences

CONSTANTS
    Datagrams,       \* what the engine may send: sequences of parts
    MaxLength,       \* cMaxLength, the size of the buffer
    MaxUnread,       \* bound: datagrams the kernel holds
    MaxPosted        \* bound: receives that wait

VARIABLES
    pcR,
    unread,          \* the kernel: arrived and not read
    posted,          \* receives that have not read yet
    completed,       \* what those have read whose handlers wait, in their order
    mData,
    handled          \* what the last handler was given and what its receive had read

vars == <<pcR, unread, posted, completed, mData, handled>>

None == [given |-> <<>>, received |-> <<>>]

Init ==
    /\ pcR = "loop"
    /\ unread = <<>> /\ posted = 0 /\ completed = <<>>
    /\ mData = [i \in 1 .. MaxLength |-> "0"]
    /\ handled = None

Arrive ==
    /\ Len(unread) < MaxUnread
    /\ \E d \in Datagrams : unread' = Append(unread, d)
    /\ UNCHANGED <<pcR, posted, completed, mData, handled>>

\* Beyond the bound a further receive makes no difference to a poll.
AsyncReceiveFrom ==
    /\ pcR = "loop" /\ pcR' = "poll"
    /\ posted' = IF posted < MaxPosted THEN posted + 1 ELSE posted
    /\ UNCHANGED <<unread, completed, mData, handled>>

Over(d, buffer) == [i \in DOMAIN buffer |-> IF i <= Len(d) THEN d[i] ELSE buffer[i]]

\* Inside poll(): the oldest receive reads.
Reads ==
    /\ pcR = "poll" /\ posted > 0 /\ unread # <<>>
    /\ mData' = Over(Head(unread), mData)
    /\ completed' = Append(completed, Head(unread))
    /\ posted' = posted - 1 /\ unread' = Tail(unread)
    /\ UNCHANGED <<pcR, handled>>

\* The handlers are called when nothing can be read any more.
PollThread ==
    /\ pcR = "poll" /\ (posted = 0 \/ unread = <<>>)
    /\ pcR' = IF completed = <<>> THEN "loop" ELSE "handle"
    /\ UNCHANGED <<unread, posted, completed, mData, handled>>

ReceiveCallBack ==
    /\ pcR = "handle" /\ completed # <<>>
    /\ handled' = [given    |-> [i \in 1 .. Len(Head(completed)) |-> mData[i]],
                   received |-> Head(completed)]
    /\ completed' = Tail(completed)
    /\ pcR' = IF Len(completed) = 1 THEN "poll" ELSE "handle"
    /\ UNCHANGED <<unread, posted, mData>>

Next == Arrive \/ AsyncReceiveFrom \/ Reads \/ PollThread \/ ReceiveCallBack

Spec == Init /\ [][Next]_vars

-----------------------------------------------------------------------------
(* "Asynchronously receive data, function returns immediately, callback    *)
(* will be called when the data arrives" (IUDPSocketWrapper.h:61): what a  *)
(* callback is called with is the datagram that has arrived, not parts of  *)
(* others that came after it or before.                                    *)
HandledIsReceived == handled.given = handled.received

=============================================================================

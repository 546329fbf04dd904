----------------------------- MODULE PreambleSend -----------------------------
(***************************************************************************)
(* The sending side of PreambleSocket (quic-mls/src/preamble.rs): quinn's  *)
(* connection drivers, each with a PreamblePoller of its own, and          *)
(* send_preamble share one UDP socket.  The pollers all register with the  *)
(* socket's one slot for a writing task (poll_send_ready); send_to waits   *)
(* in a list of waiters besides.                                           *)
(***************************************************************************)
EXTENDS Naturals

CONSTANTS
    Conns,        \* quinn's connections on the socket
    NoConn,
    Capacity,     \* datagrams the socket's send buffer holds
    WindowLen,    \* datagrams of one commit window
    MaxPackets,   \* bound on the packets of a connection
    MaxWindows    \* bound on the windows sent

ASSUME SendConstants ==
    /\ NoConn \notin Conns
    /\ Capacity \in Nat \ {0} /\ WindowLen \in Nat
    /\ MaxPackets \in Nat /\ MaxWindows \in Nat

VARIABLES
    space,       \* room left in the send buffer
    writeEvent,  \* the socket has an event tokio's driver has not seen
    writable,    \* tokio's cached readiness for writing
    slot,        \* whose waker is in the slot
    conn,        \* where each connection's driver is
    sent,        \* packets each connection has sent
    sender,      \* where send_preamble is
    left, total,           \* of the window it is sending
    windows,               \* windows begun
    out,                   \* preamble datagrams that have left
    preamble_bytes_sent    \* those counted (in datagrams)

slotVars     == <<writeEvent, slot>>
connVars     == <<conn, sent>>
preambleVars == <<sender, left, total, windows, out, preamble_bytes_sent>>
sendVars     == <<space, slotVars, writable, connVars, preambleVars>>

SendInit ==
    /\ space = Capacity
    /\ writeEvent = TRUE /\ writable = FALSE /\ slot = NoConn
    /\ conn = [c \in Conns |-> "idle"] /\ sent = [c \in Conns |-> 0]
    /\ sender = "idle" /\ left = 0 /\ total = 0 /\ windows = 0
    /\ out = 0 /\ preamble_bytes_sent = 0

-----------------------------------------------------------------------------
(* The socket and tokio's I/O driver.                                      *)

Drain ==
    /\ space < Capacity
    /\ space' = space + 1
    /\ writeEvent' = TRUE
    /\ UNCHANGED <<writable, slot, connVars, preambleVars>>

Wakes(c) == c = slot /\ conn[c] = "blocked"

DriveWriters ==
    /\ writeEvent
    /\ writeEvent' = FALSE
    /\ writable' = TRUE
    /\ slot' = NoConn
    /\ conn' = [c \in Conns |-> IF Wakes(c) THEN "poll" ELSE conn[c]]
    /\ sender' = IF sender = "waiting" THEN "send" ELSE sender
    /\ UNCHANGED <<space, sent, left, total, windows, out, preamble_bytes_sent>>

-----------------------------------------------------------------------------
(* A connection's driver.                                                  *)
(*   idle     nothing to transmit                                          *)
(*   poll     has a transmit, about to ask its poller                      *)
(*   try      the poller has said writable                                 *)
(*   blocked  waits to be woken, the transmit kept                         *)
(*   failed   has ended with an error of the socket                        *)

WantSend(c) ==
    /\ conn[c] = "idle"
    /\ sent[c] < MaxPackets
    /\ conn' = [conn EXCEPT ![c] = "poll"]
    /\ UNCHANGED <<space, slotVars, writable, sent, preambleVars>>

PollFor(c, isReady) ==
    /\ conn[c] = "poll"
    /\ conn' = [conn EXCEPT ![c] = IF isReady THEN "try" ELSE "blocked"]
    /\ slot' = IF isReady THEN slot ELSE c
    /\ UNCHANGED <<space, writeEvent, writable, sent, preambleVars>>

\* Slip: readiness for reading is asked.
PollReadable(c) == PollFor(c, FALSE)

\* PreamblePoller::poll_writable; the last to register has the slot.
PollWritable(c) == PollFor(c, writable)

\* try_send: a full buffer takes tokio's readiness back, and quinn asks the poller again.
TrySend(c) ==
    /\ conn[c] = "try"
    /\ IF space > 0
       THEN /\ space' = space - 1
            /\ sent' = [sent EXCEPT ![c] = @ + 1]
            /\ conn' = [conn EXCEPT ![c] = "idle"]
            /\ UNCHANGED writable
       ELSE /\ writable' = FALSE
            /\ conn' = [conn EXCEPT ![c] = "poll"]
            /\ UNCHANGED <<space, sent>>
    /\ UNCHANGED <<slotVars, preambleVars>>

\* Any other error of try_send ends the driver, and nothing of the connection's leaves.
TrySendFails(c) ==
    /\ conn[c] = "try"
    /\ conn' = [conn EXCEPT ![c] = "failed"]
    /\ UNCHANGED <<space, slotVars, writable, sent, preambleVars>>

\* One of the connection's timers (loss detection, idle, close) polls its driver.
Timer(c) ==
    /\ conn[c] = "blocked"
    /\ conn' = [conn EXCEPT ![c] = "poll"]
    /\ UNCHANGED <<space, slotVars, writable, sent, preambleVars>>

-----------------------------------------------------------------------------
(* send_preamble, in run_alice's task.                                     *)

SendPreamble ==
    /\ sender = "idle"
    /\ windows < MaxWindows
    /\ windows' = windows + 1
    /\ sender' = "send"
    /\ left' = WindowLen /\ total' = 0
    /\ UNCHANGED <<space, slotVars, writable, connVars, out, preamble_bytes_sent>>

\* send_to of the next datagram.
SendTo ==
    /\ sender = "send" /\ left > 0 /\ writable
    /\ IF space > 0
       THEN /\ space' = space - 1
            /\ left' = left - 1 /\ total' = total + 1 /\ out' = out + 1
            /\ UNCHANGED writable
       ELSE /\ writable' = FALSE
            /\ UNCHANGED <<space, left, total, out>>
    /\ UNCHANGED <<slotVars, connVars, sender, windows, preamble_bytes_sent>>

\* Slip: the wait is through the slot, where a connection takes its place.
AwaitUnlisted ==
    /\ sender = "send" /\ left > 0 /\ ~writable
    /\ sender' = "blocked"
    /\ UNCHANGED <<space, slotVars, writable, connVars, left, total, windows, out, preamble_bytes_sent>>

AwaitWritable ==
    /\ sender = "send" /\ left > 0 /\ ~writable
    /\ sender' = "waiting"
    /\ UNCHANGED <<space, slotVars, writable, connVars, left, total, windows, out, preamble_bytes_sent>>

\* An error of send_to ends send_preamble where it is, and run_alice with it.
SendFails ==
    /\ sender = "send" /\ left > 0
    /\ sender' = "failed"
    /\ UNCHANGED <<space, slotVars, writable, connVars, left, total, windows, out, preamble_bytes_sent>>

Sent ==
    /\ sender = "send" /\ left = 0
    /\ preamble_bytes_sent' = preamble_bytes_sent + total
    /\ total' = 0
    /\ sender' = "idle"
    /\ UNCHANGED <<space, slotVars, writable, connVars, left, windows, out>>

-----------------------------------------------------------------------------
ConnStep(c) == PollWritable(c) \/ TrySend(c)
SenderStep == SendTo \/ AwaitWritable \/ Sent

SendNext ==
    \/ Drain \/ DriveWriters
    \/ \E c \in Conns : WantSend(c) \/ ConnStep(c) \/ TrySendFails(c) \/ Timer(c)
    \/ SendPreamble \/ SenderStep \/ SendFails

SendSpec == SendInit /\ [][SendNext]_sendVars

\* The buffer drains, the runtime runs its driver and its tasks.
RuntimeFairness ==
    /\ WF_sendVars(Drain) /\ WF_sendVars(DriveWriters) /\ WF_sendVars(SenderStep)
    /\ \A c \in Conns : WF_sendVars(ConnStep(c))

SendFairSpec == SendSpec /\ RuntimeFairness
TimedSpec == SendFairSpec /\ \A c \in Conns : WF_sendVars(Timer(c))

-----------------------------------------------------------------------------
SendTypeOK ==
    /\ space \in 0..Capacity /\ writeEvent \in BOOLEAN /\ writable \in BOOLEAN
    /\ slot \in Conns \cup {NoConn}
    /\ conn \in [Conns -> {"idle", "poll", "try", "blocked", "failed"}]
    /\ sent \in [Conns -> 0..MaxPackets]
    /\ sender \in {"idle", "send", "waiting", "failed"}
    /\ left \in 0..WindowLen /\ total \in Nat /\ windows \in 0..MaxWindows
    /\ out \in Nat /\ preamble_bytes_sent \in Nat

\* A task that waits for the socket to become writable is known to tokio, and while
\* it waits though the socket is writable, an event is on its way: a connection by
\* the slot, send_preamble by the list of waiters, so that it needs no slot
\* (preamble.rs:167, 129).  It holds of one connection; a second one that blocks
\* takes the slot from the first.
NoWriterForgotten ==
    /\ \A c \in Conns : conn[c] = "blocked" =>
           /\ slot = c
           /\ space > 0 => writeEvent
    /\ sender = "waiting" /\ space > 0 => writeEvent

\* preamble_bytes_sent counts whole preambles: it is never ahead of what has left
\* the socket, and an error in the middle of a window leaves only that window's
\* datagrams out uncounted (preamble.rs:129-132).
CountsWholePreambles ==
    /\ out = preamble_bytes_sent + total
    /\ total + left <= WindowLen
    /\ sender = "idle" => total = 0

\* Every packet leaves in the end, though two connections share a slot meant for
\* one: a driver whose waker was overwritten is polled again by its timers.  Only an
\* error of the socket ends a driver, never the other connection.
EveryPacketLeaves == \A c \in Conns : conn[c] # "idle" ~> conn[c] \in {"idle", "failed"}

\* A window goes out, unless the socket fails, whoever else writes to it.
EveryWindowGoesOut == sender # "idle" ~> sender \in {"idle", "failed"}
=============================================================================

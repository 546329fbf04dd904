---------------------------- MODULE PreambleSocket ----------------------------
(***************************************************************************)
(* The receive path of PreambleSocket (quic-mls/src/preamble.rs): one UDP  *)
(* socket on which commit windows and QUIC packets arrive mixed, and whose *)
(* poll_recv has to give each to its reader.                               *)
(*                                                                         *)
(* Three actors: the network, which fills the socket; tokio's I/O driver,  *)
(* which turns an event of the socket into readiness and wakes whoever     *)
(* registered; and quinn's endpoint task, which polls until Pending.  A    *)
(* datagram is its place in the order of arrival.                          *)
(***************************************************************************)
EXTENDS Integers, Sequences

CONSTANTS
    Batch,         \* bufs.len(): quinn's BATCH_SIZE
    Coop,          \* readiness checks a task may pass in one poll (tokio's budget)
    MaxDatagrams,  \* bound on the datagrams that arrive
    MaxResets      \* bound on the errors that a read clears

ASSUME SocketConstants ==
    Batch \in Nat \ {0} /\ Coop \in Nat \ {0} /\ MaxDatagrams \in Nat /\ MaxResets \in Nat

VARIABLES
    arrived,   \* every datagram so far, by kind
    taken,     \* how many of them have been read off the socket
    event,     \* the socket has an event the driver has not seen
    ready,     \* tokio's cached readiness
    waker,     \* the endpoint's waker is registered for reading
    woken,     \* a wake-up that came while the endpoint task ran
    task,      \* where the endpoint task is
    bufs, filled,   \* poll_recv's buffers, each naming what it holds, and how many count
    coop,      \* what is left of the task's budget
    sink,      \* the socket was made with a sink
    sunk,      \* windows given to the sink, in order
    handed,    \* datagrams given to quinn, in order
    fault,     \* an error the socket or the runtime has come to
    resets

netVars  == <<arrived, fault, resets>>
ioVars   == <<ready, waker, woken>>
callVars == <<bufs, filled, coop>>
outVars  == <<sink, sunk, handed>>
vars     == <<netVars, taken, event, ioVars, task, callVars, outVars>>

\* A window that decodes; a marker with nothing decodable behind it; a packet (its
\* fixed bit is set: quinn does not grease, and 64 is the least such byte); no bytes.
Kinds == {"window", "junk", "packet", "empty"}
FirstByte == [window |-> 0, junk |-> 63, packet |-> 64]

is_preamble_marker(first) == first < 64      \* first & 0xC0 == 0

\* parse_preamble answers Some.
IsPreamble(d) == d # "empty" /\ is_preamble_marker(FirstByte[d])

Init ==
    /\ arrived = <<>> /\ fault = "none" /\ resets = 0
    /\ taken = 0
    /\ event = FALSE
    /\ ready = FALSE /\ waker = FALSE /\ woken = FALSE
    /\ task = "runnable"
    /\ bufs = [s \in 1..Batch |-> 0] /\ filled = 0 /\ coop = Coop
    /\ sink \in BOOLEAN /\ sunk = <<>> /\ handed = <<>>

-----------------------------------------------------------------------------
(* The network and the I/O driver.                                         *)

Arrive ==
    /\ Len(arrived) < MaxDatagrams
    /\ \E d \in Kinds : arrived' = Append(arrived, d)
    /\ event' = TRUE
    /\ UNCHANGED <<fault, resets, taken, ioVars, task, callVars, outVars>>

\* "reset" is cleared by the read that reports it; a broken socket and a runtime
\* shutting down stay so.
Fail ==
    /\ fault = "none"
    /\ \/ resets < MaxResets /\ fault' = "reset" /\ resets' = resets + 1
       \/ fault' \in {"broken", "shutdown"} /\ UNCHANGED resets
    /\ event' = TRUE
    /\ UNCHANGED <<arrived, taken, ioVars, task, callVars, outVars>>

Drive ==
    /\ event
    /\ event' = FALSE
    /\ ready' = TRUE
    /\ waker' = FALSE
    /\ IF waker /\ task = "parked"
       THEN task' = "runnable" /\ UNCHANGED woken
       ELSE woken' = (woken \/ waker) /\ UNCHANGED task
    /\ UNCHANGED <<netVars, taken, callVars, outVars>>

-----------------------------------------------------------------------------
(* poll_recv, in quinn's endpoint task.                                    *)
(*   runnable  about to be polled, or to call poll_recv again              *)
(*   check     at the head of poll_recv's loop                             *)
(*   recv      past poll_recv_ready                                        *)
(*   pending   poll_recv has returned Pending                              *)
(*   parked    asleep until woken                                          *)
(*   failed    poll_recv has returned an error quinn does not pass over    *)

Poll ==
    /\ task = "runnable"
    /\ task' = "check"
    /\ filled' = 0
    /\ coop' = Coop
    /\ woken' = FALSE
    /\ UNCHANGED <<netVars, taken, event, ready, waker, bufs, outVars>>

\* Ready(Ok(filled)): quinn takes that many buffers and polls again.
ReturnFilled ==
    /\ handed' = handed \o SubSeq(bufs, 1, filled)
    /\ filled' = 0
    /\ task' = "runnable"

\* Slip: an error is never reported.
NeverReport == ReturnFilled

\* What has been read goes first; the error, if there is nothing, is reported.
\* Quinn passes over a reset and ends the endpoint at any other.
ReturnError ==
    IF filled > 0
    THEN ReturnFilled
    ELSE /\ task' = IF fault = "reset" THEN "runnable" ELSE "failed"
         /\ UNCHANGED <<filled, handed>>

Full == filled >= Batch

BatchFull ==
    /\ task = "check"
    /\ Full
    /\ ReturnFilled
    /\ UNCHANGED <<netVars, taken, event, ioVars, bufs, coop, sink, sunk>>

\* poll_recv_ready: an error once the runtime is gone; ready, at the cost of some
\* budget; or Pending, with the waker registered, or called at once if it is the
\* budget that has run out.
CheckReady ==
    /\ task = "check"
    /\ ~Full
    /\ IF coop > 0 /\ fault # "shutdown" /\ ready
       THEN /\ task' = "recv"
            /\ coop' = coop - 1
            /\ UNCHANGED <<waker, woken, filled, handed>>
       ELSE /\ UNCHANGED coop
            /\ IF coop > 0 /\ fault = "shutdown"
               THEN ReturnError /\ UNCHANGED <<waker, woken>>
               ELSE /\ waker' = (waker \/ coop > 0)
                    /\ woken' = (woken \/ coop = 0)
                    /\ IF filled > 0
                       THEN ReturnFilled
                       ELSE task' = "pending" /\ UNCHANGED <<filled, handed>>
    /\ UNCHANGED <<netVars, taken, event, ready, bufs, sink, sunk>>

SocketError == fault \in {"reset", "broken"}

RecvError ==
    /\ task = "recv"
    /\ SocketError
    /\ ReturnError
    /\ fault' = IF fault = "reset" THEN "none" ELSE fault
    /\ UNCHANGED <<arrived, resets, taken, event, ioVars, bufs, coop, sink, sunk>>

\* handle_preamble_datagram: what does not decode is dropped, and so is a window when
\* nobody wants it.
ToSink(n) == sunk' = IF arrived[n] = "window" /\ sink THEN Append(sunk, n) ELSE sunk

\* The next datagram, into the buffer that is next to fill: a window goes to the
\* sink and leaves the buffer free, anything else counts as filled.
RecvInto(slots) ==
    /\ task = "recv"
    /\ ~SocketError
    /\ taken < Len(arrived)
    /\ taken' = taken + 1
    /\ IF IsPreamble(arrived[taken + 1])
       THEN ToSink(taken + 1) /\ filled' = filled + slots
       ELSE filled' = filled + 1 /\ UNCHANGED sunk
    /\ bufs' = [bufs EXCEPT ![filled + 1] = taken + 1]
    /\ task' = "check"
    /\ UNCHANGED <<netVars, event, ioVars, coop, sink, handed>>

\* Slip: a window keeps its buffer.
RecvKeepsSlot == RecvInto(1)
Recv == RecvInto(0)

\* WouldBlock: tokio takes its readiness back.  With nothing in hand the loop goes
\* back to poll_recv_ready, to register the waker.
Empty(next) ==
    /\ task = "recv"
    /\ ~SocketError
    /\ taken = Len(arrived)
    /\ ready' = FALSE
    /\ IF filled > 0
       THEN ReturnFilled
       ELSE task' = next /\ UNCHANGED <<filled, handed>>
    /\ UNCHANGED <<netVars, taken, event, waker, woken, bufs, coop, sink, sunk>>

\* Slip: Pending without going back.
EmptyParks == Empty("pending")
WouldBlock == Empty("check")

Park ==
    /\ task = "pending"
    /\ task' = IF woken THEN "runnable" ELSE "parked"
    /\ woken' = FALSE
    /\ UNCHANGED <<netVars, taken, event, ready, waker, callVars, outVars>>

-----------------------------------------------------------------------------
TaskStep == Poll \/ BatchFull \/ CheckReady \/ RecvError \/ Recv \/ WouldBlock \/ Park

Next == Arrive \/ Fail \/ Drive \/ TaskStep

Spec == Init /\ [][Next]_vars

\* The runtime runs the I/O driver and polls a task that was woken.
FairSpec == Spec /\ WF_vars(Drive) /\ WF_vars(TaskStep)

-----------------------------------------------------------------------------
TypeOK ==
    /\ arrived \in Seq(Kinds) /\ taken \in 0..Len(arrived)
    /\ fault \in {"none", "reset", "broken", "shutdown"} /\ resets \in Nat
    /\ event \in BOOLEAN /\ ready \in BOOLEAN /\ waker \in BOOLEAN /\ woken \in BOOLEAN
    /\ task \in {"runnable", "check", "recv", "pending", "parked", "failed"}
    /\ bufs \in [1..Batch -> Nat] /\ filled \in 0..Batch /\ coop \in 0..Coop
    /\ sink \in BOOLEAN /\ sunk \in Seq(Nat) /\ handed \in Seq(Nat)

Increasing(s) == \A i, j \in DOMAIN s : i < j => s[i] < s[j]

\* Whatever the interleaving, and though one buffer is written several times before
\* it counts, quinn is given every packet and nothing but packets, the sink every
\* window that decodes, each once and in the order of arrival (preamble.rs:203-209);
\* what a poll holds when an error ends it is not dropped.
ForQuinn == handed \o SubSeq(bufs, 1, filled)
EachToItsReader ==
    /\ {ForQuinn[i] : i \in DOMAIN ForQuinn} =
           {n \in 1..taken : arrived[n] \in {"packet", "empty"}}
    /\ {sunk[i] : i \in DOMAIN sunk} = {n \in 1..taken : sink /\ arrived[n] = "window"}
    /\ Increasing(ForQuinn) /\ Increasing(sunk)

\* The endpoint never sleeps over work: while it is parked its waker is registered,
\* and if there is something to read an event is on its way to the driver
\* (preamble.rs:211-216).
NoLostWakeup ==
    task = "parked" =>
        /\ waker
        /\ taken < Len(arrived) \/ fault # "none" => event

\* Every datagram is read in the end, whatever mixture of windows and packets it
\* arrives in, unless the endpoint has failed.
EveryDatagramIsRead ==
    \A n \in 1..MaxDatagrams : Len(arrived) >= n ~> (taken >= n \/ task = "failed")

\* An error swallowed because packets were in hand shows up again, unless the read
\* itself cleared it (preamble.rs:217-219).
ErrorSurfaces == fault \in {"broken", "shutdown"} ~> task = "failed"
=============================================================================

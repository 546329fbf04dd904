----------------------------- MODULE TlsBaseline -----------------------------
(***************************************************************************)
(* The baseline the MLS handshake is measured against (quic-tls/src/       *)
(* main.rs): quinn with rustls.  A client connects once in full, then      *)
(* reconnects, with a resumption ticket and 0-RTT where it has one, and    *)
(* emits a record of every connection; the server serves each in a task.   *)
(*                                                                         *)
(* Of rustls the model has the tickets: the server sends two of them after *)
(* a handshake and keeps their sessions, each good for one resumption; the *)
(* client keeps those that arrive and takes the newest.  The server takes  *)
(* early data only with a fresh ticket: the age the client gives it, which *)
(* counts from its arrival, and its age at the server, which counts from   *)
(* its issue and is seen when the offer arrives, differ by a round trip,   *)
(* and by no more than FRESHNESS.  A ticket that is not fresh still        *)
(* resumes its session.                                                    *)
(***************************************************************************)
EXTENDS Naturals, Sequences

CONSTANTS
    Reconnects,    \* --reconnects
    RoundTrips,    \* round trips of the channels, in seconds
    MaxOutages,    \* bound on the outages of the link
    MaxLosses      \* bound on the packets lost while it is up

ASSUME BaselineConstants ==
    Reconnects \in Nat /\ RoundTrips \subseteq Nat /\ MaxOutages \in Nat /\ MaxLosses \in Nat

TICKETS   == 2     \* rustls: send_tls13_tickets
FRESHNESS == 60    \* rustls: MAX_FRESHNESS_SKEW_MS, in seconds

VARIABLES
    no_resumption,   \* --no-resumption
    round_trip,      \* of this channel
    link, outages, losses,
    delayed,         \* the client's connection has lost a packet
    pc,              \* where run_client is
    iteration,
    conn,            \* the client's connection: "none", "open", "lost"
    early,           \* it was begun with 0-RTT keys
    offered,         \* ... from this ticket, 0 if none
    accepted,        \* the server has taken the 0-RTT
    cached,          \* tickets the client holds, oldest first
    flying,          \* tickets under way to it
    issued,          \* tickets the server has sent so far
    sessions,        \* sessions the server holds
    serving,         \* the server's task of each connection
    records

channelVars == <<no_resumption, round_trip, link, outages, losses>>
clientVars  == <<pc, iteration, conn, early, offered, delayed>>
serverVars  == <<issued, sessions, serving>>
vars        == <<channelVars, clientVars, accepted, cached, flying, serverVars, records>>

Record(mode, zrtt) == [iteration |-> iteration, mode |-> mode, zero_rtt_accepted |-> zrtt]

Init ==
    /\ no_resumption \in BOOLEAN /\ round_trip \in RoundTrips
    /\ link = TRUE /\ outages = 0 /\ losses = 0 /\ delayed = FALSE
    /\ pc = "connect" /\ iteration = 0 /\ conn = "none" /\ early = FALSE /\ offered = 0
    /\ accepted = FALSE /\ cached = <<>> /\ flying = {}
    /\ issued = 0 /\ sessions = {} /\ serving = [n \in 0..Reconnects |-> "none"]
    /\ records = <<>>

-----------------------------------------------------------------------------
(* The client.                                                             *)
(*   connect    about to connect                                           *)
(*   handshake  waits for the handshake, or for the answer to its 0-RTT    *)
(*   settle     the record is emitted; waits for tickets                   *)
(*   close      about to close                                             *)
(*   blackout   waits out the blackout                                     *)
(*   done, failed                                                          *)

\* build_client_config: no tickets without resumption.
Resumes == ~no_resumption

\* into_0rtt succeeds if a ticket is at hand, which is then used up.  The first
\* connection, and every one without resumption, is a full handshake.
Connect ==
    /\ pc = "connect"
    /\ pc' = "handshake"
    /\ conn' = "open" /\ delayed' = FALSE
    /\ accepted' = FALSE
    /\ IF Resumes /\ cached # <<>>
       THEN /\ offered' = cached[Len(cached)]
            /\ cached' = SubSeq(cached, 1, Len(cached) - 1)
            /\ early' = TRUE
       ELSE /\ offered' = 0 /\ early' = FALSE
            /\ UNCHANGED cached
    /\ UNCHANGED <<channelVars, iteration, flying, serverVars, records>>

Answered == conn = "open" /\ link /\ serving[iteration] # "none"

Emit(r) ==
    /\ records' = Append(records, r)
    /\ pc' = IF Resumes THEN "settle" ELSE "close"
    /\ UNCHANGED <<channelVars, iteration, conn, early, offered, delayed, accepted, cached, flying,
                   serverVars>>

\* full_handshake, or the arm of reconnect for a connection without 0-RTT keys.
FullHandshake ==
    /\ pc = "handshake" /\ ~early
    /\ Answered
    /\ Emit(Record("full-1rtt", FALSE))

\* An error of the handshake ends the client.
HandshakeFails ==
    /\ pc = "handshake" /\ ~early
    /\ conn = "lost"
    /\ pc' = "failed"
    /\ UNCHANGED <<channelVars, iteration, conn, early, offered, delayed, accepted, cached, flying,
                   serverVars, records>>

\* accepted.await: the server's answer, or FALSE when the connection is lost.
ZeroRttIf(over, zrtt) ==
    /\ pc = "handshake" /\ early
    /\ over
    /\ Emit(Record("0rtt", zrtt))

\* Slip: 0-RTT keys are taken for accepted 0-RTT.
ZeroRttAssumed == ZeroRttIf(TRUE, TRUE)
ZeroRtt == ZeroRttIf(conn = "lost" \/ Answered, accepted /\ conn = "open")

\* The scripts give rtt_ms the one-way delay of the channel, so the wait is a round trip
\* and two seconds.  The tickets come a round trip after the client's handshake: in time
\* over a link that is up, unless a packet was lost.
SettleIf(arrived) ==
    /\ pc = "settle"
    /\ arrived
    /\ pc' = "close"
    /\ UNCHANGED <<channelVars, iteration, conn, early, offered, delayed, accepted, cached, flying,
                   serverVars, records>>

\* Slip: the client does not wait.
SettleAtOnce == SettleIf(TRUE)
Settle == SettleIf(link /\ conn = "open" /\ ~delayed => flying = {})

\* Whoever closes is heard by the other if the link is up.
Close ==
    /\ pc = "close"
    /\ pc' = IF iteration < Reconnects THEN "blackout" ELSE "done"
    /\ conn' = "none"
    /\ flying' = {}
    /\ serving' = [n \in 0..Reconnects |->
                      IF serving[n] # "open" THEN serving[n]
                      ELSE IF link THEN "closed" ELSE "orphan"]
    /\ UNCHANGED <<channelVars, iteration, early, offered, delayed, accepted, cached, issued,
                   sessions, records>>

Blackout ==
    /\ pc = "blackout"
    /\ pc' = "connect"
    /\ iteration' = iteration + 1
    /\ UNCHANGED <<channelVars, conn, early, offered, delayed, accepted, cached, flying, serverVars,
                   records>>

\* The connection runs into its idle timeout: in an outage, or before a lost packet has
\* been sent again.
ConnectionLost ==
    /\ conn = "open" /\ (~link \/ delayed)
    /\ conn' = "lost"
    /\ flying' = {}
    /\ serving' = [n \in 0..Reconnects |-> IF serving[n] = "open" THEN "orphan" ELSE serving[n]]
    /\ UNCHANGED <<channelVars, pc, iteration, early, offered, delayed, accepted, cached, issued,
                   sessions, records>>

-----------------------------------------------------------------------------
(* The server.                                                             *)

Calm == outages = 0 /\ losses = 0

\* The server counts a ticket's age in whole seconds, so a round trip within a second of
\* the limit goes either way; what was sent again is older by any time.
Freshness ==
    {fresh \in BOOLEAN :
        /\ fresh => round_trip <= FRESHNESS + 1
        /\ Calm /\ round_trip < FRESHNESS - 1 => fresh}

\* A connection is accepted and gets a task.  0-RTT is taken if the ticket is fresh and
\* its session is there, and the session is used up; two new tickets are sent.
Serve ==
    /\ pc = "handshake" /\ conn = "open" /\ link
    /\ serving[iteration] = "none"
    /\ serving' = [serving EXCEPT ![iteration] = "open"]
    /\ \E fresh \in Freshness : accepted' = (early /\ offered \in sessions /\ fresh)
    /\ issued' = issued + TICKETS
    /\ sessions' = (sessions \ {offered}) \cup ((issued + 1)..(issued + TICKETS))
    /\ flying' = IF Resumes THEN (issued + 1)..(issued + TICKETS) ELSE {}
    /\ UNCHANGED <<channelVars, clientVars, cached, records>>

TicketArrives ==
    /\ link /\ conn = "open"
    /\ \E t \in flying :
          /\ \A u \in flying : t <= u
          /\ flying' = flying \ {t}
          /\ cached' = Append(cached, t)
    /\ UNCHANGED <<channelVars, clientVars, accepted, serverVars, records>>

\* handle_connection: accept_bi fails once the connection has ended, by the client's
\* close or the idle timeout, and the task is done.
EndIf(n, over) ==
    /\ over
    /\ serving' = [serving EXCEPT ![n] = "ended"]
    /\ UNCHANGED <<channelVars, clientVars, accepted, cached, flying, issued, sessions, records>>

\* Slip: the task ends at a close only.
TaskEndsAtClose(n) == EndIf(n, serving[n] = "closed")
HandleConnection(n) == EndIf(n, serving[n] \in {"closed", "orphan"})

-----------------------------------------------------------------------------
LinkFails ==
    /\ link /\ outages < MaxOutages
    /\ link' = FALSE /\ outages' = outages + 1
    /\ UNCHANGED <<no_resumption, round_trip, losses, clientVars, accepted, cached, flying,
                   serverVars, records>>

LinkReturns ==
    /\ ~link
    /\ link' = TRUE
    /\ UNCHANGED <<no_resumption, round_trip, outages, losses, clientVars, accepted, cached,
                   flying, serverVars, records>>

PacketLost ==
    /\ link /\ conn = "open" /\ losses < MaxLosses
    /\ losses' = losses + 1 /\ delayed' = TRUE
    /\ UNCHANGED <<no_resumption, round_trip, link, outages, pc, iteration, conn, early, offered,
                   accepted, cached, flying, serverVars, records>>

Client ==
    \/ Connect \/ FullHandshake \/ HandshakeFails \/ ZeroRtt \/ Settle \/ Close \/ Blackout
Server == Serve \/ TicketArrives \/ \E n \in 0..Reconnects : HandleConnection(n)

Next == Client \/ Server \/ ConnectionLost \/ LinkFails \/ LinkReturns \/ PacketLost

Spec == Init /\ [][Next]_vars

\* The tasks run, the link comes back, timers go off.
FairSpec == Spec /\ WF_vars(Client) /\ WF_vars(Server) /\ WF_vars(LinkReturns)

-----------------------------------------------------------------------------
\* What the comparison rests on.  Without resumption every connection is recorded as a
\* full handshake.  With it, and with no outage or loss, every reconnection is recorded as
\* 0-RTT, which the server takes over a channel with a round trip below its limit
\* (main.rs:181, 195: the waits before each close).  Over a longer one, as to Mars, it
\* takes none, whatever happens (main.rs:228).
Comparable ==
    \A k \in DOMAIN records :
        LET r == records[k]
        IN  /\ r.iteration = k - 1
            /\ no_resumption => r.mode = "full-1rtt"
            /\ ~no_resumption /\ k > 1 /\ Calm =>
                   /\ r.mode = "0rtt"
                   /\ round_trip < FRESHNESS - 1 => r.zero_rtt_accepted
            /\ round_trip > FRESHNESS + 1 => ~r.zero_rtt_accepted

\* A record says 0-RTT was taken only of a connection begun with 0-RTT that the server has
\* served: a connection lost before that is never recorded as a success
\* (main.rs:225, the answer awaited).
AcceptedWasServed ==
    \A k \in DOMAIN records :
        records[k].zero_rtt_accepted =>
            records[k].mode = "0rtt" /\ serving[records[k].iteration] # "none"

\* The task of every connection ends, whoever ended the connection and whether the
\* close was heard (main.rs:140, any error ends the loop).
TasksEnd ==
    \A n \in 0..Reconnects : serving[n] = "open" ~> serving[n] = "ended"
=============================================================================

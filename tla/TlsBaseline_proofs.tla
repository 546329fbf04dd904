-------------------------- MODULE TlsBaseline_proofs --------------------------
(***************************************************************************)
(* The records of the baseline, for any channel and any number of          *)
(* reconnections, outages and losses.  What a record says is settled long  *)
(* before it is emitted: by the ticket the connection began with, which    *)
(* must still have its session at the server and be fresh there, and by    *)
(* the waits that let new tickets come.                                    *)
(***************************************************************************)
EXTENDS TlsBaseline, TLAPS

Tickets(q)  == {q[i] : i \in DOMAIN q}
Distinct(q) == \A i, j \in DOMAIN q : q[i] = q[j] => i = j

Phases == {"connect", "handshake", "settle", "close", "blackout", "done", "failed"}
Before == {"connect", "handshake", "failed"}   \* the iteration has no record yet

Types ==
    /\ no_resumption \in BOOLEAN /\ link \in BOOLEAN /\ delayed \in BOOLEAN
    /\ round_trip \in Nat /\ outages \in Nat /\ losses \in Nat
    /\ pc \in Phases /\ iteration \in 0..Reconnects
    /\ conn \in {"none", "open", "lost"} /\ early \in BOOLEAN /\ accepted \in BOOLEAN
    /\ issued \in Nat /\ offered \in Nat

Tasks == DOMAIN serving = 0..Reconnects

Queues == cached \in Seq(Nat) /\ \E S : records \in Seq(S)

\* A task is there for every connection that was served, and for none to come: those
\* end with the last reconnection.
Serving ==
    /\ pc = "blackout" => iteration < Reconnects
    /\ \A n \in 0..Reconnects : n > iteration => serving[n] = "none"
    /\ pc = "connect" => serving[iteration] = "none"

\* The client holds a connection from connecting to closing, and tickets come over it
\* once it has been served.
Connection ==
    /\ pc \in {"handshake", "settle", "close"} => conn # "none"
    /\ pc \in {"connect", "blackout"} => conn = "none"
    /\ flying # {} => conn = "open" /\ serving[iteration] # "none"
    /\ early => Resumes
    /\ Calm => link /\ conn # "lost" /\ ~delayed

\* No ticket is held twice, and each has its session: only the ticket the client has
\* used up loses it.
SessionsHeld ==
    /\ Distinct(cached) /\ Tickets(cached) \cap flying = {}
    /\ Tickets(cached) \cup flying \subseteq sessions \cap (1..issued)
    /\ pc = "handshake" /\ serving[iteration] = "none" =>
           offered \notin Tickets(cached) /\ (early => offered \in sessions)

\* What the handshake under way will be recorded as.
Outcome ==
    pc = "handshake" =>
        /\ accepted => early /\ serving[iteration] # "none" /\ round_trip <= FRESHNESS + 1
        /\ Calm /\ round_trip < FRESHNESS - 1 /\ early /\ serving[iteration] # "none" => accepted

\* Without outage or loss there is a ticket for every reconnection.
AtHand ==
    Resumes /\ Calm =>
        /\ pc \in {"settle", "close", "blackout"} => serving[iteration] # "none"
        /\ pc \in {"handshake", "settle"} /\ serving[iteration] # "none" =>
               cached # <<>> \/ flying # {}
        /\ pc \in {"close", "blackout"} => cached # <<>>
        /\ pc = "connect" /\ iteration > 0 => cached # <<>>
        /\ pc = "handshake" /\ iteration > 0 => early

\* One record for every iteration that is over.
Recorded == Len(records) = IF pc \in Before THEN iteration ELSE iteration + 1

Inv ==
    /\ Types /\ Tasks /\ Queues /\ Serving /\ Connection /\ SessionsHeld /\ Outcome /\ AtHand /\ Recorded
    /\ Comparable /\ AcceptedWasServed

-----------------------------------------------------------------------------
LEMMA OneMoreTicket ==
    ASSUME NEW q \in Seq(Nat), Distinct(q), NEW t \in Nat, t \notin Tickets(q)
    PROVE  /\ Append(q, t) \in Seq(Nat) /\ Append(q, t) # <<>>
           /\ Distinct(Append(q, t)) /\ Tickets(Append(q, t)) = Tickets(q) \cup {t}
<1> DEFINE r == Append(q, t)
           n == Len(q)
<1>1. /\ r \in Seq(Nat) /\ r # <<>> /\ n \in Nat /\ DOMAIN q = 1..n /\ DOMAIN r = 1..(n + 1)
      /\ r[n + 1] = t /\ \A i \in 1..n : r[i] = q[i]
  <2>1. r \in Seq(Nat) /\ n \in Nat /\ Len(r) = n + 1 /\ r[n + 1] = t
        /\ \A i \in 1..n : r[i] = q[i]
    OBVIOUS
  <2>2. r # <<>> /\ DOMAIN q = 1..n /\ DOMAIN r = 1..(n + 1)
    BY <2>1
  <2> QED BY <2>1, <2>2
<1>2. ASSUME NEW i \in 1..(n + 1) PROVE i \in 1..n \/ i = n + 1
  BY <1>1
<1> HIDE DEF r, n
<1>3. \A i \in 1..n : i \in 1..(n + 1)
  BY <1>1
<1>4. n + 1 \in 1..(n + 1)
  BY <1>1
<1>5. Distinct(r)
  BY <1>1, <1>2, <1>3 DEF Distinct, Tickets
<1>6. Tickets(r) = Tickets(q) \cup {t}
  BY <1>1, <1>2, <1>3, <1>4 DEF Tickets
<1> QED BY <1>1, <1>5, <1>6 DEF r

LEMMA LastTicketUsed ==
    ASSUME NEW q \in Seq(Nat), Distinct(q), q # <<>>
    PROVE  LET r == SubSeq(q, 1, Len(q) - 1)
           IN  /\ r \in Seq(Nat) /\ Distinct(r) /\ Tickets(r) \subseteq Tickets(q)
               /\ q[Len(q)] \in Tickets(q) /\ q[Len(q)] \notin Tickets(r)
               /\ q[Len(q)] \in Nat
<1> DEFINE n == Len(q)
           r == SubSeq(q, 1, n - 1)
<1>1. n \in Nat \ {0} /\ DOMAIN q = 1..n /\ n \in 1..n
  OBVIOUS
<1>2. /\ r \in Seq(Nat) /\ DOMAIN r = 1..(n - 1)
      /\ \A i \in 1..(n - 1) : r[i] = q[i] /\ i \in 1..n /\ i # n
  OBVIOUS
<1>3. q[n] \in Nat
  BY <1>1
<1> HIDE DEF r, n
<1> QED BY <1>1, <1>2, <1>3 DEF Distinct, Tickets, r, n

\* Sequence p is q with r after it.
Joined(p, q, r) ==
    /\ \E T : p \in Seq(T)
    /\ Len(p) = Len(q) + 1 /\ Len(q) \in Nat
    /\ DOMAIN p = 1..(Len(q) + 1) /\ DOMAIN q = 1..Len(q)
    /\ \A i \in 1..Len(q) : p[i] = q[i]
    /\ p[Len(q) + 1] = r

LEMMA OneMoreRecord ==
    ASSUME NEW S, NEW q \in Seq(S), NEW r
    PROVE  Joined(Append(q, r), q, r)
<1>1. q \in Seq(S \cup {r}) /\ r \in S \cup {r}
  OBVIOUS
<1>2. Append(q, r) \in Seq(S \cup {r})
  BY <1>1
<1> QED BY <1>1, <1>2 DEF Joined

\* What is recorded stays so, as long as no task is taken for one that never was.
LEMMA RecordsStay ==
    ASSUME Inv, records' = records, no_resumption' = no_resumption,
           round_trip' = round_trip, Calm' => Calm,
           \A n \in 0..Reconnects : serving[n] # "none" => serving'[n] # "none"
    PROVE  (Comparable /\ AcceptedWasServed)'
<1>1. \A k \in DOMAIN records : records[k].iteration = k - 1 /\ k - 1 \in 0..Reconnects
  <2>1. PICK S : records \in Seq(S)
    BY DEF Inv, Queues
  <2>2. Len(records) <= Reconnects + 1 /\ Len(records) \in Nat /\ DOMAIN records = 1..Len(records)
    BY <2>1, BaselineConstants DEF Inv, Types, Recorded
  <2> QED BY <2>2, BaselineConstants DEF Inv, Comparable
<1>2. Comparable'
  BY DEF Inv, Comparable
<1>3. AcceptedWasServed'
  BY <1>1 DEF Inv, AcceptedWasServed
<1> QED BY <1>2, <1>3

LEMMA InvStarts == Init => Inv
<1> SUFFICES ASSUME Init PROVE Inv
  OBVIOUS
<1>1. /\ no_resumption \in BOOLEAN /\ round_trip \in Nat
      /\ link = TRUE /\ outages = 0 /\ losses = 0 /\ delayed = FALSE
      /\ pc = "connect" /\ iteration = 0 /\ conn = "none" /\ early = FALSE /\ offered = 0
      /\ accepted = FALSE /\ flying = {} /\ issued = 0 /\ 0 \in 0..Reconnects
  BY BaselineConstants DEF Init
<1>2. Tasks /\ \A n \in 0..Reconnects : serving[n] = "none"
  BY DEF Init, Tasks
<1>3. cached = <<>> /\ records = <<>>
  BY DEF Init
<1>4. Types
  BY <1>1 DEF Types, Phases
<1>5. Queues
  BY <1>3 DEF Queues
<1>6. Serving /\ Connection /\ Outcome /\ AtHand
  BY <1>1, <1>2 DEF Serving, Connection, Outcome, AtHand, Resumes
<1>7. SessionsHeld
  <2>1. DOMAIN cached = {}
    BY <1>3
  <2> QED BY <1>1, <2>1 DEF SessionsHeld, Distinct, Tickets
<1>8. Recorded /\ Comparable /\ AcceptedWasServed
  <2>1. DOMAIN records = {} /\ Len(records) = 0
    BY <1>3
  <2> QED BY <1>1, <2>1 DEF Recorded, Before, Comparable, AcceptedWasServed
<1> QED BY <1>2, <1>4, <1>5, <1>6, <1>7, <1>8 DEF Inv

-----------------------------------------------------------------------------
LEMMA ConnectKeeps == ASSUME Inv, Connect PROVE Inv'
<1>1. /\ pc = "connect" /\ pc' = "handshake" /\ conn' = "open" /\ accepted' = FALSE
      /\ no_resumption' = no_resumption /\ round_trip' = round_trip /\ link' = link
      /\ outages' = outages /\ losses' = losses /\ delayed' = FALSE /\ Calm' = Calm
      /\ iteration' = iteration /\ flying' = flying /\ issued' = issued
      /\ sessions' = sessions /\ serving' = serving /\ records' = records
  BY DEF Connect, channelVars, serverVars, Calm
<1>2. flying = {} /\ conn = "none" /\ serving[iteration] = "none" /\ iteration \in 0..Reconnects
  BY <1>1 DEF Inv, Types, Connection, Serving
<1>3. \/ /\ Resumes /\ cached # <<>> /\ early' = TRUE
         /\ offered' = cached[Len(cached)] /\ cached' = SubSeq(cached, 1, Len(cached) - 1)
      \/ /\ ~(Resumes /\ cached # <<>>) /\ early' = FALSE
         /\ offered' = 0 /\ cached' = cached
  BY DEF Connect
<1>4. Types' /\ Queues' /\ SessionsHeld'
  <2>1. CASE Resumes /\ cached # <<>>
    <3>1. /\ cached' \in Seq(Nat) /\ Distinct(cached') /\ Tickets(cached') \subseteq Tickets(cached)
          /\ offered' \in Tickets(cached) /\ offered' \notin Tickets(cached') /\ offered' \in Nat
      <4>1. cached \in Seq(Nat) /\ Distinct(cached)
        BY DEF Inv, Queues, SessionsHeld
      <4>2. LET q == SubSeq(cached, 1, Len(cached) - 1)
                t == cached[Len(cached)]
            IN  /\ q \in Seq(Nat) /\ Distinct(q) /\ Tickets(q) \subseteq Tickets(cached)
                /\ t \in Tickets(cached) /\ t \notin Tickets(q) /\ t \in Nat
        BY <2>1, <4>1, LastTicketUsed
      <4>3. offered' = cached[Len(cached)] /\ cached' = SubSeq(cached, 1, Len(cached) - 1)
        BY <1>3, <2>1
      <4> QED BY <4>2, <4>3
    <3>2. Types'
      BY <1>1, <1>3, <2>1, <3>1 DEF Inv, Types, Phases
    <3>2q. Queues'
      BY <1>1, <3>1 DEF Inv, Queues
    <3>3. SessionsHeld'
      BY <1>1, <1>2, <3>1 DEF Inv, SessionsHeld
    <3> QED BY <3>2, <3>2q, <3>3
  <2>2. CASE ~(Resumes /\ cached # <<>>)
    <3>1. Types' /\ Queues'
      <4>1. early' = FALSE /\ offered' = 0 /\ cached' = cached
        BY <1>3, <2>2
      <4>2. Types'
        BY <1>1, <4>1 DEF Inv, Types, Phases
      <4>3. Queues'
        BY <1>1, <4>1 DEF Inv, Queues
      <4> QED BY <4>2, <4>3
    <3>2. ~(0 \in Tickets(cached))
      BY DEF Inv, SessionsHeld
    <3>3. SessionsHeld'
      BY <1>1, <1>2, <1>3, <2>2, <3>2 DEF Inv, SessionsHeld
    <3> QED BY <3>1, <3>3
  <2> QED BY <2>1, <2>2
<1>5. Tasks' /\ Serving' /\ Connection' /\ Outcome' /\ Recorded'
  BY <1>1, <1>2, <1>3 DEF Inv, Tasks, Serving, Connection, Outcome, Recorded, Before, Resumes
<1>6. AtHand'
  BY <1>1, <1>2, <1>3 DEF Inv, AtHand, Resumes
<1>7. (Comparable /\ AcceptedWasServed)'
  BY <1>1, RecordsStay
<1> QED BY <1>4, <1>5, <1>6, <1>7 DEF Inv

\* A record joins the others: what it says is what the invariant says of the handshake.
LEMMA EmitKeeps ==
    ASSUME Inv, pc = "handshake", NEW mode, NEW zrtt \in BOOLEAN, Emit(Record(mode, zrtt)),
           zrtt => accepted /\ mode = "0rtt",
           no_resumption => mode = "full-1rtt",
           ~no_resumption /\ iteration > 0 /\ Calm =>
               mode = "0rtt" /\ (round_trip < FRESHNESS - 1 => zrtt),
           Calm => serving[iteration] # "none"
    PROVE  Inv'
<1> DEFINE r == Record(mode, zrtt)
<1>1. /\ records' = Append(records, r) /\ pc' = (IF Resumes THEN "settle" ELSE "close")
      /\ no_resumption' = no_resumption /\ round_trip' = round_trip /\ link' = link
      /\ outages' = outages /\ losses' = losses /\ delayed' = delayed /\ Calm' = Calm
      /\ iteration' = iteration /\ conn' = conn /\ early' = early /\ offered' = offered
      /\ accepted' = accepted /\ cached' = cached /\ flying' = flying
      /\ issued' = issued /\ sessions' = sessions /\ serving' = serving
  BY DEF Emit, channelVars, serverVars, Calm
<1>2. r.iteration = iteration /\ r.mode = mode /\ r.zero_rtt_accepted = zrtt
  BY DEF Record
<1> HIDE DEF r
<1>3. PICK S : records \in Seq(S)
  BY DEF Inv, Queues
<1>4. /\ \E T : records' \in Seq(T)
      /\ Len(records') = Len(records) + 1 /\ Len(records) = iteration
      /\ DOMAIN records' = 1..(iteration + 1) /\ DOMAIN records = 1..iteration
      /\ \A i \in 1..iteration : records'[i] = records[i]
      /\ records'[iteration + 1] = r /\ iteration \in Nat
  <2>1. Len(records) = iteration
    BY DEF Inv, Recorded, Before
  <2>2. Joined(records', records, r)
    BY <1>1, <1>3, OneMoreRecord
  <2> QED BY <2>1, <2>2 DEF Joined
<1>5. Types' /\ Queues'
  <2>1. Types'
    BY <1>1 DEF Inv, Types, Phases
  <2>2. Queues'
    BY <1>1, <1>4 DEF Inv, Queues
  <2> QED BY <2>1, <2>2
<1>6. Tasks' /\ Serving' /\ Connection' /\ SessionsHeld' /\ Outcome'
  BY <1>1 DEF Inv, Tasks, Serving, Connection, SessionsHeld, Outcome, Resumes
<1>7. AtHand'
  BY <1>1 DEF Inv, AtHand, Resumes
<1>8. Recorded'
  BY <1>1, <1>4 DEF Inv, Recorded, Before
<1>9. ASSUME NEW k \in 1..(iteration + 1) PROVE k \in 1..iteration \/ k = iteration + 1
  BY <1>4
<1>10. Comparable'
  <2>1. ASSUME NEW k \in 1..(iteration + 1)
        PROVE  /\ records'[k].iteration = k - 1
               /\ no_resumption => records'[k].mode = "full-1rtt"
               /\ ~no_resumption /\ k > 1 /\ Calm =>
                      /\ records'[k].mode = "0rtt"
                      /\ round_trip < FRESHNESS - 1 => records'[k].zero_rtt_accepted
               /\ round_trip > FRESHNESS + 1 => ~records'[k].zero_rtt_accepted
    <3>1. CASE k \in 1..iteration
      BY <1>4, <3>1 DEF Inv, Comparable
    <3>2. CASE k = iteration + 1
      <4>1. records'[k] = r /\ k - 1 = iteration /\ (k > 1 => iteration > 0)
        BY <1>4, <3>2
      <4>2. round_trip > FRESHNESS + 1 => ~zrtt
        BY DEF Inv, Types, Outcome, FRESHNESS
      <4> QED BY <1>2, <4>1, <4>2
    <3> QED BY <1>9, <3>1, <3>2
  <2>2. Calm' = Calm /\ round_trip' = round_trip
    BY <1>1
  <2> QED BY <1>1, <1>4, <2>1, <2>2 DEF Comparable
<1>11. AcceptedWasServed'
  <2>1. ASSUME NEW k \in 1..(iteration + 1), records'[k].zero_rtt_accepted
        PROVE  records'[k].mode = "0rtt" /\ serving[records'[k].iteration] # "none"
    <3>1. CASE k \in 1..iteration
      BY <1>4, <2>1, <3>1 DEF Inv, AcceptedWasServed
    <3>2. CASE k = iteration + 1
      <4>1. records'[k] = r
        BY <1>4, <3>2
      <4>2. mode = "0rtt" /\ serving[iteration] # "none"
        BY <1>2, <2>1, <4>1 DEF Inv, Outcome
      <4> QED BY <1>2, <4>1, <4>2
    <3> QED BY <1>9, <3>1, <3>2
  <2> QED BY <1>1, <1>4, <2>1 DEF AcceptedWasServed
<1> QED BY <1>5, <1>6, <1>7, <1>8, <1>10, <1>11 DEF Inv

LEMMA AnswersKeep == ASSUME Inv, FullHandshake \/ ZeroRtt PROVE Inv'
<1>1. CASE FullHandshake
  <2>1. pc = "handshake" /\ ~early /\ serving[iteration] # "none" /\ Emit(Record("full-1rtt", FALSE))
    BY <1>1 DEF FullHandshake, Answered
  <2>2. ~(~no_resumption /\ iteration > 0 /\ Calm)
    BY <2>1 DEF Inv, AtHand, Resumes
  <2> QED BY <2>1, <2>2, EmitKeeps
<1>2. CASE ZeroRtt
  <2> DEFINE zrtt == accepted /\ conn = "open"
  <2>1. /\ pc = "handshake" /\ early /\ Emit(Record("0rtt", zrtt))
        /\ conn = "lost" \/ (conn = "open" /\ serving[iteration] # "none")
    BY <1>2 DEF ZeroRtt, ZeroRttIf, Answered
  <2>2. ~no_resumption /\ zrtt \in BOOLEAN /\ (zrtt => accepted)
    BY <2>1 DEF Inv, Types, Connection, Resumes
  <2>3. Calm => serving[iteration] # "none" /\ (round_trip < FRESHNESS - 1 => zrtt)
    BY <2>1 DEF Inv, Connection, Outcome
  <2> HIDE DEF zrtt
  <2> QED BY <2>1, <2>2, <2>3, EmitKeeps
<1> QED BY <1>1, <1>2

LEMMA ClientGoesOn == ASSUME Inv, HandshakeFails \/ Settle \/ Close \/ Blackout PROVE Inv'
<1>1. CASE HandshakeFails
  <2>1. /\ pc = "handshake" /\ pc' = "failed" /\ conn = "lost"
        /\ UNCHANGED <<no_resumption, round_trip, link, outages, losses, delayed, iteration,
                       conn, early, offered, accepted, cached, flying, issued, sessions,
                       serving, records>>
        /\ Calm' = Calm
    BY <1>1 DEF HandshakeFails, channelVars, serverVars, Calm
  <2>2. (Comparable /\ AcceptedWasServed)'
    BY <2>1, RecordsStay
  <2>3. Types' /\ Tasks' /\ Queues' /\ Serving' /\ Connection' /\ Recorded'
    BY <2>1 DEF Inv, Types, Phases, Tasks, Queues, Serving, Connection, Recorded, Before, Resumes
  <2>3a. SessionsHeld' /\ Outcome'
    BY <2>1 DEF Inv, Types, SessionsHeld, Outcome
  <2>4. AtHand'
    BY <2>1 DEF Inv, AtHand, Resumes
  <2> QED BY <2>2, <2>3, <2>3a, <2>4 DEF Inv
<1>2. CASE Settle
  <2>1. /\ pc = "settle" /\ pc' = "close" /\ (link /\ conn = "open" /\ ~delayed => flying = {})
        /\ UNCHANGED <<no_resumption, round_trip, link, outages, losses, delayed, iteration,
                       conn, early, offered, accepted, cached, flying, issued, sessions,
                       serving, records>>
        /\ Calm' = Calm
    BY <1>2 DEF Settle, SettleIf, channelVars, serverVars, Calm
  <2>2. (Comparable /\ AcceptedWasServed)'
    BY <2>1, RecordsStay
  <2>3. Types' /\ Tasks' /\ Queues' /\ Serving' /\ Connection' /\ Recorded'
    BY <2>1 DEF Inv, Types, Phases, Tasks, Queues, Serving, Connection, Recorded, Before, Resumes
  <2>3a. SessionsHeld' /\ Outcome'
    BY <2>1 DEF Inv, Types, SessionsHeld, Outcome
  <2>4. Calm => flying = {}
    BY <2>1 DEF Inv, Types, Connection
  <2>5. AtHand'
    BY <2>1, <2>4 DEF Inv, AtHand, Resumes
  <2> QED BY <2>2, <2>3, <2>3a, <2>5 DEF Inv
<1>3. CASE Close
  <2>1. /\ pc = "close" /\ pc' \in {"blackout", "done"} /\ conn' = "none" /\ flying' = {}
        /\ pc' = "blackout" => iteration < Reconnects
        /\ Tasks'
        /\ \A n \in 0..Reconnects : serving'[n] = "none" <=> serving[n] = "none"
        /\ UNCHANGED <<no_resumption, round_trip, link, outages, losses, delayed, iteration,
                       early, offered, accepted, cached, issued, sessions, records>>
        /\ Calm' = Calm
    BY <1>3 DEF Close, channelVars, Tasks, Calm
  <2>2. (Comparable /\ AcceptedWasServed)'
    BY <2>1, RecordsStay
  <2>3. Types' /\ Queues' /\ Serving' /\ Connection' /\ Recorded'
    BY <2>1 DEF Inv, Types, Phases, Queues, Serving, Connection, Recorded, Before, Resumes
  <2>3a. SessionsHeld' /\ Outcome'
    BY <2>1 DEF Inv, Types, SessionsHeld, Outcome
  <2>4. AtHand'
    BY <2>1 DEF Inv, Types, AtHand, Resumes
  <2> QED BY <2>1, <2>2, <2>3, <2>3a, <2>4 DEF Inv
<1>4. CASE Blackout
  <2>1. /\ pc = "blackout" /\ pc' = "connect" /\ iteration' = iteration + 1
        /\ UNCHANGED <<no_resumption, round_trip, link, outages, losses, delayed, conn, early,
                       offered, accepted, cached, flying, issued, sessions, serving, records>>
        /\ Calm' = Calm
    BY <1>4 DEF Blackout, channelVars, serverVars, Calm
  <2>2. (Comparable /\ AcceptedWasServed)'
    BY <2>1, RecordsStay
  <2>3. iteration' \in 0..Reconnects
    BY <2>1, BaselineConstants DEF Inv, Types, Serving
  <2>4. Types' /\ Tasks' /\ Queues' /\ Serving' /\ Connection' /\ Recorded'
    BY <2>1, <2>3, BaselineConstants
       DEF Inv, Types, Phases, Tasks, Queues, Serving, Connection, Recorded, Before, Resumes
  <2>4a. SessionsHeld' /\ Outcome'
    BY <2>1 DEF Inv, SessionsHeld, Outcome, Connection
  <2>5. AtHand'
    BY <2>1 DEF Inv, AtHand, Resumes
  <2> QED BY <2>2, <2>4, <2>4a, <2>5 DEF Inv
<1> QED BY <1>1, <1>2, <1>3, <1>4

-----------------------------------------------------------------------------
LEMMA ConnectionLostKeeps == ASSUME Inv, ConnectionLost PROVE Inv'
<1>1. /\ conn = "open" /\ (~link \/ delayed) /\ conn' = "lost" /\ flying' = {}
      /\ UNCHANGED <<no_resumption, round_trip, link, outages, losses, delayed, pc, iteration,
                     early, offered, accepted, cached, issued, sessions, records>>
      /\ Calm' = Calm
  BY DEF ConnectionLost, channelVars, Calm
<1>2. Tasks' /\ \A n \in 0..Reconnects : serving'[n] = "none" <=> serving[n] = "none"
  BY DEF ConnectionLost, Tasks
<1>3. ~Calm /\ iteration \in 0..Reconnects
  BY <1>1 DEF Inv, Types, Connection
<1>4. (Comparable /\ AcceptedWasServed)'
  BY <1>1, <1>2, RecordsStay
<1>5. Types' /\ Queues'
  BY <1>1 DEF Inv, Types, Queues
<1>6. Serving' /\ Connection' /\ Outcome'
  BY <1>1, <1>2, <1>3 DEF Inv, Serving, Connection, Outcome, Resumes
<1>7. SessionsHeld'
  BY <1>1, <1>2, <1>3 DEF Inv, SessionsHeld, Tickets, Distinct
<1>8. AtHand' /\ Recorded'
  BY <1>1, <1>3 DEF Inv, AtHand, Recorded, Before
<1> QED BY <1>2, <1>4, <1>5, <1>6, <1>7, <1>8 DEF Inv

LEMMA ServeKeeps == ASSUME Inv, Serve PROVE Inv'
<1> DEFINE new == (issued + 1)..(issued + TICKETS)
<1>1. /\ pc = "handshake" /\ conn = "open" /\ link /\ serving[iteration] = "none"
      /\ issued' = issued + TICKETS
      /\ sessions' = (sessions \ {offered}) \cup new
      /\ flying' = IF Resumes THEN new ELSE {}
      /\ UNCHANGED <<no_resumption, round_trip, link, outages, losses, delayed, pc, iteration,
                     conn, early, offered, cached, records>>
      /\ Calm' = Calm
  BY DEF Serve, channelVars, clientVars, Calm
<1>2. iteration \in 0..Reconnects /\ issued \in Nat
  BY DEF Inv, Types
<1>3. /\ Tasks' /\ serving'[iteration] = "open"
      /\ \A n \in 0..Reconnects : n # iteration => serving'[n] = serving[n]
  BY <1>2 DEF Serve, Inv, Tasks
<1>4. issued + 1 \in new /\ new \cap (1..issued) = {} /\ new \subseteq 1..(issued + TICKETS)
      /\ 1..issued \subseteq 1..(issued + TICKETS) /\ issued + TICKETS \in Nat
  BY <1>2 DEF TICKETS
<1> HIDE DEF new
<1>5. (Comparable /\ AcceptedWasServed)'
  <2>1. \A n \in 0..Reconnects : serving[n] # "none" => serving'[n] # "none"
    BY <1>3
  <2> QED BY <1>1, <2>1, RecordsStay
<1>6. Types' /\ Queues'
  <2>1. accepted' \in BOOLEAN
    BY DEF Serve
  <2>2. Types'
    BY <1>1, <1>4, <2>1 DEF Inv, Types
  <2>3. Queues'
    BY <1>1 DEF Inv, Queues
  <2> QED BY <2>2, <2>3
<1>7. Serving' /\ Connection'
  BY <1>1, <1>2, <1>3 DEF Inv, Serving, Connection, Resumes
<1>8. SessionsHeld'
  <2>1. Distinct(cached') /\ Tickets(cached') = Tickets(cached) /\ offered \notin Tickets(cached)
        /\ Tickets(cached) \subseteq sessions \cap (1..issued)
    BY <1>1 DEF Inv, SessionsHeld
  <2> QED BY <1>1, <1>3, <1>4, <2>1 DEF SessionsHeld
<1>9. Outcome'
  <2>1. early => offered \in sessions
    BY <1>1 DEF Inv, SessionsHeld
  <2>2. PICK fresh \in Freshness : accepted' = (early /\ offered \in sessions /\ fresh)
    BY DEF Serve
  <2>3. /\ fresh \in BOOLEAN /\ (fresh => round_trip <= FRESHNESS + 1)
        /\ Calm /\ round_trip < FRESHNESS - 1 => fresh
    BY DEF Freshness
  <2> QED BY <1>1, <1>3, <2>1, <2>2, <2>3 DEF Inv, Types, Outcome
<1>10. AtHand'
  BY <1>1, <1>4 DEF Inv, AtHand, Resumes
<1>11. Recorded'
  BY <1>1 DEF Inv, Recorded
<1> QED BY <1>3, <1>5, <1>6, <1>7, <1>8, <1>9, <1>10, <1>11 DEF Inv

LEMMA TicketKeeps == ASSUME Inv, TicketArrives PROVE Inv'
<1>1. PICK t \in flying : flying' = flying \ {t} /\ cached' = Append(cached, t)
  BY DEF TicketArrives
<1>2. UNCHANGED <<no_resumption, round_trip, link, outages, losses, delayed, pc, iteration,
                  conn, early, offered, accepted, issued, sessions, serving, records>>
  BY DEF TicketArrives, channelVars, clientVars, serverVars
<1>2a. Calm' = Calm
  BY <1>2 DEF Calm
<1>3. t \in sessions /\ t \in 1..issued /\ t \in Nat /\ t \notin Tickets(cached)
  BY <1>1 DEF Inv, SessionsHeld
<1>4. /\ cached' \in Seq(Nat) /\ cached' # <<>>
      /\ Distinct(cached') /\ Tickets(cached') = Tickets(cached) \cup {t}
  <2>1. cached \in Seq(Nat) /\ Distinct(cached)
    BY DEF Inv, Queues, SessionsHeld
  <2> QED BY <1>1, <1>3, <2>1, OneMoreTicket
<1>5. serving[iteration] # "none"
  BY <1>1 DEF Inv, Connection
<1>6. (Comparable /\ AcceptedWasServed)'
  BY <1>2, <1>2a, RecordsStay
<1>7. Types' /\ Tasks' /\ Serving' /\ Outcome' /\ Recorded'
  BY <1>2, <1>2a DEF Inv, Types, Tasks, Serving, Outcome, Recorded
<1>8. Queues'
  BY <1>2, <1>4 DEF Inv, Queues
<1>9. Connection'
  BY <1>1, <1>2, <1>2a DEF Inv, Connection, Resumes
<1>10. SessionsHeld'
  BY <1>1, <1>2, <1>3, <1>4, <1>5 DEF Inv, SessionsHeld
<1>11. AtHand'
  BY <1>2, <1>2a, <1>4 DEF Inv, AtHand, Resumes
<1> QED BY <1>6, <1>7, <1>8, <1>9, <1>10, <1>11 DEF Inv

\* The end of a task, the link's going and coming, and a loss.
LEMMA OthersKeep ==
    ASSUME Inv,
           \/ \E n \in 0..Reconnects : HandleConnection(n)
           \/ LinkFails \/ LinkReturns \/ PacketLost \/ UNCHANGED vars
    PROVE  Inv'
<1>1. UNCHANGED <<no_resumption, round_trip, pc, iteration, conn, early, offered, accepted, cached,
                  flying, issued, sessions, records>>
  BY DEF HandleConnection, EndIf, LinkFails, LinkReturns, PacketLost, vars, channelVars,
         clientVars, serverVars
<1>2. Tasks' /\ \A n \in 0..Reconnects : serving'[n] = "none" <=> serving[n] = "none"
  <2>1. CASE \E n \in 0..Reconnects : HandleConnection(n)
    BY <2>1 DEF HandleConnection, EndIf, Inv, Tasks
  <2>2. CASE serving' = serving
    BY <2>2 DEF Inv, Tasks
  <2> QED BY <2>1, <2>2 DEF LinkFails, LinkReturns, PacketLost, vars, serverVars
<1>3. /\ link' \in BOOLEAN /\ outages' \in Nat /\ losses' \in Nat /\ delayed' \in BOOLEAN
      /\ Calm' => Calm /\ link' = link /\ delayed' = delayed
  <2>1. /\ link \in BOOLEAN /\ outages \in Nat /\ losses \in Nat /\ delayed \in BOOLEAN
        /\ Calm => link
    BY DEF Inv, Types, Connection
  <2>2. outages + 1 \in Nat /\ outages + 1 # 0 /\ losses + 1 \in Nat /\ losses + 1 # 0
    BY <2>1
  <2>3. CASE UNCHANGED <<link, outages, losses, delayed>>
    BY <2>1, <2>3 DEF Calm
  <2>4. CASE LinkFails
    BY <2>1, <2>2, <2>4 DEF LinkFails, clientVars, Calm
  <2>5. CASE LinkReturns
    BY <2>1, <2>5 DEF LinkReturns, clientVars, Calm
  <2>6. CASE PacketLost
    BY <2>1, <2>2, <2>6 DEF PacketLost, Calm
  <2> QED BY <2>3, <2>4, <2>5, <2>6 DEF HandleConnection, EndIf, vars, channelVars, clientVars
<1>4. iteration \in 0..Reconnects
  BY DEF Inv, Types
<1>5. (Comparable /\ AcceptedWasServed)'
  BY <1>1, <1>2, <1>3, RecordsStay
<1>6. Types' /\ Queues' /\ Recorded'
  BY <1>1, <1>3 DEF Inv, Types, Queues, Recorded
<1>7. Serving' /\ Connection'
  BY <1>1, <1>2, <1>3, <1>4 DEF Inv, Serving, Connection, Resumes
<1>8. SessionsHeld' /\ Outcome'
  <2>1. SessionsHeld'
    BY <1>1, <1>2, <1>4 DEF Inv, SessionsHeld
  <2>2. Outcome'
    BY <1>1, <1>2, <1>3, <1>4 DEF Inv, Outcome
  <2> QED BY <2>1, <2>2
<1>9. AtHand'
  BY <1>1, <1>2, <1>3, <1>4 DEF Inv, AtHand, Resumes
<1> QED BY <1>2, <1>5, <1>6, <1>7, <1>8, <1>9 DEF Inv

LEMMA InvHolds == Spec => []Inv
<1>1. ASSUME Inv, [Next]_vars PROVE Inv'
  BY <1>1, ConnectKeeps, AnswersKeep, ClientGoesOn, ConnectionLostKeeps, ServeKeeps, TicketKeeps,
     OthersKeep DEF Next, Client, Server
<1> QED BY <1>1, InvStarts, PTL DEF Spec

-----------------------------------------------------------------------------
\* However many reconnections there are: without resumption every connection is recorded as
\* a full handshake; with it, with no outage or loss, every reconnection as 0-RTT, which the
\* server takes if the round trip is below its limit for a ticket's age; and above that limit
\* it takes none.
THEOREM RecordsCompare == Spec => []Comparable
<1>1. Inv => Comparable
  BY DEF Inv
<1> QED BY <1>1, InvHolds, PTL

\* No record claims a 0-RTT the server did not serve, whatever the outages and losses.
THEOREM NoSuccessUnserved == Spec => []AcceptedWasServed
<1>1. Inv => AcceptedWasServed
  BY DEF Inv
<1> QED BY <1>1, InvHolds, PTL
=============================================================================

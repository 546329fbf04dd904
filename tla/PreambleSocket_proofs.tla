------------------------ MODULE PreambleSocket_proofs ------------------------
(***************************************************************************)
(* poll_recv never sleeps over work, for every batch size, budget and      *)
(* number of datagrams.                                                    *)
(*                                                                         *)
(* While tokio takes the socket for not ready, whatever is in it has an    *)
(* event still to be seen (Announced); and the endpoint rests only in such *)
(* a state, with its waker registered (Rests).                             *)
(***************************************************************************)
EXTENDS PreambleSocket, PreambleSend, SequenceTheorems, TLAPS

Room == task = "recv" => filled < Batch

Announced == ~ready /\ (taken < Len(arrived) \/ SocketError) => event

Resting == task = "parked" \/ (task = "pending" /\ ~woken)

Rests == Resting => waker /\ ~ready /\ (fault = "shutdown" => event)

Inv == TypeOK /\ Room /\ Announced /\ Rests

-----------------------------------------------------------------------------
LEMMA InvStarts == Init => Inv
<1> SUFFICES ASSUME Init PROVE Inv
  OBVIOUS
<1>1. bufs \in [1..Batch -> Nat] /\ filled \in 0..Batch /\ coop \in 0..Coop
  BY SocketConstants DEF Init
<1>2. /\ arrived \in Seq(Kinds) /\ taken \in 0..Len(arrived)
      /\ sunk \in Seq(Nat) /\ handed \in Seq(Nat)
  BY DEF Init
<1>3. TypeOK
  BY <1>1, <1>2 DEF Init, TypeOK
<1> QED BY <1>3 DEF Init, Inv, Room, Announced, SocketError, Resting, Rests

LEMMA BufsAreASequence ==
    ASSUME TypeOK
    PROVE  bufs \in Seq(Nat) /\ Len(bufs) = Batch /\ filled \in 0..Batch
<1>1. bufs = [i \in 1..Batch |-> bufs[i]] /\ \A i \in 1..Batch : bufs[i] \in Nat
  BY DEF TypeOK
<1>2. ASSUME NEW f, \A i \in 1..Batch : f[i] \in Nat
      PROVE  /\ [i \in 1..Batch |-> f[i]] \in Seq(Nat)
             /\ Len([i \in 1..Batch |-> f[i]]) = Batch
  BY <1>2, SocketConstants
<1>3. filled \in 0..Batch
  BY DEF TypeOK
<1> QED BY <1>1, <1>2, <1>3

\* What quinn is handed when a poll returns.
LEMMA FilledIsASequence ==
    ASSUME TypeOK, ReturnFilled
    PROVE  handed' \in Seq(Nat) /\ filled' = 0 /\ task' = "runnable"
<1>1. bufs \in Seq(Nat) /\ Len(bufs) = Batch /\ filled \in 0..Batch
  BY BufsAreASequence
<1>2. SubSeq(bufs, 1, filled) \in Seq(Nat)
  BY <1>1, SocketConstants
<1> QED BY <1>2 DEF ReturnFilled, TypeOK

LEMMA ErrorOrFilled ==
    ASSUME TypeOK, ReturnError
    PROVE  /\ handed' \in Seq(Nat) /\ filled' \in 0..Batch
           /\ task' \in {"runnable", "failed"}
<1>1. CASE filled > 0
  BY <1>1, FilledIsASequence, SocketConstants DEF ReturnError
<1>2. CASE ~(filled > 0)
  BY <1>2 DEF ReturnError, TypeOK
<1> QED BY <1>1, <1>2

LEMMA ArriveKeeps == ASSUME Inv, Arrive PROVE Inv'
<1>1. arrived' \in Seq(Kinds) /\ Len(arrived') = Len(arrived) + 1 /\ event' = TRUE
  BY DEF Inv, TypeOK, Arrive
<1>2. TypeOK'
  <2>1. taken' \in 0..Len(arrived')
    BY <1>1 DEF Inv, TypeOK, Arrive
  <2> QED BY <1>1, <2>1 DEF Inv, TypeOK, Arrive, ioVars, callVars, outVars
<1> QED BY <1>1, <1>2
        DEF Inv, Arrive, ioVars, callVars, Room, Announced, Resting, Rests

LEMMA FailKeeps == ASSUME Inv, Fail PROVE Inv'
<1>1. TypeOK'
  BY DEF Inv, TypeOK, Fail, ioVars, callVars, outVars
<1> QED BY <1>1 DEF Inv, Fail, ioVars, callVars, Room, Announced, Resting, Rests

LEMMA DriveKeeps == ASSUME Inv, Drive PROVE Inv'
<1>1. TypeOK'
  BY DEF Inv, TypeOK, Drive, netVars, callVars, outVars
<1> QED BY <1>1 DEF Inv, TypeOK, Drive, netVars, callVars, Room, Announced, Resting, Rests

LEMMA PollKeeps == ASSUME Inv, Poll PROVE Inv'
<1>1. filled' \in 0..Batch /\ coop' \in 0..Coop
  BY SocketConstants DEF Poll
<1>2. TypeOK'
  BY <1>1 DEF Inv, TypeOK, Poll, netVars, outVars
<1> QED BY <1>2 DEF Inv, Poll, netVars, Room, Announced, SocketError, Resting, Rests

LEMMA BatchFullKeeps == ASSUME Inv, BatchFull PROVE Inv'
<1>1. handed' \in Seq(Nat) /\ filled' = 0 /\ task' = "runnable"
  BY FilledIsASequence DEF Inv, BatchFull
<1>2. TypeOK'
  BY <1>1, SocketConstants DEF Inv, TypeOK, BatchFull, netVars, ioVars
<1> QED BY <1>1, <1>2
        DEF Inv, BatchFull, netVars, ioVars, Room, Announced, SocketError, Resting, Rests

\* Pending with budget left registers the waker, without budget wakes at once.
LEMMA CheckReadyKeeps == ASSUME Inv, CheckReady PROVE Inv'
<1> USE DEF Inv, CheckReady
<1>1. /\ task = "check" /\ filled \in 0..Batch /\ filled < Batch /\ coop \in 0..Coop
      /\ UNCHANGED <<netVars, taken, event, ready, bufs, sink, sunk>>
  BY SocketConstants DEF Full, TypeOK
<1>2. /\ arrived' = arrived /\ fault' = fault /\ resets' = resets /\ taken' = taken
      /\ event' = event /\ ready' = ready /\ bufs' = bufs /\ sink' = sink /\ sunk' = sunk
  BY <1>1 DEF netVars
<1>3. Announced'
  BY <1>2 DEF Announced, SocketError
<1>4. CASE coop > 0 /\ fault # "shutdown" /\ ready
  <2>1. /\ task' = "recv" /\ coop' = coop - 1 /\ coop' \in 0..Coop
        /\ waker' = waker /\ woken' = woken /\ filled' = filled /\ handed' = handed
    BY <1>1, <1>4, SocketConstants
  <2>2. TypeOK'
    BY <1>2, <2>1 DEF TypeOK
  <2> QED BY <1>1, <1>3, <2>1, <2>2 DEF Room, Resting, Rests
<1>5. CASE ~(coop > 0 /\ fault # "shutdown" /\ ready) /\ coop > 0 /\ fault = "shutdown"
  <2>1. coop' = coop /\ waker' = waker /\ woken' = woken /\ ReturnError
    BY <1>5
  <2>2. /\ handed' \in Seq(Nat) /\ filled' \in 0..Batch /\ task' \in {"runnable", "failed"}
    BY <2>1, ErrorOrFilled
  <2>3. TypeOK'
    BY <1>2, <2>1, <2>2 DEF TypeOK
  <2> QED BY <1>3, <2>2, <2>3 DEF Room, Resting, Rests
<1>6. CASE ~(coop > 0 /\ fault # "shutdown" /\ ready) /\ ~(coop > 0 /\ fault = "shutdown")
  <2>1. /\ coop' = coop
        /\ waker' = (waker \/ coop > 0) /\ woken' = (woken \/ coop = 0)
        /\ \/ ReturnFilled
           \/ task' = "pending" /\ filled' = filled /\ handed' = handed
    BY <1>6
  <2>2. waker' \in BOOLEAN /\ woken' \in BOOLEAN
    BY <2>1
  <2>3. CASE ReturnFilled
    <3>1. handed' \in Seq(Nat) /\ filled' = 0 /\ task' = "runnable"
      BY <2>3, FilledIsASequence
    <3>2. TypeOK'
      <4>1. filled' \in 0..Batch /\ coop' \in 0..Coop
        BY <1>1, <2>1, <3>1, SocketConstants
      <4> HIDE DEF CheckReady
      <4> QED BY <1>2, <2>2, <3>1, <4>1 DEF TypeOK
    <3> QED BY <1>3, <3>1, <3>2 DEF Room, Resting, Rests
  <2>4. CASE task' = "pending" /\ filled' = filled /\ handed' = handed
    <3>1. TypeOK'
      BY <1>2, <2>1, <2>2, <2>4 DEF TypeOK
    <3>2. CASE coop > 0
      <4>1. ~ready /\ fault # "shutdown"
        BY <1>6, <3>2
      <4>2. waker'
        BY <2>1, <3>2
      <4> QED BY <1>2, <1>3, <2>4, <3>1, <4>1, <4>2 DEF Room, Resting, Rests
    <3>3. CASE ~(coop > 0)
      <4>1. coop = 0
        BY <1>1, <3>3, SocketConstants
      <4>2. woken' = TRUE
        BY <2>1, <4>1
      <4> QED BY <1>3, <2>4, <3>1, <4>2 DEF Room, Resting, Rests
    <3> QED BY <3>2, <3>3
  <2> QED BY <2>1, <2>3, <2>4
<1> QED BY <1>4, <1>5, <1>6

LEMMA RecvErrorKeeps == ASSUME Inv, RecvError PROVE Inv'
<1> USE DEF Inv, RecvError
<1>1. handed' \in Seq(Nat) /\ filled' \in 0..Batch /\ task' \in {"runnable", "failed"}
  BY ErrorOrFilled
<1>2. TypeOK'
  BY <1>1 DEF TypeOK, ioVars
<1> QED BY <1>1, <1>2 DEF ioVars, Room, Announced, SocketError, Resting, Rests

LEMMA RecvKeeps == ASSUME Inv, Recv PROVE Inv'
<1> USE DEF Inv, Recv, RecvInto
<1>1. /\ task = "recv" /\ filled \in 0..Batch /\ filled < Batch
      /\ taken \in Nat /\ Len(arrived) \in Nat /\ taken < Len(arrived)
  BY DEF Room, TypeOK
<1>2. taken' = taken + 1 /\ taken' \in 0..Len(arrived) /\ task' = "check"
      /\ arrived' = arrived /\ fault' = fault /\ ready' = ready /\ event' = event
  BY <1>1 DEF netVars, ioVars
<1>3. filled' \in 0..Batch
  <2>1. filled' = filled + 0 \/ filled' = filled + 1
    BY DEF IsPreamble
  <2> QED BY <1>1, <2>1, SocketConstants
<1>4. sunk' \in Seq(Nat)
  <2>1. sunk \in Seq(Nat) /\ taken + 1 \in Nat
    BY <1>1 DEF TypeOK
  <2>2. sunk' = Append(sunk, taken + 1) \/ sunk' = sunk
    BY DEF ToSink
  <2>3. ASSUME NEW sq \in Seq(Nat), NEW n \in Nat PROVE Append(sq, n) \in Seq(Nat)
    BY <2>3
  <2> HIDE DEF Inv, Recv, RecvInto
  <2> QED BY <2>1, <2>2, <2>3
<1>5. bufs' \in [1..Batch -> Nat]
  <2>1. bufs \in [1..Batch -> Nat] /\ bufs' = [bufs EXCEPT ![filled + 1] = taken + 1]
    BY DEF TypeOK
  <2>2. filled + 1 \in 1..Batch /\ taken + 1 \in Nat
    BY <1>1, SocketConstants
  <2>3. ASSUME NEW S, NEW f \in [S -> Nat], NEW i \in S, NEW n \in Nat
        PROVE  [f EXCEPT ![i] = n] \in [S -> Nat]
    BY <2>3
  <2> HIDE DEF Inv, Recv, RecvInto
  <2> QED BY <2>1, <2>2, <2>3
<1>6. TypeOK'
  BY <1>2, <1>3, <1>4, <1>5 DEF TypeOK, netVars, ioVars
<1> QED BY <1>1, <1>2, <1>6 DEF Room, Announced, SocketError, Resting, Rests

\* WouldBlock: readiness is taken back when the socket is empty.
LEMMA WouldBlockKeeps == ASSUME Inv, WouldBlock PROVE Inv'
<1> USE DEF Inv, WouldBlock, Empty
<1>1. handed' \in Seq(Nat) /\ filled' \in 0..Batch /\ task' \in {"runnable", "check"}
  <2>1. CASE filled > 0
    BY <2>1, FilledIsASequence, SocketConstants
  <2>2. CASE ~(filled > 0)
    BY <2>2 DEF TypeOK
  <2> QED BY <2>1, <2>2
<1>2. TypeOK'
  BY <1>1 DEF TypeOK, netVars
<1>3. Announced'
  BY DEF Announced, SocketError, netVars, TypeOK
<1> QED BY <1>1, <1>2, <1>3 DEF Room, Resting, Rests

LEMMA ParkKeeps == ASSUME Inv, Park PROVE Inv'
<1>1. TypeOK'
  BY DEF Inv, TypeOK, Park, netVars, callVars, outVars
<1> QED BY <1>1
        DEF Inv, Park, netVars, callVars, Room, Announced, SocketError, Resting, Rests

LEMMA InvKept == ASSUME Inv, [Next]_vars PROVE Inv'
<1>1. CASE UNCHANGED vars
  <2>1. TypeOK'
    BY <1>1 DEF Inv, TypeOK, vars, netVars, ioVars, callVars, outVars
  <2> QED BY <1>1, <2>1 DEF Inv, vars, netVars, ioVars, callVars, outVars,
                            Room, Announced, SocketError, Resting, Rests
<1> QED BY <1>1, ArriveKeeps, FailKeeps, DriveKeeps, PollKeeps, BatchFullKeeps,
           CheckReadyKeeps, RecvErrorKeeps, RecvKeeps, WouldBlockKeeps, ParkKeeps
        DEF Next, TaskStep

LEMMA InvHolds == Spec => []Inv
BY InvStarts, InvKept, PTL DEF Spec

\* Types; poll_recv never fills more buffers than it was given (preamble.rs:182).
THEOREM TypeCorrect == Spec => []TypeOK
BY InvHolds, PTL DEF Inv

\* The endpoint task never sleeps while there is something to read, unless the event
\* that will wake it is on its way (preamble.rs:211-216).
THEOREM NeverSleepsOverWork == Spec => []NoLostWakeup
<1>1. ASSUME Inv PROVE NoLostWakeup
  BY <1>1 DEF Inv, TypeOK, NoLostWakeup, Announced, SocketError, Resting, Rests
<1> QED BY <1>1, InvHolds, PTL

-----------------------------------------------------------------------------
(* Each datagram to its reader.  Between two polls nothing is left in the  *)
(* buffers (AtRest), so that the poll that sets filled back loses nothing. *)

AtRest == task \in {"runnable", "pending", "parked", "failed"} => filled = 0

Ranged(s) == {s[i] : i \in DOMAIN s}
Due(kinds) == {n \in 1..taken : arrived[n] \in kinds}

\* A sequence that holds a set up to m, in order, and then gets m + 1.
LEMMA OneMore ==
    ASSUME NEW s \in Seq(Nat), Increasing(s), NEW m \in Nat, \A i \in DOMAIN s : s[i] <= m
    PROVE  Increasing(Append(s, m + 1)) /\ Ranged(Append(s, m + 1)) = Ranged(s) \cup {m + 1}
<1>1. /\ DOMAIN s = 1..Len(s) /\ Len(s) \in Nat
      /\ DOMAIN Append(s, m + 1) = 1..(Len(s) + 1)
      /\ \A i \in 1..Len(s) : Append(s, m + 1)[i] = s[i] /\ s[i] \in Nat
      /\ Append(s, m + 1)[Len(s) + 1] = m + 1
  OBVIOUS
<1> DEFINE t == Append(s, m + 1)
<1>2. /\ DOMAIN t = 1..(Len(s) + 1) /\ t[Len(s) + 1] = m + 1
      /\ \A i \in 1..Len(s) : t[i] = s[i]
  BY <1>1
<1> HIDE DEF t
<1>3. Ranged(t) = Ranged(s) \cup {m + 1}
  BY <1>1, <1>2 DEF Ranged
<1>4. Increasing(t)
  <2> SUFFICES ASSUME NEW i \in DOMAIN t, NEW j \in DOMAIN t, i < j PROVE t[i] < t[j]
    BY DEF Increasing
  <2>1. i \in 1..Len(s) /\ t[i] = s[i] /\ s[i] <= m /\ s[i] \in Nat
    BY <1>1, <1>2
  <2>2. CASE j \in 1..Len(s)
    BY <1>1, <1>2, <2>1, <2>2 DEF Increasing
  <2>3. CASE j = Len(s) + 1
    BY <1>2, <2>1, <2>3
  <2> QED BY <1>1, <1>2, <2>2, <2>3
<1> QED BY <1>3, <1>4 DEF t

LEMMA NothingHeld ==
    ASSUME NEW h \in Seq(Nat), NEW b \in Seq(Nat)
    PROVE  h \o SubSeq(b, 1, 0) = h
<1>1. SubSeq(b, 1, 0) = <<>>
  OBVIOUS
<1> QED BY <1>1, ConcatEmptySeq

LEMMA NextBuffer ==
    ASSUME NEW h \in Seq(Nat), NEW b \in Seq(Nat), NEW f \in Nat, f < Len(b), NEW n \in Nat
    PROVE  /\ SubSeq([b EXCEPT ![f + 1] = n], 1, f) = SubSeq(b, 1, f)
           /\ h \o SubSeq([b EXCEPT ![f + 1] = n], 1, f + 1) = Append(h \o SubSeq(b, 1, f), n)
<1> DEFINE c == [b EXCEPT ![f + 1] = n]
<1>1. c \in Seq(Nat) /\ Len(c) = Len(b)
  OBVIOUS
<1>2. SubSeq(c, 1, f) = SubSeq(b, 1, f)
  OBVIOUS
<1>3. SubSeq(c, 1, f + 1) = Append(SubSeq(b, 1, f), n)
  OBVIOUS
<1>4. SubSeq(b, 1, f) \in Seq(Nat)
  OBVIOUS
<1>5. ASSUME NEW s \in Seq(Nat) PROVE h \o Append(s, n) = Append(h \o s, n)
  OBVIOUS
<1> QED BY <1>2, <1>3, <1>4, <1>5

\* A poll gives back what it holds, or holds on to it.
LEMMA GivenBack ==
    ASSUME TypeOK, ReturnFilled, bufs' = bufs
    PROVE  ForQuinn' = ForQuinn /\ filled' = 0
<1>1. bufs \in Seq(Nat) /\ SubSeq(bufs, 1, filled) \in Seq(Nat) /\ handed \in Seq(Nat)
  BY BufsAreASequence DEF TypeOK
<1>2. handed \o SubSeq(bufs, 1, filled) \in Seq(Nat)
  BY <1>1, ConcatProperties
<1>3. filled' = 0 /\ handed' = handed \o SubSeq(bufs, 1, filled)
  BY DEF ReturnFilled
<1> QED BY <1>1, <1>2, <1>3, NothingHeld DEF ForQuinn

LEMMA ErrorGivesBack ==
    ASSUME TypeOK, ReturnError, bufs' = bufs
    PROVE  ForQuinn' = ForQuinn /\ filled' = 0
<1>1. CASE filled > 0
  BY <1>1, GivenBack DEF ReturnError
<1>2. CASE ~(filled > 0)
  BY <1>2 DEF ReturnError, TypeOK, ForQuinn
<1> QED BY <1>1, <1>2

\* Every step but Recv takes nothing and gives nothing away.
Undisturbed ==
    /\ ForQuinn' = ForQuinn /\ AtRest'
    /\ sunk' = sunk /\ sink' = sink /\ taken' = taken
    /\ \A n \in 1..taken : arrived'[n] = arrived[n]

LEMMA OthersDoNotDisturb ==
    ASSUME Inv, AtRest, [Next]_vars, ~Recv
    PROVE  Undisturbed
<1>1. CASE Arrive
  <2>1. \A n \in 1..taken : arrived'[n] = arrived[n]
    BY <1>1 DEF Inv, TypeOK, Arrive
  <2> QED BY <1>1, <2>1
          DEF Arrive, Undisturbed, ForQuinn, AtRest, callVars, outVars
<1>2. CASE Fail \/ Drive \/ UNCHANGED vars
  BY <1>2 DEF Fail, Drive, vars, netVars, callVars, outVars, Undisturbed, ForQuinn, AtRest
<1>3. CASE Poll
  BY <1>3 DEF Poll, netVars, outVars, Undisturbed, ForQuinn, AtRest
<1>4. CASE BatchFull
  <2>1. ReturnFilled /\ UNCHANGED <<netVars, taken, bufs, sink, sunk>>
    BY <1>4 DEF BatchFull
  <2> QED BY <2>1, GivenBack DEF Inv, netVars, Undisturbed, AtRest
<1>5. CASE CheckReady
  <2>1. UNCHANGED <<netVars, taken, bufs, sink, sunk>>
    BY <1>5 DEF CheckReady
  <2>2. \/ ReturnError \/ ReturnFilled
        \/ task' = "recv" /\ UNCHANGED <<filled, handed>>
        \/ ~(filled > 0) /\ UNCHANGED <<filled, handed>>
    BY <1>5 DEF CheckReady
  <2>3. ForQuinn' = ForQuinn /\ AtRest'
    <3>1. CASE ReturnError \/ ReturnFilled
      BY <2>1, <3>1, GivenBack, ErrorGivesBack DEF Inv, AtRest
    <3>2. CASE task' = "recv" /\ UNCHANGED <<filled, handed>>
      BY <2>1, <3>2 DEF ForQuinn, AtRest
    <3>3. CASE ~(filled > 0) /\ UNCHANGED <<filled, handed>>
      <4>1. filled = 0
        BY <3>3, SocketConstants DEF Inv, TypeOK
      <4> QED BY <2>1, <3>3, <4>1 DEF ForQuinn, AtRest
    <3> QED BY <2>2, <3>1, <3>2, <3>3
  <2> QED BY <2>1, <2>3 DEF netVars, Undisturbed
<1>6. CASE RecvError
  <2>1. ReturnError /\ UNCHANGED <<arrived, taken, bufs, sink, sunk>>
    BY <1>6 DEF RecvError
  <2> QED BY <2>1, ErrorGivesBack DEF Inv, Undisturbed, AtRest
<1>7. CASE WouldBlock
  <2>1. UNCHANGED <<netVars, taken, bufs, sink, sunk>>
    BY <1>7 DEF WouldBlock, Empty
  <2>2. ReturnFilled \/ (task' = "check" /\ UNCHANGED <<filled, handed>>)
    BY <1>7, Zenon DEF WouldBlock, Empty
  <2>3. ForQuinn' = ForQuinn /\ AtRest'
    <3>1. CASE ReturnFilled
      BY <2>1, <3>1, GivenBack DEF Inv, AtRest
    <3>2. CASE task' = "check" /\ UNCHANGED <<filled, handed>>
      BY <2>1, <3>2 DEF ForQuinn, AtRest
    <3> QED BY <2>2, <3>1, <3>2
  <2> QED BY <2>1, <2>3 DEF netVars, Undisturbed
<1>8. CASE Park
  BY <1>8 DEF Park, netVars, callVars, outVars, Undisturbed, ForQuinn, AtRest
<1> QED BY <1>1, <1>2, <1>3, <1>4, <1>5, <1>6, <1>7, <1>8 DEF Next, TaskStep

\* Recv gives the next datagram to one of the two.
LEMMA RecvGives ==
    ASSUME Inv, Recv
    PROVE  /\ taken' = taken + 1 /\ arrived' = arrived /\ sink' = sink /\ AtRest'
           /\ ForQuinn' = IF arrived[taken + 1] \in {"packet", "empty"}
                          THEN Append(ForQuinn, taken + 1) ELSE ForQuinn
           /\ sunk' = IF sink /\ arrived[taken + 1] = "window"
                      THEN Append(sunk, taken + 1) ELSE sunk
<1>1. /\ taken' = taken + 1 /\ arrived' = arrived /\ sink' = sink /\ task' = "check"
      /\ handed' = handed /\ bufs' = [bufs EXCEPT ![filled + 1] = taken + 1]
      /\ filled' = filled + (IF IsPreamble(arrived[taken + 1]) THEN 0 ELSE 1)
      /\ sunk' = IF IsPreamble(arrived[taken + 1]) /\ arrived[taken + 1] = "window" /\ sink
                 THEN Append(sunk, taken + 1) ELSE sunk
      /\ filled < Batch /\ taken < Len(arrived)
  BY DEF Inv, Room, Recv, RecvInto, ToSink, netVars
<1>2. arrived[taken + 1] \in Kinds /\ taken \in Nat /\ handed \in Seq(Nat)
  BY <1>1 DEF Inv, TypeOK
<1>3. IsPreamble(arrived[taken + 1]) <=> arrived[taken + 1] \in {"window", "junk"}
  BY <1>2 DEF IsPreamble, is_preamble_marker, FirstByte, Kinds
<1>4. bufs \in Seq(Nat) /\ Len(bufs) = Batch /\ filled \in Nat
  BY BufsAreASequence, SocketConstants DEF Inv
<1>5. /\ SubSeq(bufs', 1, filled) = SubSeq(bufs, 1, filled)
      /\ handed \o SubSeq(bufs', 1, filled + 1) = Append(ForQuinn, taken + 1)
  <2>1. taken + 1 \in Nat
    BY <1>2
  <2> QED BY <1>1, <1>2, <1>4, <2>1, NextBuffer DEF ForQuinn
<1>6. ForQuinn' = IF arrived[taken + 1] \in {"packet", "empty"}
                  THEN Append(ForQuinn, taken + 1) ELSE ForQuinn
  <2>1. CASE arrived[taken + 1] \in {"packet", "empty"}
    <3>1. filled' = filled + 1
      BY <1>1, <1>3, <2>1
    <3> QED BY <1>1, <1>5, <2>1, <3>1 DEF ForQuinn
  <2>2. CASE arrived[taken + 1] \notin {"packet", "empty"}
    <3>1. filled' = filled
      BY <1>1, <1>2, <1>3, <1>4, <2>2 DEF Kinds
    <3> QED BY <1>1, <1>5, <2>2, <3>1 DEF ForQuinn
  <2> QED BY <2>1, <2>2
<1> QED BY <1>1, <1>3, <1>6 DEF AtRest

-----------------------------------------------------------------------------
\* A reader has got what it is due of the datagrams taken so far, each once and in
\* order.
Served(s, kinds) == s \in Seq(Nat) /\ Ranged(s) = Due(kinds) /\ Increasing(s)

SinkDue == IF sink THEN {"window"} ELSE {}

LEMMA DueNext ==
    ASSUME NEW kinds, taken \in Nat, taken' = taken + 1, arrived' = arrived
    PROVE  Due(kinds)' = Due(kinds) \cup
                            (IF arrived[taken + 1] \in kinds THEN {taken + 1} ELSE {})
BY DEF Due

LEMMA ServedNext ==
    ASSUME NEW s, NEW kinds, NEW t, Served(s, kinds),
           taken \in Nat, taken' = taken + 1, arrived' = arrived,
           t = IF arrived[taken + 1] \in kinds THEN Append(s, taken + 1) ELSE s
    PROVE  t \in Seq(Nat) /\ Ranged(t) = Due(kinds)' /\ Increasing(t)
<1>1. \A i \in DOMAIN s : s[i] <= taken
  BY DEF Served, Ranged, Due
<1>2. CASE arrived[taken + 1] \in kinds
  <2>1. Increasing(Append(s, taken + 1)) /\ Ranged(Append(s, taken + 1)) = Ranged(s) \cup {taken + 1}
    BY <1>1, OneMore DEF Served
  <2>2. Append(s, taken + 1) \in Seq(Nat)
    BY DEF Served
  <2> QED BY <1>2, <2>1, <2>2, DueNext DEF Served
<1>3. CASE arrived[taken + 1] \notin kinds
  BY <1>3, DueNext DEF Served
<1> QED BY <1>2, <1>3

Delivered ==
    /\ Served(ForQuinn, {"packet", "empty"})
    /\ Served(sunk, SinkDue)

LEMMA DeliveredStarts == Init => AtRest /\ Delivered
<1> SUFFICES ASSUME Init PROVE AtRest /\ Delivered
  OBVIOUS
<1>1. ForQuinn = <<>> /\ sunk = <<>> /\ taken = 0 /\ filled = 0
  <2>1. bufs \in Seq(Nat)
    BY InvStarts, BufsAreASequence DEF Inv
  <2>2. <<>> \in Seq(Nat)
    OBVIOUS
  <2> QED BY <2>1, <2>2, NothingHeld DEF Init, ForQuinn
<1> QED BY <1>1 DEF AtRest, Delivered, Served, Ranged, Due, Increasing

LEMMA DeliveredKept ==
    ASSUME Inv, AtRest, Delivered, [Next]_vars
    PROVE  AtRest' /\ Delivered'
<1>1. CASE Recv
  <2>1. taken \in Nat
    BY DEF Inv, TypeOK
  <2>2. /\ taken' = taken + 1 /\ arrived' = arrived /\ sink' = sink /\ AtRest'
        /\ ForQuinn' = IF arrived[taken + 1] \in {"packet", "empty"}
                       THEN Append(ForQuinn, taken + 1) ELSE ForQuinn
        /\ sunk' = IF arrived[taken + 1] \in SinkDue THEN Append(sunk, taken + 1) ELSE sunk
    BY <1>1, RecvGives DEF SinkDue
  <2>3. /\ ForQuinn' \in Seq(Nat) /\ Increasing(ForQuinn')
        /\ Ranged(ForQuinn') = Due({"packet", "empty"})'
    BY <2>1, <2>2, ServedNext DEF Delivered
  <2>4. sunk' \in Seq(Nat) /\ Increasing(sunk') /\ Ranged(sunk') = Due(SinkDue)'
    <3>1. /\ sunk' \in Seq(Nat) /\ Increasing(sunk')
          /\ Ranged(sunk') = {n \in 1..taken' : arrived'[n] \in SinkDue}
      BY <2>1, <2>2, ServedNext DEF Delivered, Due
    <3> QED BY <2>2, <3>1 DEF Due, SinkDue
  <2> QED BY <2>2, <2>3, <2>4 DEF Delivered, Served, Ranged, Increasing
<1>2. CASE ~Recv
  <2>1. Undisturbed
    BY <1>2, OthersDoNotDisturb
  <2>2. \A kinds : Due(kinds)' = Due(kinds)
    BY <2>1 DEF Undisturbed, Due
  <2> QED BY <2>1, <2>2 DEF Undisturbed, Delivered, Served, Ranged, Increasing, SinkDue
<1> QED BY <1>1, <1>2

\* quinn gets every packet and nothing else, the sink every window that decodes, each
\* once and in order, though buffers are overwritten and errors end polls early
\* (preamble.rs:203-222).
THEOREM EachIsDelivered == Spec => []EachToItsReader
<1>1. ASSUME Delivered PROVE EachToItsReader
  <2>1. Due(SinkDue) = {n \in 1..taken : sink /\ arrived[n] = "window"}
    BY DEF Due, SinkDue
  <2> QED BY <1>1, <2>1 DEF Delivered, Served, Ranged, Due, EachToItsReader
<1> QED BY <1>1, InvHolds, DeliveredStarts, DeliveredKept, PTL DEF Spec

-----------------------------------------------------------------------------
(* The sending path: who waits for the socket to become writable is not    *)
(* forgotten, and the byte counter counts whole preambles, whatever the    *)
(* buffer and windows.                                                     *)
(*                                                                         *)
(* Room in the buffer that tokio does not know of has an event on its way  *)
(* (RoomAnnounced).  send_preamble waits only while tokio takes the socket *)
(* for full (Waits); so does a connection, and it is in the slot as long   *)
(* as it is the only one (Registered).                                     *)

RoomAnnounced == ~writable /\ space > 0 => writeEvent

Waits == sender = "waiting" => ~writable

Bounded == \A c \in Conns : conn[c] # "idle" => sent[c] < MaxPackets

SendInv == SendTypeOK /\ Bounded /\ RoomAnnounced /\ Waits /\ CountsWholePreambles

Registered == \A c \in Conns : conn[c] = "blocked" => slot = c /\ ~writable

-----------------------------------------------------------------------------
LEMMA SendStarts == SendInit => SendInv
<1> SUFFICES ASSUME SendInit PROVE SendInv
  OBVIOUS
<1>1. /\ space \in 0..Capacity /\ sent \in [Conns -> 0..MaxPackets]
      /\ left \in 0..WindowLen /\ windows \in 0..MaxWindows
  BY SendConstants DEF SendInit
<1>2. SendTypeOK
  BY <1>1 DEF SendInit, SendTypeOK
<1> QED BY <1>2, SendConstants
        DEF SendInit, SendInv, Bounded, RoomAnnounced, Waits, CountsWholePreambles

LEMMA DrainKeeps == ASSUME SendInv, Drain PROVE SendInv'
<1>1. space' \in 0..Capacity
  BY SendConstants DEF SendInv, SendTypeOK, Drain
<1>2. SendTypeOK'
  BY <1>1 DEF SendInv, SendTypeOK, Drain, connVars, preambleVars
<1> QED BY <1>2 DEF SendInv, Drain, connVars, preambleVars,
                    Bounded, RoomAnnounced, Waits, CountsWholePreambles

LEMMA DriveWritersKeeps == ASSUME SendInv, DriveWriters PROVE SendInv'
<1>1. /\ conn \in [Conns -> {"idle", "poll", "try", "blocked", "failed"}]
      /\ conn' = [c \in Conns |-> IF Wakes(c) THEN "poll" ELSE conn[c]]
  BY DEF SendInv, SendTypeOK, DriveWriters
<1>2. /\ conn' \in [Conns -> {"idle", "poll", "try", "blocked", "failed"}]
      /\ \A c \in Conns : conn[c] = "idle" => conn'[c] = "idle"
  BY <1>1 DEF Wakes
<1>3. /\ sender' \in {"idle", "send", "waiting", "failed"} /\ sender' # "waiting"
      /\ sender' = "idle" => sender = "idle"
  BY DEF SendInv, SendTypeOK, DriveWriters
<1>4. SendTypeOK'
  BY <1>2, <1>3 DEF SendInv, SendTypeOK, DriveWriters
<1>5. Bounded'
  BY <1>2 DEF SendInv, Bounded, DriveWriters
<1> QED BY <1>3, <1>4, <1>5
        DEF SendInv, DriveWriters, RoomAnnounced, Waits, CountsWholePreambles

\* What a connection does to its own place, and to the counters.
LEMMA ConnKeeps ==
    ASSUME SendInv, NEW c \in Conns, WantSend(c) \/ ConnStep(c) \/ TrySendFails(c) \/ Timer(c)
    PROVE  SendInv'
<1>1. /\ conn \in [Conns -> {"idle", "poll", "try", "blocked", "failed"}]
      /\ sent \in [Conns -> 0..MaxPackets] /\ space \in 0..Capacity
      /\ Capacity \in Nat /\ MaxPackets \in Nat
  BY SendConstants DEF SendInv, SendTypeOK
<1>2. CASE WantSend(c) \/ PollWritable(c) \/ TrySendFails(c) \/ Timer(c)
  <2>1. PICK pc \in {"poll", "try", "blocked", "failed"} : conn' = [conn EXCEPT ![c] = pc]
    BY <1>2 DEF WantSend, PollWritable, PollFor, TrySendFails, Timer
  <2>2. /\ UNCHANGED <<space, writeEvent, writable, sent, preambleVars>>
        /\ slot' \in Conns \cup {NoConn}
        /\ sent[c] < MaxPackets
    BY <1>2 DEF SendInv, SendTypeOK, Bounded, WantSend, PollWritable, PollFor, TrySendFails, Timer, slotVars
  <2>3. conn' \in [Conns -> {"idle", "poll", "try", "blocked", "failed"}]
    BY <1>1, <2>1
  <2>4. SendTypeOK'
    BY <2>2, <2>3 DEF SendInv, SendTypeOK, preambleVars
  <2>5. Bounded'
    BY <1>1, <2>1, <2>2 DEF SendInv, Bounded
  <2> QED BY <2>2, <2>4, <2>5
          DEF SendInv, preambleVars, RoomAnnounced, Waits, CountsWholePreambles
<1>3. CASE TrySend(c)
  <2>1. CASE space > 0
    <3>1. /\ UNCHANGED <<slotVars, writable, preambleVars>> /\ space' \in 0..Capacity
          /\ conn' = [conn EXCEPT ![c] = "idle"]
          /\ sent' = [sent EXCEPT ![c] = @ + 1] /\ sent[c] < MaxPackets
      BY <1>1, <1>3, <2>1 DEF SendInv, Bounded, TrySend
    <3>2. /\ conn' \in [Conns -> {"idle", "poll", "try", "blocked", "failed"}]
          /\ sent' \in [Conns -> 0..MaxPackets]
      <4>1. sent[c] + 1 \in 0..MaxPackets
        BY <1>1, <3>1
      <4> QED BY <1>1, <3>1, <4>1
    <3>3. SendTypeOK'
      BY <3>1, <3>2 DEF SendInv, SendTypeOK, slotVars, preambleVars
    <3>4. Bounded'
      BY <1>1, <3>1 DEF SendInv, Bounded
    <3> QED BY <2>1, <3>1, <3>3, <3>4
            DEF SendInv, slotVars, preambleVars, RoomAnnounced, Waits, CountsWholePreambles
  <2>2. CASE ~(space > 0)
    <3>1. /\ UNCHANGED <<slotVars, space, sent, preambleVars>> /\ writable' = FALSE
          /\ conn' = [conn EXCEPT ![c] = "poll"] /\ conn[c] # "idle"
      BY <1>3, <2>2 DEF TrySend
    <3>2. conn' \in [Conns -> {"idle", "poll", "try", "blocked", "failed"}]
      BY <1>1, <3>1
    <3>3. SendTypeOK'
      BY <3>1, <3>2 DEF SendInv, SendTypeOK, slotVars, preambleVars
    <3>4. Bounded'
      BY <1>1, <3>1 DEF SendInv, Bounded
    <3> QED BY <2>2, <3>1, <3>3, <3>4
            DEF SendInv, slotVars, preambleVars, RoomAnnounced, Waits, CountsWholePreambles
  <2> QED BY <2>1, <2>2
<1> QED BY <1>2, <1>3 DEF ConnStep

\* send_preamble counts a window in all or not at all.
LEMMA SenderKeeps ==
    ASSUME SendInv, SendPreamble \/ SenderStep \/ SendFails
    PROVE  SendInv'
<1>1. /\ left \in 0..WindowLen /\ windows \in 0..MaxWindows /\ space \in 0..Capacity
      /\ Capacity \in Nat /\ WindowLen \in Nat /\ MaxWindows \in Nat
      /\ total \in Nat /\ out \in Nat /\ preamble_bytes_sent \in Nat
      /\ CountsWholePreambles
  BY SendConstants DEF SendInv, SendTypeOK
<1>2. /\ UNCHANGED <<slotVars, connVars>>
      /\ space' \in 0..Capacity /\ writable' \in BOOLEAN
      /\ sender' \in {"idle", "send", "waiting", "failed"}
      /\ left' \in 0..WindowLen /\ windows' \in 0..MaxWindows
      /\ total' \in Nat /\ out' \in Nat /\ preamble_bytes_sent' \in Nat
      /\ RoomAnnounced' /\ Waits' /\ CountsWholePreambles'
  <2>1. CASE SendPreamble
    BY <1>1, <2>1 DEF SendInv, SendTypeOK, SendPreamble, slotVars, RoomAnnounced, Waits, CountsWholePreambles
  <2>2. CASE SendTo
    <3>1. CASE space > 0
      BY <1>1, <2>2, <3>1
         DEF SendInv, SendTypeOK, SendTo, slotVars, RoomAnnounced, Waits, CountsWholePreambles
    <3>2. CASE ~(space > 0)
      BY <1>1, <2>2, <3>2
         DEF SendInv, SendTypeOK, SendTo, slotVars, RoomAnnounced, Waits, CountsWholePreambles
    <3> QED BY <3>1, <3>2
  <2>3. CASE AwaitWritable \/ SendFails
    BY <1>1, <2>3
       DEF SendInv, SendTypeOK, AwaitWritable, SendFails, slotVars, RoomAnnounced, Waits, CountsWholePreambles
  <2>4. CASE Sent
    BY <1>1, <2>4 DEF SendInv, SendTypeOK, Sent, slotVars, RoomAnnounced, Waits, CountsWholePreambles
  <2> QED BY <2>1, <2>2, <2>3, <2>4 DEF SenderStep
<1>3. SendTypeOK'
  BY <1>2 DEF SendInv, SendTypeOK, slotVars, connVars
<1> QED BY <1>2, <1>3 DEF SendInv, Bounded, connVars

LEMMA SendKept == ASSUME SendInv, [SendNext]_sendVars PROVE SendInv'
<1>1. CASE UNCHANGED sendVars
  BY <1>1 DEF SendInv, SendTypeOK, Bounded, RoomAnnounced, Waits, CountsWholePreambles,
              sendVars, slotVars, connVars, preambleVars
<1> QED BY <1>1, DrainKeeps, DriveWritersKeeps, ConnKeeps, SenderKeeps DEF SendNext

LEMMA SendHolds == SendSpec => []SendInv
BY SendStarts, SendKept, PTL DEF SendSpec

\* Types; left never falls below zero (preamble.rs:127).
THEOREM SendTypeCorrect == SendSpec => []SendTypeOK
BY SendHolds, PTL DEF SendInv

\* The counter is that of whole preambles, also when an error of send_to cuts one short
\* (preamble.rs:129-132).
THEOREM WholePreamblesCounted == SendSpec => []CountsWholePreambles
BY SendHolds, PTL DEF SendInv

\* However many connections write to the socket, send_preamble waits for nothing but
\* room, and hears of it (preamble.rs:129): send_to needs no slot.
THEOREM SendToHearsOfRoom == SendSpec => [](sender = "waiting" /\ space > 0 => writeEvent)
<1>1. SendInv => (sender = "waiting" /\ space > 0 => writeEvent)
  BY DEF SendInv, RoomAnnounced, Waits
<1> QED BY <1>1, SendHolds, PTL

-----------------------------------------------------------------------------
LEMMA RegisteredStarts == SendInit => Registered
BY DEF SendInit, Registered

LEMMA RegisteredKept ==
    ASSUME \A c, d \in Conns : c = d, SendInv, Registered, [SendNext]_sendVars
    PROVE  Registered'
<1>1. conn \in [Conns -> {"idle", "poll", "try", "blocked", "failed"}]
  BY DEF SendInv, SendTypeOK
<1>2. CASE DriveWriters
  BY <1>1, <1>2 DEF Registered, DriveWriters, Wakes
<1>3. ASSUME NEW c \in Conns, WantSend(c) \/ ConnStep(c) \/ TrySendFails(c) \/ Timer(c)
      PROVE  Registered'
  <2>1. \A d \in Conns : d = c
    OBVIOUS
  <2>2. CASE WantSend(c) \/ TrySendFails(c) \/ Timer(c)
    BY <1>1, <2>1, <2>2 DEF Registered, WantSend, TrySendFails, Timer
  <2>3. CASE PollWritable(c)
    BY <1>1, <2>1, <2>3 DEF Registered, PollWritable, PollFor
  <2>4. CASE TrySend(c)
    BY <1>1, <2>1, <2>4 DEF Registered, TrySend
  <2> QED BY <1>3, <2>2, <2>3, <2>4 DEF ConnStep
<1>4. CASE Drain \/ SendPreamble \/ AwaitWritable \/ Sent \/ SendFails \/ UNCHANGED sendVars
  BY <1>4 DEF Registered, Drain, SendPreamble, AwaitWritable, Sent, SendFails,
              sendVars, slotVars, connVars
<1>5. CASE SendTo
  <2>1. UNCHANGED <<slot, conn>> /\ (writable' = writable \/ writable' = FALSE)
    BY <1>5 DEF SendTo, slotVars, connVars
  <2> QED BY <2>1 DEF Registered
<1> QED BY <1>2, <1>3, <1>4, <1>5 DEF SendNext, SenderStep

\* A connection that has the socket to itself, as in the testbed, and send_preamble
\* beside it, are never left waiting though there is room (preamble.rs:129, 167).
THEOREM NoneForgotten ==
    ASSUME \A c, d \in Conns : c = d
    PROVE  SendSpec => []NoWriterForgotten
<1>1. SendInv /\ Registered => NoWriterForgotten
  BY DEF SendInv, RoomAnnounced, Waits, Registered, NoWriterForgotten
<1>2. SendInv /\ Registered /\ [SendNext]_sendVars => Registered'
  BY RegisteredKept
<1> QED BY <1>1, <1>2, RegisteredStarts, SendHolds, PTL DEF SendSpec
=============================================================================

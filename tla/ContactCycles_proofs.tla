------------------------ MODULE ContactCycles_proofs ------------------------
(***************************************************************************)
(* Configs and attempts, for queues of every length and any number of      *)
(* outages and strays, whatever the timers do: May, and with it Patient,   *)
(* is nowhere needed.  The invariant adds to the types that Bob is at      *)
(* accept only with a config nobody has used (Fresh).                      *)
(***************************************************************************)
EXTENDS ContactCycles, TLAPS

Fresh == bobPc # "panicked" /\ (bobPc = "accept" => config)

Inv == TypeOK /\ Fresh

-----------------------------------------------------------------------------
LEMMA InvStarts == Init => Inv
<1> SUFFICES ASSUME Init PROVE Inv
  OBVIOUS
<1>1. incoming = <<>> /\ bobConn = <<>> /\ <<>> \in Seq(Attempts) /\ Len(<<>>) = 0
  BY DEF Init
<1>2. outages \in 0..MaxOutages /\ strays \in 0..MaxStrays /\ Len(incoming) <= MaxIncoming
  BY <1>1, CycleConstants DEF Init
<1>3. /\ incoming \in Seq(Attempts) /\ bobConn \in Seq(Attempts) /\ Len(bobConn) <= 1
      /\ (bobConn = <<>>) = (bobPc \in {"loop", "accept", "failed", "done"})
  BY <1>1 DEF Init
<1> QED BY <1>2, <1>3 DEF Init, Inv, TypeOK, Fresh

\* What Alice leaves stays an attempt, wherever it is.
LEMMA LeftIsAnAttempt ==
    ASSUME NEW a \in Attempts, NEW b \in BOOLEAN
    PROVE  [a EXCEPT !.current = FALSE, !.closed = b] \in Attempts
BY DEF Attempts

LEMMA LeftAllOver ==
    ASSUME NEW s \in Seq(Attempts), NEW heard \in BOOLEAN, NEW t,
           t = [i \in DOMAIN s |-> IF s[i].current THEN Left(s[i], heard) ELSE s[i]]
    PROVE  t \in Seq(Attempts) /\ Len(t) = Len(s)
<1>1. ASSUME NEW a \in Attempts PROVE Left(a, heard) \in Attempts
  <2>1. a.closed \/ heard \in BOOLEAN
    BY DEF Attempts
  <2> QED BY <2>1, LeftIsAnAttempt DEF Left
<1>2. \A i \in DOMAIN s : s[i] \in Attempts
  OBVIOUS
<1>3. \A i \in DOMAIN s : t[i] \in Attempts
  BY <1>1, <1>2
<1>4. DOMAIN t = 1..Len(s) /\ Len(s) \in Nat /\ t = [i \in 1..Len(s) |-> t[i]]
  OBVIOUS
<1>5. ASSUME NEW n \in Nat, NEW f, \A i \in 1..n : f[i] \in Attempts
      PROVE  [i \in 1..n |-> f[i]] \in Seq(Attempts) /\ Len([i \in 1..n |-> f[i]]) = n
  BY <1>5
<1> QED BY <1>3, <1>4, <1>5

LEMMA AliceLeavesAttempts ==
    ASSUME TypeOK, NEW heard \in BOOLEAN, AliceLeaves(heard)
    PROVE  /\ incoming' \in Seq(Attempts) /\ Len(incoming') = Len(incoming)
           /\ bobConn' \in Seq(Attempts) /\ Len(bobConn') = Len(bobConn)
           /\ (bobConn' = <<>>) = (bobConn = <<>>)
           /\ place' = "none"
<1>1. incoming' \in Seq(Attempts) /\ Len(incoming') = Len(incoming)
  BY LeftAllOver DEF TypeOK, AliceLeaves
<1>2. bobConn' \in Seq(Attempts) /\ Len(bobConn') = Len(bobConn)
  BY LeftAllOver DEF TypeOK, AliceLeaves
<1>3. bobConn \in Seq(Attempts)
  BY DEF TypeOK
<1>4. (bobConn' = <<>>) = (bobConn = <<>>)
  BY <1>2, <1>3
<1> QED BY <1>1, <1>2, <1>4 DEF AliceLeaves

-----------------------------------------------------------------------------
(* Steps that leave the attempts where they are.                           *)

LEMMA WaitKeeps ==
    ASSUME Inv, ReadReady \/ ReadyTimeout \/ Connect \/ Answered \/ EndBlackout \/ AliceStops
    PROVE  Inv'
<1>1. /\ UNCHANGED <<linkVars, bobVars, incoming, bobConn>>
      /\ news' \in BOOLEAN /\ first' \in BOOLEAN /\ keyed' \in BOOLEAN
      /\ aliceConn' \in {"none", "open", "lost"}
      /\ place' \in {"none", "flying", "queued", "bob"}
      /\ alicePc' \in {"ready", "connect", "await", "contact", "done"}
  BY DEF Inv, TypeOK, ReadReady, ReadyTimeout, Connect, Answered, EndBlackout, AliceStops
<1>2. TypeOK'
  BY <1>1 DEF Inv, TypeOK, linkVars, bobVars
<1> QED BY <1>1, <1>2 DEF Inv, Fresh, bobVars

LEMMA OutsideKeeps == ASSUME Inv, LinkFails \/ LinkReturns \/ TimeIsUp \/ Retransmit PROVE Inv'
<1>1. /\ UNCHANGED <<strays, news, aliceVars, bobVars, incoming, bobConn>>
      /\ place' \in {"none", "flying", "queued", "bob"}
      /\ link' \in BOOLEAN /\ over' \in BOOLEAN /\ outages' \in 0..MaxOutages
  <2>1. /\ link \in BOOLEAN /\ over \in BOOLEAN /\ outages \in 0..MaxOutages
        /\ place \in {"none", "flying", "queued", "bob"}
    BY DEF Inv, TypeOK
  <2>2. CASE LinkFails
    <3>1. outages' \in 0..MaxOutages /\ link' = FALSE
      BY <2>1, <2>2, CycleConstants DEF LinkFails
    <3>2. UNCHANGED <<strays, over, news, aliceVars, place, bobVars, incoming, bobConn>>
      BY <2>2 DEF LinkFails
    <3> QED BY <2>1, <3>1, <3>2
  <2>3. CASE LinkReturns
    BY <2>1, <2>3 DEF LinkReturns
  <2>4. CASE TimeIsUp
    BY <2>1, <2>4 DEF TimeIsUp
  <2>5. CASE Retransmit
    BY <2>1, <2>5 DEF Retransmit, linkVars
  <2> QED BY <2>2, <2>3, <2>4, <2>5
<1>2. TypeOK'
  BY <1>1 DEF Inv, TypeOK, aliceVars, bobVars
<1> QED BY <1>1, <1>2 DEF Inv, Fresh, bobVars

LEMMA BobWaitKeeps ==
    ASSUME Inv, Begin \/ AcceptTimeout \/ StreamOpens \/ Confirmed
    PROVE  Inv'
<1>1. /\ UNCHANGED <<linkVars, aliceVars, place, incoming, bobConn>>
      /\ news' \in BOOLEAN /\ config' \in BOOLEAN
      /\ \/ bobPc \in {"loop", "accept"} /\ bobPc' \in {"accept", "done"}
         \/ bobPc \in {"stream", "confirm"} /\ bobPc' \in {"confirm", "report"}
      /\ bobPc' = "accept" => config'
  BY DEF Inv, TypeOK, Begin, BeginWith, AcceptTimeout, StreamOpens, Confirmed
<1>2. TypeOK'
  BY <1>1 DEF Inv, TypeOK, linkVars, aliceVars
<1> QED BY <1>1, <1>2 DEF Inv, Fresh

-----------------------------------------------------------------------------
(* Steps that move them.                                                   *)

LEMMA LeaveKeeps ==
    ASSUME Inv, AttemptTimeout \/ AliceIdle \/ EndContact
    PROVE  Inv'
<1>1. /\ UNCHANGED <<linkVars, news, first, keyed, bobVars>>
      /\ \E heard \in BOOLEAN : AliceLeaves(heard)
      /\ alicePc' \in {"ready", "connect", "await", "contact", "blackout", "done"}
      /\ aliceConn' \in {"none", "lost"}
  BY DEF Inv, TypeOK, AttemptTimeout, AliceIdle, EndContact, AliceCloses
<1>2. TypeOK'
  <2>1. /\ incoming' \in Seq(Attempts) /\ Len(incoming') = Len(incoming)
        /\ bobConn' \in Seq(Attempts) /\ Len(bobConn') = Len(bobConn)
        /\ (bobConn' = <<>>) = (bobConn = <<>>) /\ place' = "none"
    BY <1>1, AliceLeavesAttempts DEF Inv
  <2> QED BY <1>1, <2>1 DEF Inv, TypeOK, linkVars, bobVars
<1> QED BY <1>1, <1>2 DEF Inv, Fresh, bobVars

\* Bob gives his connection up.
LEMMA BobLeavesKeeps ==
    ASSUME Inv, StreamFails \/ StreamTimeout \/ ConnClosed \/ BobIdle
    PROVE  Inv'
<1>1. /\ UNCHANGED <<linkVars, news, alicePc, first, keyed, config, incoming>> /\ BobLeaves
      /\ bobPc' \in {"loop", "done"}
  BY DEF StreamFails, StreamTimeout, Stale, ConnClosed, BobIdle, ConnEnds
<1>2. /\ bobConn' = <<>> /\ aliceConn' \in {"none", "open", "lost"}
      /\ place' \in {"none", "flying", "queued", "bob"}
  BY <1>1 DEF Inv, TypeOK, BobLeaves
<1>3. TypeOK'
  BY <1>1, <1>2 DEF Inv, TypeOK, linkVars
<1> QED BY <1>1, <1>3 DEF Inv, Fresh

LEMMA HeadAndTail ==
    ASSUME NEW s \in Seq(Attempts), s # <<>>
    PROVE  /\ <<Head(s)>> \in Seq(Attempts) /\ Len(<<Head(s)>>) = 1 /\ <<Head(s)>> # <<>>
           /\ Tail(s) \in Seq(Attempts) /\ Len(Tail(s)) = Len(s) - 1 /\ Len(s) \in Nat
OBVIOUS

\* accept takes the head of the queue to an unused config, or ends run_bob on it.
LEMMA AcceptKeeps == ASSUME Inv, Accept \/ AcceptFails PROVE Inv'
<1>1. /\ UNCHANGED <<linkVars, news, aliceVars>>
      /\ incoming \in Seq(Attempts) /\ incoming # <<>> /\ incoming' = Tail(incoming)
      /\ place' \in {"none", "flying", "queued", "bob"} /\ config' \in BOOLEAN
      /\ \/ bobPc' = "stream" /\ bobConn' = <<Head(incoming)>>
         \/ bobPc' = "failed" /\ bobConn' = <<>>
  BY DEF Inv, TypeOK, Fresh, Accept, AcceptFails, StartSession
<1>2. incoming' \in Seq(Attempts) /\ Len(incoming') = Len(incoming) - 1 /\ Len(incoming) \in Nat
  BY <1>1, HeadAndTail
<1>3. Len(incoming') <= MaxIncoming
  BY <1>2, CycleConstants DEF Inv, TypeOK
<1>4. <<>> \in Seq(Attempts) /\ Len(<<>>) = 0
  OBVIOUS
<1>5. /\ bobConn' \in Seq(Attempts) /\ Len(bobConn') <= 1
      /\ (bobConn' = <<>>) = (bobPc' \in {"loop", "accept", "failed", "done"})
  <2>1. CASE bobPc' = "stream" /\ bobConn' = <<Head(incoming)>>
    <3>1. /\ <<Head(incoming)>> \in Seq(Attempts) /\ Len(<<Head(incoming)>>) = 1
          /\ <<Head(incoming)>> # <<>>
      BY <1>1, HeadAndTail
    <3> QED BY <2>1, <3>1
  <2>2. CASE bobPc' = "failed" /\ bobConn' = <<>>
    <3>1. Len(bobConn') <= 1
      BY <1>4, <2>2
    <3> QED BY <1>4, <2>2, <3>1
  <2> QED BY <1>1, <2>1, <2>2
<1>6. bobPc' \in {"stream", "failed"}
  BY <1>1
<1>7. TypeOK'
  BY <1>1, <1>2, <1>3, <1>5, <1>6 DEF Inv, TypeOK, linkVars, aliceVars
<1> QED BY <1>6, <1>7 DEF Inv, Fresh

\* The queue takes one more, while there is room.
LEMMA AppendKeeps ==
    ASSUME NEW s \in Seq(Attempts), NEW a \in Attempts, Len(s) < MaxIncoming
    PROVE  Append(s, a) \in Seq(Attempts) /\ Len(Append(s, a)) <= MaxIncoming
<1>1. Append(s, a) \in Seq(Attempts) /\ Len(Append(s, a)) = Len(s) + 1 /\ Len(s) \in Nat
  OBVIOUS
<1> QED BY <1>1, CycleConstants

LEMMA InitialArrivesKeeps == ASSUME Inv, InitialArrives PROVE Inv'
<1>1. /\ UNCHANGED <<linkVars, news, alicePc, first, keyed, bobVars, bobConn>>
      /\ incoming \in Seq(Attempts) /\ Len(incoming) <= MaxIncoming /\ keyed \in BOOLEAN
  BY DEF Inv, TypeOK, InitialArrives
<1>2. /\ incoming' \in Seq(Attempts) /\ Len(incoming') <= MaxIncoming
      /\ aliceConn' \in {"none", "open", "lost"} /\ place' \in {"none", "queued"}
  <2>1. CASE Len(incoming) < MaxIncoming
    <3>1. PICK hello \in BOOLEAN :
              incoming' = Append(incoming, [current |-> TRUE, keyed |-> keyed,
                                            hello |-> hello, closed |-> FALSE,
                                            sound |-> TRUE])
      BY <2>1 DEF InitialArrives
    <3> DEFINE a == [current |-> TRUE, keyed |-> keyed, hello |-> hello, closed |-> FALSE,
                     sound |-> TRUE]
    <3>2. a \in Attempts
      BY <1>1 DEF Attempts
    <3>3. incoming' = Append(incoming, a)
      BY <3>1
    <3> HIDE DEF a
    <3>4. aliceConn' \in {"none", "open", "lost"} /\ place' = "queued"
      BY <2>1 DEF Inv, TypeOK, InitialArrives
    <3> QED BY <1>1, <2>1, <3>2, <3>3, <3>4, AppendKeeps
  <2>2. CASE ~(Len(incoming) < MaxIncoming)
    BY <1>1, <2>2 DEF InitialArrives
  <2> QED BY <2>1, <2>2
<1>3. TypeOK'
  BY <1>1, <1>2 DEF Inv, TypeOK, linkVars, bobVars
<1> QED BY <1>1, <1>3 DEF Inv, Fresh, bobVars

\* What turns up again may be anything but Alice's present attempt.
LEMMA StrayKeeps == ASSUME Inv, Stray PROVE Inv'
<1>1. PICK k, h, ok \in BOOLEAN :
          incoming' = Append(incoming, [current |-> FALSE, keyed |-> k, hello |-> h,
                                        closed |-> FALSE, sound |-> ok])
  BY DEF Stray
<1>2. /\ UNCHANGED <<link, outages, over, news, aliceVars, place, bobVars, bobConn>>
      /\ strays' \in 0..MaxStrays /\ incoming \in Seq(Attempts)
      /\ Len(incoming) < MaxIncoming
  BY CycleConstants DEF Inv, TypeOK, Stray
<1> DEFINE a == [current |-> FALSE, keyed |-> k, hello |-> h, closed |-> FALSE, sound |-> ok]
<1>3. a \in Attempts
  BY DEF Attempts
<1>4. incoming' = Append(incoming, a)
  BY <1>1
<1> HIDE DEF a
<1>5. incoming' \in Seq(Attempts) /\ Len(incoming') <= MaxIncoming
  BY <1>2, <1>3, <1>4, AppendKeeps
<1>6. TypeOK'
  BY <1>2, <1>5 DEF Inv, TypeOK, aliceVars, bobVars
<1> QED BY <1>2, <1>6 DEF Inv, Fresh, bobVars

-----------------------------------------------------------------------------
LEMMA InvKept == ASSUME Inv, [Next]_vars PROVE Inv'
<1>1. CASE UNCHANGED vars
  <2>1. TypeOK'
    BY <1>1 DEF Inv, TypeOK, vars, linkVars, aliceVars, bobVars
  <2> QED BY <1>1, <2>1 DEF Inv, Fresh, vars, bobVars
<1>2. CASE Instant
  BY <1>2, WaitKeeps, BobWaitKeeps, AcceptKeeps, BobLeavesKeeps, InitialArrivesKeeps
     DEF Instant
<1>3. CASE Timer
  BY <1>3, WaitKeeps, LeaveKeeps, BobWaitKeeps, BobLeavesKeeps DEF Timer
<1>4. CASE Outside
  BY <1>4, StrayKeeps, OutsideKeeps DEF Outside
<1> QED BY <1>1, <1>2, <1>3, <1>4 DEF Next

LEMMA InvHolds == Spec => []Inv
BY InvStarts, InvKept, PTL DEF Spec

\* Types; Bob holds a connection exactly in the phases of a cycle that speak of one
\* (main.rs:354-398).
THEOREM TypeCorrect == Spec => []TypeOK
BY InvHolds, PTL DEF Inv

\* Whatever is abandoned, retried or turns up again, start_session is never called on
\* a server config that has served (config.rs:61-65).
THEOREM ConfigsServeOnce == Spec => []OneSessionPerConfig
<1>1. Inv => OneSessionPerConfig
  BY DEF Inv, Fresh, OneSessionPerConfig
<1> QED BY <1>1, InvHolds, PTL
=============================================================================

--------------------------- MODULE Handshake_proofs ---------------------------
(***************************************************************************)
(* Keys agree once a side is connected, proved for every number of commits *)
(* and every interleaving of Bob's exports with what his sink applies.     *)
(*                                                                         *)
(* Alice exports all her keys in one epoch, since she does not commit      *)
(* before she is connected.  Bob's epochs grow in the order of his exports *)
(* and never pass hers; so the first of them to equal hers fixes all that  *)
(* come after it.                                                          *)
(***************************************************************************)
EXTENDS Handshake, TLAPS

Absent(s, l) == keys[s][l]["c2s"] = None /\ keys[s][l]["s2c"] = None
Half(s, l)   == keys[s][l]["c2s"] # None /\ keys[s][l]["s2c"] = None
Full(s, l)   == keys[s][l]["c2s"] # None /\ keys[s][l]["s2c"] # None

NothingLater(s) == Absent(s, "next") /\ Absent(s, "early")

Pinning(s) ==
    /\ state[s] = "AwaitingZeroRttKeys" /\ NothingLater(s)
    /\ \/ /\ job[s] = <<<<"upgrade", "c2s">>, <<"upgrade", "s2c">>,
                        <<"zero_rtt", "c2s">>, <<"zero_rtt", "s2c">>>>
          /\ Absent(s, "upgrade") /\ Absent(s, "zero_rtt")
       \/ /\ job[s] = <<<<"upgrade", "s2c">>, <<"zero_rtt", "c2s">>, <<"zero_rtt", "s2c">>>>
          /\ Half(s, "upgrade") /\ Absent(s, "zero_rtt")
       \/ /\ job[s] = <<<<"zero_rtt", "c2s">>, <<"zero_rtt", "s2c">>>>
          /\ Full(s, "upgrade") /\ Absent(s, "zero_rtt")
       \/ /\ job[s] = <<<<"zero_rtt", "s2c">>>>
          /\ Full(s, "upgrade") /\ Half(s, "zero_rtt")

Unpinned(s) ==
    /\ state[s] = "Initial" /\ job[s] = <<>>
    /\ Absent(s, "upgrade") /\ Absent(s, "zero_rtt") /\ NothingLater(s)

\* next_1rtt_keys has been called, and has returned, when the session is done.
NextAsked(s) == IF state[s] = "Done" THEN Full(s, "next") ELSE Absent(s, "next")

Pinned(s) ==
    /\ state[s] \in {"AwaitingZeroRttKeys", "ConfirmingZeroRttKeys", "Done"}
    /\ Full(s, "upgrade") /\ Full(s, "zero_rtt")
    /\ \/ job[s] = <<>> /\ NextAsked(s) /\ (Absent(s, "early") \/ Full(s, "early"))
       \/ /\ job[s] = <<<<"next", "c2s">>, <<"next", "s2c">>>> /\ state[s] = "Done"
          /\ Absent(s, "next") /\ (Absent(s, "early") \/ Full(s, "early"))
       \/ /\ job[s] = <<<<"next", "s2c">>>> /\ state[s] = "Done"
          /\ Half(s, "next") /\ (Absent(s, "early") \/ Full(s, "early"))
       \/ job[s] = <<<<"early", "c2s">>, <<"early", "s2c">>>> /\ NextAsked(s) /\ Absent(s, "early")
       \/ job[s] = <<<<"early", "s2c">>>> /\ NextAsked(s) /\ Half(s, "early")

\* How far a side's calls have come.
Stage(s) == Unpinned(s) \/ Pinning(s) \/ Pinned(s)

Shape ==
    /\ group \in [Sides -> 0..MaxEpoch] /\ group["Server"] <= group["Client"]
    /\ state \in [Sides -> {"Initial", "AwaitingZeroRttKeys", "ConfirmingZeroRttKeys", "Done"}]
    /\ peer_params \in [Sides -> BOOLEAN]
    /\ keys \in [Sides -> [Levels -> [Directions -> Secrets \cup {None}]]]
    /\ job \in [Sides -> Seq(Levels \X Directions)]
    /\ connected \in [Sides -> BOOLEAN]

Contexts ==
    \A s \in Sides, l \in Levels, d \in Directions :
        keys[s][l][d] # None => keys[s][l][d].context = Context(l)

\* Alice's keys are of one epoch, the one she is in until she is connected.
OneEpoch ==
    \A l \in Levels, d \in Directions : keys["Client"][l][d] # None =>
        /\ ~connected["Client"] => keys["Client"][l][d].epoch = group["Client"]
        /\ \A m \in Levels, f \in Directions : keys["Client"][m][f] # None =>
               keys["Client"][m][f].epoch = keys["Client"][l][d].epoch

\* Bob's are not behind those he exported before, nor ahead of hers.
Growing ==
    \A l \in Levels, d \in Directions : keys["Server"][l][d] # None =>
        /\ keys["Server"][l][d].epoch <= group["Server"]
        /\ keys["Server"]["upgrade"]["c2s"].epoch <= keys["Server"][l][d].epoch
        /\ <<l, d>> # <<"upgrade", "c2s">> =>
               keys["Server"]["upgrade"]["s2c"].epoch <= keys["Server"][l][d].epoch
        /\ \A m \in Levels, f \in Directions : keys["Client"][m][f] # None =>
               keys["Server"][l][d].epoch <= keys["Client"][m][f].epoch

Finished(s) ==
    job[s] = <<>> /\ state[s] = "Done" /\ \A l \in Levels : Full(s, l)

\* A connection is made when there is nothing left to export.
Settled ==
    \A s \in Sides : connected[s] =>
        /\ \A t \in Sides : Finished(t)
        /\ \A l \in Levels, d \in Directions :
              s = "Server" \/ <<l, d>> # <<"upgrade", "c2s">> => Agree(l, d)

Read == \A s \in Sides : state[s] \in {"ConfirmingZeroRttKeys", "Done"} => peer_params[s]

Inv ==
    /\ Shape
    /\ \A s \in Sides : Stage(s)
    /\ Contexts /\ OneEpoch /\ Growing /\ Settled /\ Read

-----------------------------------------------------------------------------
USE DEF Idle

LEMMA InvStarts == Init => Inv
<1> SUFFICES ASSUME Init PROVE Inv
  OBVIOUS
<1>1. Shape
  <2>1. PICK a \in 0..MaxEpoch, b \in 0..MaxEpoch :
            b <= a /\ group = [s \in Sides |-> IF s = "Client" THEN a ELSE b]
    BY DEF Init
  <2>2. group \in [Sides -> 0..MaxEpoch] /\ group["Server"] <= group["Client"]
    BY <2>1 DEF Sides
  <2>3. /\ state \in [Sides -> {"Initial", "AwaitingZeroRttKeys", "ConfirmingZeroRttKeys", "Done"}]
        /\ peer_params \in [Sides -> BOOLEAN]
        /\ job \in [Sides -> Seq(Levels \X Directions)]
        /\ connected \in [Sides -> BOOLEAN]
    BY DEF Init
  <2>4. keys \in [Sides -> [Levels -> [Directions -> Secrets \cup {None}]]]
    BY DEF Init
  <2> QED BY <2>2, <2>3, <2>4 DEF Shape
<1>2. \A s \in Sides, l \in Levels, d \in Directions : keys[s][l][d] = None
  BY DEF Init
<1>3. ASSUME NEW s \in Sides PROVE Stage(s)
  <2>1. \A l \in Levels : Absent(s, l)
    BY <1>2 DEF Absent, Directions
  <2>2. Unpinned(s)
    BY <2>1 DEF Init, Unpinned, NothingLater, Levels
  <2> QED BY <2>2 DEF Stage
<1>4. Contexts /\ OneEpoch /\ Growing
  BY <1>2 DEF Contexts, OneEpoch, Growing, Sides
<1>5. Settled /\ Read
  BY DEF Init, Settled, Read
<1> QED BY <1>1, <1>3, <1>4, <1>5 DEF Inv

\* export_secret writes one secret, of the epoch the group is in.
Writes(s, l, d) ==
    /\ keys' \in [Sides -> [Levels -> [Directions -> Secrets \cup {None}]]]
    /\ \E new : /\ new # None /\ new.epoch = group[s] /\ new.context = Context(l)
                /\ \A t \in Sides, m \in Levels, f \in Directions :
                      keys'[t][m][f] = IF t = s /\ m = l /\ f = d
                                       THEN new ELSE keys[t][m][f]
    /\ job'[s] = Tail(job[s]) /\ (\A t \in Sides \ {s} : job'[t] = job[t])
    /\ job' \in [Sides -> Seq(Levels \X Directions)]
    /\ group' = group /\ state' = state /\ peer_params' = peer_params
    /\ connected' = connected

LEMMA ExportWrites ==
    ASSUME Shape, NEW s \in Sides, NEW l \in Levels, NEW d \in Directions,
           ExportSecret(s), Head(job[s]) = <<l, d>>
    PROVE  Writes(s, l, d)
<1> DEFINE new == [epoch |-> group[s], context |-> Context(l)]
<1>1. group[s] \in 0..MaxEpoch
  BY DEF Shape
<1>2. new \in Secrets /\ new # None /\ new.epoch = group[s] /\ new.context = Context(l)
  <2>1. new.epoch # -1
    BY <1>1, HandshakeConstants
  <2>2. None.epoch = -1
    BY DEF None
  <2> QED BY <1>1, <2>1, <2>2 DEF Secrets, Context
<1>3. keys' = [keys EXCEPT ![s][l][d] = new]
  <2>1. Head(job[s])[1] = l /\ Head(job[s])[2] = d
    OBVIOUS
  <2>2. keys' = [keys EXCEPT ![s][Head(job[s])[1]][Head(job[s])[2]] =
                    [epoch |-> group[s], context |-> Context(Head(job[s])[1])]]
    BY Zenon DEF ExportSecret
  <2> QED BY <2>1, <2>2, Zenon
<1> HIDE DEF new
<1>4. \A t \in Sides, m \in Levels, f \in Directions :
          keys'[t][m][f] = IF t = s /\ m = l /\ f = d THEN new ELSE keys[t][m][f]
  BY <1>3 DEF Shape
<1>5. keys' \in [Sides -> [Levels -> [Directions -> Secrets \cup {None}]]]
  BY <1>2, <1>3 DEF Shape
<1>6. job' = [job EXCEPT ![s] = Tail(job[s])] /\ job[s] # <<>>
      /\ group' = group /\ state' = state /\ peer_params' = peer_params
      /\ connected' = connected
  BY DEF ExportSecret
<1>7. job'[s] = Tail(job[s]) /\ (\A t \in Sides \ {s} : job'[t] = job[t])
      /\ job' \in [Sides -> Seq(Levels \X Directions)]
  BY <1>6 DEF Shape
<1>8. \E x : /\ x # None /\ x.epoch = group[s] /\ x.context = Context(l)
             /\ \A t \in Sides, m \in Levels, f \in Directions :
                   keys'[t][m][f] = IF t = s /\ m = l /\ f = d THEN x ELSE keys[t][m][f]
  <2> WITNESS new
  <2> QED BY <1>2, <1>4, Zenon
<1> QED BY <1>5, <1>6, <1>7, <1>8, Zenon DEF Writes

\* What a side does not touch stays at its stage.
LEMMA StageKept ==
    ASSUME NEW s \in Sides, Stage(s), keys'[s] = keys[s], job'[s] = job[s], state'[s] = state[s]
    PROVE  Stage(s)'
<1>1. Unpinned(s) => Unpinned(s)'
  BY Zenon DEF Unpinned, Absent, NothingLater
<1>2. Pinning(s) => Pinning(s)'
  BY Zenon DEF Pinning, Absent, Half, Full, NothingLater
<1>3. Pinned(s) => Pinned(s)'
  BY DEF Pinned, Absent, Half, Full, NextAsked
<1> QED BY <1>1, <1>2, <1>3 DEF Stage

\* The first export is the upgrade key from client to server, the second that from
\* server to client.
InOrder(s, l, d) ==
    /\ Head(job[s]) = <<l, d>> /\ keys[s][l][d] = None
    /\ l = "upgrade" /\ d = "c2s" => \A m \in Levels, f \in Directions : keys[s][m][f] = None
    /\ l = "upgrade" /\ d = "s2c" =>
          /\ keys[s]["upgrade"]["c2s"] # None
          /\ \A m \in Levels, f \in Directions :
                ~(m = "upgrade" /\ f = "c2s") => keys[s][m][f] = None
    /\ l # "upgrade" => Full(s, "upgrade")

LEMMA ExportInOrder ==
    ASSUME Shape, NEW s \in Sides, Stage(s), job[s] # <<>>
    PROVE  \E l \in Levels, d \in Directions : InOrder(s, l, d)
<1> USE DEF Absent, Half, Full, NothingLater
<1>1. CASE Unpinned(s)
  BY <1>1 DEF Unpinned
<1>2. CASE Pinning(s)
  <2>1. CASE job[s] = <<<<"upgrade", "c2s">>, <<"upgrade", "s2c">>,
                        <<"zero_rtt", "c2s">>, <<"zero_rtt", "s2c">>>>
    <3>1. InOrder(s, "upgrade", "c2s")
      BY <1>2, <2>1 DEF Pinning, InOrder, Levels, Directions
    <3> QED BY <3>1 DEF Levels, Directions
  <2>2. CASE job[s] = <<<<"upgrade", "s2c">>, <<"zero_rtt", "c2s">>, <<"zero_rtt", "s2c">>>>
    <3>1. InOrder(s, "upgrade", "s2c")
      BY <1>2, <2>2 DEF Pinning, InOrder, Levels, Directions
    <3> QED BY <3>1 DEF Levels, Directions
  <2>3. CASE job[s] = <<<<"zero_rtt", "c2s">>, <<"zero_rtt", "s2c">>>>
    <3>1. InOrder(s, "zero_rtt", "c2s")
      BY <1>2, <2>3 DEF Pinning, InOrder
    <3> QED BY <3>1 DEF Levels, Directions
  <2>4. CASE job[s] = <<<<"zero_rtt", "s2c">>>>
    <3>1. InOrder(s, "zero_rtt", "s2c")
      BY <1>2, <2>4 DEF Pinning, InOrder
    <3> QED BY <3>1 DEF Levels, Directions
  <2> QED BY <1>2, <2>1, <2>2, <2>3, <2>4 DEF Pinning
<1>3. CASE Pinned(s)
  <2>1. CASE job[s] = <<<<"next", "c2s">>, <<"next", "s2c">>>> /\ Absent(s, "next")
    <3>1. InOrder(s, "next", "c2s")
      BY <1>3, <2>1 DEF Pinned, InOrder
    <3> QED BY <3>1 DEF Levels, Directions
  <2>2. CASE job[s] = <<<<"next", "s2c">>>> /\ Half(s, "next")
    <3>1. InOrder(s, "next", "s2c")
      BY <1>3, <2>2 DEF Pinned, InOrder
    <3> QED BY <3>1 DEF Levels, Directions
  <2>3. CASE job[s] = <<<<"early", "c2s">>, <<"early", "s2c">>>> /\ Absent(s, "early")
    <3>1. InOrder(s, "early", "c2s")
      BY <1>3, <2>3 DEF Pinned, InOrder
    <3> QED BY <3>1 DEF Levels, Directions
  <2>4. CASE job[s] = <<<<"early", "s2c">>>> /\ Half(s, "early")
    <3>1. InOrder(s, "early", "s2c")
      BY <1>3, <2>4 DEF Pinned, InOrder
    <3> QED BY <3>1 DEF Levels, Directions
  <2> QED BY <1>3, <2>1, <2>2, <2>3, <2>4 DEF Pinned
<1> QED BY <1>1, <1>2, <1>3 DEF Stage

\* An export takes the side on to the next point of its stage.
LEMMA ExportStages ==
    ASSUME Shape, NEW s \in Sides, Stage(s), ExportSecret(s)
    PROVE  Stage(s)'
<1> USE DEF Absent, Half, Full, NothingLater
<1>1. job[s] # <<>> /\ state' = state
  BY DEF ExportSecret
<1>2. ASSUME NEW l \in Levels, NEW d \in Directions, Head(job[s]) = <<l, d>>
      PROVE  /\ keys'[s][l][d] # None
             /\ \A m \in Levels, f \in Directions :
                   ~(m = l /\ f = d) => keys'[s][m][f] = keys[s][m][f]
             /\ job'[s] = Tail(job[s])
  <2>1. PICK new : /\ new # None /\ new.epoch = group[s] /\ new.context = Context(l)
                   /\ \A t \in Sides, m \in Levels, f \in Directions :
                         keys'[t][m][f] = IF t = s /\ m = l /\ f = d
                                          THEN new ELSE keys[t][m][f]
    <3>1. Writes(s, l, d)
      BY <1>2, ExportWrites
    <3> QED BY <3>1, Zenon DEF Writes
  <2>2. job'[s] = Tail(job[s])
    BY <1>2, ExportWrites DEF Writes
  <2> QED BY <2>1, <2>2
<1>3. CASE Pinning(s)
  <2>1. CASE job[s] = <<<<"upgrade", "c2s">>, <<"upgrade", "s2c">>,
                        <<"zero_rtt", "c2s">>, <<"zero_rtt", "s2c">>>>
    <3>1. Pinning(s)'
      BY <1>1, <1>2, <1>3, <2>1 DEF Pinning, Levels, Directions
    <3> QED BY <3>1 DEF Stage
  <2>2. CASE job[s] = <<<<"upgrade", "s2c">>, <<"zero_rtt", "c2s">>, <<"zero_rtt", "s2c">>>>
    <3>1. Pinning(s)'
      BY <1>1, <1>2, <1>3, <2>2 DEF Pinning, Levels, Directions
    <3> QED BY <3>1 DEF Stage
  <2>3. CASE job[s] = <<<<"zero_rtt", "c2s">>, <<"zero_rtt", "s2c">>>>
    <3>1. Pinning(s)'
      BY <1>1, <1>2, <1>3, <2>3 DEF Pinning, Levels, Directions
    <3> QED BY <3>1 DEF Stage
  <2>4. CASE job[s] = <<<<"zero_rtt", "s2c">>>>
    <3>1. Pinned(s)'
      BY <1>1, <1>2, <1>3, <2>4 DEF Pinning, Pinned, NextAsked, Levels, Directions
    <3> QED BY <3>1 DEF Stage
  <2> QED BY <1>3, <2>1, <2>2, <2>3, <2>4 DEF Pinning
<1>4. CASE Pinned(s)
  <2>1. CASE job[s] = <<<<"next", "c2s">>, <<"next", "s2c">>>>
    <3>1. Pinned(s)'
      BY <1>1, <1>2, <1>4, <2>1 DEF Pinned, Levels, Directions
    <3> QED BY <3>1 DEF Stage
  <2>2. CASE job[s] = <<<<"next", "s2c">>>>
    <3>1. Pinned(s)'
      BY <1>1, <1>2, <1>4, <2>2 DEF Pinned, NextAsked, Levels, Directions
    <3> QED BY <3>1 DEF Stage
  <2>3. CASE job[s] = <<<<"early", "c2s">>, <<"early", "s2c">>>>
    <3>1. Pinned(s)'
      BY <1>1, <1>2, <1>4, <2>3 DEF Pinned, NextAsked, Levels, Directions
    <3> QED BY <3>1 DEF Stage
  <2>4. CASE job[s] = <<<<"early", "s2c">>>>
    <3>1. Pinned(s)'
      BY <1>1, <1>2, <1>4, <2>4 DEF Pinned, NextAsked, Levels, Directions
    <3> QED BY <3>1 DEF Stage
  <2> QED BY <1>1, <1>4, <2>1, <2>2, <2>3, <2>4 DEF Pinned
<1>5. CASE Unpinned(s)
  BY <1>1, <1>5 DEF Unpinned
<1> QED BY <1>3, <1>4, <1>5 DEF Stage

\* Who has finished makes no further call.
LEMMA FinishedIsIdle ==
    ASSUME NEW s \in Sides, Finished(s)
    PROVE  ~ExportSecret(s) /\ ~Pin(s) /\ ~TakeUpgrade(s) /\ ~TakeZeroRtt(s) /\ ~EarlyCrypto(s)
BY DEF Finished, Full, ExportSecret, Pin, TakeUpgrade, TakeZeroRtt, EarlyCrypto, WriteHandshake,
       Has, Levels

LEMMA SettledKept ==
    ASSUME Settled, keys' = keys, job' = job, state' = state, connected' = connected
    PROVE  Settled'
BY DEF Settled, Finished, Full, Agree

LEMMA EpochsKept ==
    ASSUME Contexts, OneEpoch, Growing, keys' = keys, group' = group, connected' = connected
    PROVE  Contexts' /\ OneEpoch' /\ Growing'
BY DEF Contexts, OneEpoch, Growing

\* Alice exports before she is connected, and so in the epoch of her other keys; Bob
\* exports in an epoch no smaller than before and no greater than hers.
LEMMA ExportKeeps == ASSUME Inv, NEW s \in Sides, ExportSecret(s) PROVE Inv'
<1> USE DEF Inv
<1>1. job[s] # <<>>
  BY DEF ExportSecret
<1>2. PICK l \in Levels, d \in Directions : InOrder(s, l, d)
  BY <1>1, ExportInOrder
<1>3. /\ keys' \in [Sides -> [Levels -> [Directions -> Secrets \cup {None}]]]
      /\ job' \in [Sides -> Seq(Levels \X Directions)]
      /\ \A t \in Sides \ {s} : job'[t] = job[t]
      /\ group' = group /\ state' = state /\ peer_params' = peer_params /\ connected' = connected
  BY <1>2, ExportWrites DEF InOrder, Writes
<1>4. PICK new : /\ new # None /\ new.epoch = group[s] /\ new.context = Context(l)
                 /\ \A t \in Sides, m \in Levels, f \in Directions :
                       keys'[t][m][f] = IF t = s /\ m = l /\ f = d
                                        THEN new ELSE keys[t][m][f]
  <2>1. Writes(s, l, d)
    BY <1>2, ExportWrites DEF InOrder
  <2> QED BY <2>1, Zenon DEF Writes
<1>5. \A t \in Sides : ~connected[t]
  <2>1. ~Finished(s)
    BY <1>1 DEF Finished
  <2> QED BY <2>1 DEF Settled
<1>6. /\ group["Client"] \in Nat /\ group["Server"] \in Nat
      /\ group["Server"] <= group["Client"]
      /\ "Client" \in Sides /\ "Server" \in Sides /\ Sides = {"Client", "Server"}
  BY DEF Shape, Sides
<1>7. ASSUME NEW t \in Sides, NEW m \in Levels, NEW f \in Directions, keys[t][m][f] # None
      PROVE  keys[t][m][f].epoch \in Nat
  <2>1. keys[t][m][f] \in Secrets
    BY <1>7 DEF Shape
  <2>2. \A x \in Secrets : x.epoch \in 0..MaxEpoch
    BY DEF Secrets
  <2>3. keys[t][m][f].epoch \in 0..MaxEpoch
    BY <2>1, <2>2, Zenon
  <2> QED BY <2>3, HandshakeConstants
<1>8. Shape'
  BY <1>3, Zenon DEF Shape
<1>9. \A t \in Sides : Stage(t)'
  <2>1. Stage(s)'
    BY ExportStages
  <2>2. ASSUME NEW t \in Sides, t # s PROVE Stage(t)'
    <3>1. keys'[t] = keys[t]
      <4>1. keys'[t] \in [Levels -> [Directions -> Secrets \cup {None}]]
            /\ keys[t] \in [Levels -> [Directions -> Secrets \cup {None}]]
        BY <1>3 DEF Shape
      <4>2. \A m \in Levels, f \in Directions : keys'[t][m][f] = keys[t][m][f]
        BY <1>4, <2>2
      <4>3. ASSUME NEW m \in Levels PROVE keys'[t][m] = keys[t][m]
        BY <4>1, <4>2
      <4> QED BY <4>1, <4>3
    <3>2. job'[t] = job[t]
      BY <1>3, <2>2
    <3> QED BY <1>3, <3>1, <3>2, StageKept
  <2> QED BY <2>1, <2>2
<1>10. Contexts'
  <2>1. ASSUME NEW t \in Sides, NEW m \in Levels, NEW f \in Directions, keys'[t][m][f] # None
        PROVE  keys'[t][m][f].context = Context(m)
    <3>1. CASE t = s /\ m = l /\ f = d
      <4>1. keys'[t][m][f] = new
        BY <1>4, <3>1
      <4> QED BY <1>4, <3>1, <4>1, Zenon
    <3>2. CASE ~(t = s /\ m = l /\ f = d)
      <4>1. keys'[t][m][f] = keys[t][m][f]
        BY <1>4, <3>2
      <4> QED BY <2>1, <4>1, Zenon DEF Contexts
    <3> QED BY <3>1, <3>2
  <2> QED BY <2>1, Zenon DEF Contexts
<1>11. \A m \in Levels, f \in Directions : keys["Client"][m][f] # None =>
          keys["Client"][m][f].epoch = group["Client"]
  BY <1>5, <1>6 DEF OneEpoch
<1>12. \A m \in Levels, f \in Directions : keys'["Client"][m][f] # None =>
          keys'["Client"][m][f].epoch = group["Client"]
  <2>1. SUFFICES ASSUME NEW m \in Levels, NEW f \in Directions, keys'["Client"][m][f] # None
                 PROVE  keys'["Client"][m][f].epoch = group["Client"]
    OBVIOUS
  <2>2. CASE s = "Client" /\ m = l /\ f = d
    <3>1. keys'["Client"][m][f] = new
      BY <1>4, <1>6, <2>2
    <3> QED BY <1>4, <2>2, <3>1, Zenon
  <2>3. CASE ~(s = "Client" /\ m = l /\ f = d)
    <3>1. keys'["Client"][m][f] = keys["Client"][m][f]
      BY <1>4, <1>6, <2>3
    <3> QED BY <1>11, <2>1, <3>1, Zenon
  <2> QED BY <2>2, <2>3
<1>13. OneEpoch'
  BY <1>3, <1>12 DEF OneEpoch
<1>14. \A g \in Levels, h \in Directions : keys["Server"][g][h] # None =>
          /\ keys["Server"][g][h].epoch \in Nat
          /\ keys["Server"][g][h].epoch <= group["Server"]
          /\ keys["Server"]["upgrade"]["c2s"].epoch <= keys["Server"][g][h].epoch
          /\ <<g, h>> # <<"upgrade", "c2s">> =>
                keys["Server"]["upgrade"]["s2c"].epoch <= keys["Server"][g][h].epoch
  <2> HIDE DEF Inv
  <2>1. Growing
    BY DEF Inv
  <2> QED BY <1>6, <1>7, <2>1 DEF Growing
<1>15. ASSUME NEW m \in Levels, NEW f \in Directions, keys'["Server"][m][f] # None
       PROVE  /\ keys'["Server"][m][f].epoch \in Nat
              /\ keys'["Server"][m][f].epoch <= group["Server"]
              /\ keys'["Server"]["upgrade"]["c2s"].epoch <= keys'["Server"][m][f].epoch
              /\ <<m, f>> # <<"upgrade", "c2s">> =>
                    keys'["Server"]["upgrade"]["s2c"].epoch <= keys'["Server"][m][f].epoch
  <2> HIDE DEF Inv
  <2>0. "upgrade" \in Levels /\ "c2s" \in Directions /\ "s2c" \in Directions
    BY DEF Levels, Directions
  <2>1. CASE s = "Client"
    <3>1. \A g \in Levels, h \in Directions : keys'["Server"][g][h] = keys["Server"][g][h]
      BY <1>4, <1>6, <2>1
    <3> QED BY <1>14, <1>15, <2>0, <3>1
  <2>2. CASE s = "Server"
    <3>1. \A g \in Levels, h \in Directions :
              keys'["Server"][g][h] = IF g = l /\ h = d THEN new ELSE keys["Server"][g][h]
      BY <1>4, <1>6, <2>2
    <3>2. new.epoch = group["Server"] /\ group["Server"] \in Nat
      BY <1>4, <1>6, <2>2
    <3>3. CASE l = "upgrade" /\ d = "c2s"
      <4>1. m = l /\ f = d
        BY <1>2, <1>15, <2>2, <3>1, <3>3 DEF InOrder
      <4>2. keys'["Server"][m][f].epoch = group["Server"]
        BY <3>1, <3>2, <4>1
      <4> QED BY <3>2, <3>3, <4>1, <4>2
    <3>4. CASE l = "upgrade" /\ d = "s2c"
      <4>1. m = "upgrade" /\ (f = "c2s" \/ f = "s2c")
        BY <1>2, <1>15, <2>2, <3>1, <3>4 DEF InOrder, Directions
      <4>2. /\ keys'["Server"]["upgrade"]["s2c"].epoch = group["Server"]
            /\ keys'["Server"]["upgrade"]["c2s"] = keys["Server"]["upgrade"]["c2s"]
            /\ keys["Server"]["upgrade"]["c2s"] # None
        BY <1>2, <2>0, <2>2, <3>1, <3>2, <3>4 DEF InOrder
      <4>3. keys["Server"]["upgrade"]["c2s"].epoch \in Nat
            /\ keys["Server"]["upgrade"]["c2s"].epoch <= group["Server"]
        BY <1>14, <2>0, <4>2
      <4> QED BY <3>2, <4>1, <4>2, <4>3
    <3>5. CASE l # "upgrade"
      <4>1. /\ keys'["Server"]["upgrade"]["c2s"] = keys["Server"]["upgrade"]["c2s"]
            /\ keys'["Server"]["upgrade"]["s2c"] = keys["Server"]["upgrade"]["s2c"]
            /\ keys["Server"]["upgrade"]["c2s"] # None
            /\ keys["Server"]["upgrade"]["s2c"] # None
        BY <1>2, <2>0, <2>2, <3>1, <3>5 DEF InOrder, Full
      <4>2. /\ keys["Server"]["upgrade"]["c2s"].epoch <= group["Server"]
            /\ keys["Server"]["upgrade"]["s2c"].epoch <= group["Server"]
        BY <1>14, <2>0, <4>1
      <4>3. CASE m = l /\ f = d
        <5>1. keys'["Server"][m][f].epoch = group["Server"]
          BY <3>1, <3>2, <4>3
        <5> QED BY <3>2, <4>1, <4>2, <5>1
      <4>4. CASE ~(m = l /\ f = d)
        <5>1. keys'["Server"][m][f] = keys["Server"][m][f]
          BY <3>1, <4>4
        <5> QED BY <1>14, <1>15, <4>1, <5>1
      <4> QED BY <4>3, <4>4
    <3> QED BY <3>3, <3>4, <3>5 DEF Directions
  <2> QED BY <1>6, <2>1, <2>2
<1>16. Growing'
  <2> HIDE DEF Inv
  <2>1. ASSUME NEW m \in Levels, NEW f \in Directions, keys'["Server"][m][f] # None
        PROVE  keys'["Server"][m][f].epoch <= group["Client"]
    BY <1>6, <1>15, <2>1
  <2> QED BY <1>3, <1>12, <1>15, <2>1 DEF Growing
<1>17. Settled' /\ Read'
  BY <1>3, <1>5 DEF Settled, Read
<1> QED BY <1>8, <1>9, <1>10, <1>13, <1>16, <1>17

-----------------------------------------------------------------------------
LEMMA TwoAndTwo ==
    ASSUME NEW a, NEW b, NEW c, NEW d
    PROVE  <<a, b>> \o <<c, d>> = <<a, b, c, d>>
<1> DEFINE S == {a, b, c, d}
           z == <<a, b>> \o <<c, d>>
           w == <<a, b, c, d>>
<1>1. /\ <<a, b>> \in Seq(S) /\ <<c, d>> \in Seq(S) /\ w \in Seq(S)
      /\ Len(<<a, b>>) = 2 /\ Len(<<c, d>>) = 2 /\ Len(w) = 4
      /\ w[1] = a /\ w[2] = b /\ w[3] = c /\ w[4] = d
  OBVIOUS
<1>2. \A x, y \in Seq(S) :
          /\ x \o y \in Seq(S) /\ Len(x \o y) = Len(x) + Len(y)
          /\ \A i \in 1..(Len(x) + Len(y)) :
                (x \o y)[i] = IF i <= Len(x) THEN x[i] ELSE y[i - Len(x)]
  OBVIOUS
<1>3. z \in Seq(S) /\ Len(z) = 4
  BY <1>1, <1>2
<1>4. z[1] = a /\ z[2] = b /\ z[3] = c /\ z[4] = d
  BY <1>1, <1>2
<1> HIDE DEF z, S, w
<1>5. \A i \in 1..4 : i = 1 \/ i = 2 \/ i = 3 \/ i = 4
  OBVIOUS
<1>6. \A i \in 1..4 : z[i] = w[i]
  BY <1>1, <1>4, <1>5
<1>7. z = w
  BY <1>1, <1>3, <1>6
<1> QED BY <1>7 DEF z, w

\* Calls of write_handshake, which export nothing yet.
LEMMA CallKeeps ==
    ASSUME Inv, NEW s \in Sides,
           Pin(s) \/ TakeUpgrade(s) \/ TakeZeroRtt(s) \/ EarlyCrypto(s)
    PROVE  Inv'
<1> USE DEF Inv
<1>1. /\ group' = group /\ peer_params' = peer_params /\ keys' = keys /\ connected' = connected
      /\ job[s] = <<>>
  BY DEF Pin, TakeUpgrade, TakeZeroRtt, EarlyCrypto, WriteHandshake
<1>2. /\ state' \in [Sides -> {"Initial", "AwaitingZeroRttKeys", "ConfirmingZeroRttKeys", "Done"}]
      /\ \A t \in Sides \ {s} : state'[t] = state[t]
      /\ state'[s] \in {"ConfirmingZeroRttKeys", "Done"} => peer_params[s]
  <2>1. CASE Pin(s)
    BY <2>1 DEF Pin, WriteHandshake, Shape
  <2>2. CASE TakeUpgrade(s)
    BY <2>2 DEF TakeUpgrade, WriteHandshake, Shape
  <2>3. CASE TakeZeroRtt(s)
    BY <2>3 DEF TakeZeroRtt, WriteHandshake, Shape, Read
  <2>4. CASE EarlyCrypto(s)
    BY <2>4 DEF EarlyCrypto, Shape, Read
  <2> QED BY <2>1, <2>2, <2>3, <2>4
<1>3. /\ job' \in [Sides -> Seq(Levels \X Directions)]
      /\ \A t \in Sides \ {s} : job'[t] = job[t]
  <2>1. ASSUME NEW derive \in Seq(Levels \X Directions), job' = [job EXCEPT ![s] = derive]
        PROVE  /\ job' \in [Sides -> Seq(Levels \X Directions)]
               /\ \A t \in Sides \ {s} : job'[t] = job[t]
    <3> HIDE DEF Inv
    <3> QED BY <2>1 DEF Inv, Shape
  <2>2. \A l \in Levels : Derive(l) \in Seq(Levels \X Directions)
    BY DEF Derive, Directions
  <2>3. CASE Pin(s)
    <3>1. Derive("upgrade") \o Derive("zero_rtt") \in Seq(Levels \X Directions)
      BY <2>2 DEF Levels
    <3> QED BY <2>1, <2>3, <3>1 DEF Pin, WriteHandshake
  <2>4. CASE TakeUpgrade(s)
    <3>1. <<>> \in Seq(Levels \X Directions)
      OBVIOUS
    <3> QED BY <2>1, <2>4, <3>1 DEF TakeUpgrade, WriteHandshake
  <2>5. CASE TakeZeroRtt(s)
    <3>1. Derive("next") \in Seq(Levels \X Directions)
      BY <2>2 DEF Levels
    <3> QED BY <2>1, <2>5, <3>1 DEF TakeZeroRtt, WriteHandshake
  <2>6. CASE EarlyCrypto(s)
    <3>1. Derive("early") \in Seq(Levels \X Directions)
      BY <2>2 DEF Levels
    <3> QED BY <2>1, <2>6, <3>1 DEF EarlyCrypto
  <2> QED BY <2>3, <2>4, <2>5, <2>6
<1>4. Shape'
  BY <1>1, <1>2, <1>3, Zenon DEF Shape
<1>5. Stage(s)'
  <2> USE DEF Absent, Half, Full, NothingLater
  <2>1. s \in DOMAIN state /\ s \in DOMAIN job
    BY DEF Shape
  <2>2. Stage(s) /\ keys'[s] = keys[s]
    BY <1>1
  <2>3. CASE Pin(s)
    <3>1. Unpinned(s)
      BY <1>1, <2>2, <2>3 DEF Pin, WriteHandshake, Stage, Pinning, Pinned
    <3>2. state'[s] = "AwaitingZeroRttKeys"
          /\ job'[s] = Derive("upgrade") \o Derive("zero_rtt")
      BY <2>1, <2>3 DEF Pin, WriteHandshake
    <3>3. Derive("upgrade") \o Derive("zero_rtt") =
              <<<<"upgrade", "c2s">>, <<"upgrade", "s2c">>,
                <<"zero_rtt", "c2s">>, <<"zero_rtt", "s2c">>>>
      BY TwoAndTwo DEF Derive
    <3>4. Pinning(s)'
      <4> HIDE DEF Inv
      <4> QED BY <2>2, <3>1, <3>2, <3>3 DEF Unpinned, Pinning
    <3> QED BY <3>4 DEF Stage
  <2>4. CASE TakeUpgrade(s)
    <3>1. Pinned(s) /\ state[s] = "AwaitingZeroRttKeys"
      BY <1>1, <2>2, <2>4 DEF TakeUpgrade, WriteHandshake, Stage, Pinning, Unpinned
    <3>2. state'[s] = "ConfirmingZeroRttKeys" /\ job'[s] = <<>>
      BY <2>1, <2>4 DEF TakeUpgrade, WriteHandshake
    <3>3. Pinned(s)'
      <4> HIDE DEF Inv
      <4> QED BY <1>1, <2>2, <3>1, <3>2 DEF Pinned, NextAsked
    <3> QED BY <3>3 DEF Stage
  <2>5. CASE TakeZeroRtt(s)
    <3>1. Pinned(s) /\ state[s] = "ConfirmingZeroRttKeys"
      BY <1>1, <2>2, <2>5 DEF TakeZeroRtt, WriteHandshake, Stage, Pinning, Unpinned
    <3>2. state'[s] = "Done" /\ job'[s] = <<<<"next", "c2s">>, <<"next", "s2c">>>>
      BY <2>1, <2>5 DEF TakeZeroRtt, WriteHandshake, Derive
    <3>3. Pinned(s)'
      <4> HIDE DEF Inv
      <4> QED BY <1>1, <2>2, <3>1, <3>2 DEF Pinned, NextAsked
    <3> QED BY <3>3 DEF Stage
  <2>6. CASE EarlyCrypto(s)
    <3>1. state[s] \in {"AwaitingZeroRttKeys", "Done"} /\ state'[s] = state[s]
      BY <2>6 DEF EarlyCrypto
    <3>2. job'[s] = <<<<"early", "c2s">>, <<"early", "s2c">>>>
      BY <2>1, <2>6 DEF EarlyCrypto, Derive
    <3>3. keys[s]["early"]["c2s"] = None
      BY <1>1, <2>6 DEF EarlyCrypto, Has
    <3>4. Pinned(s)
      BY <1>1, <2>2, <3>1 DEF Stage, Pinning, Unpinned
    <3>5. Pinned(s)'
      <4> HIDE DEF Inv
      <4> QED BY <1>1, <2>2, <3>1, <3>2, <3>3, <3>4 DEF Pinned, NextAsked
    <3> QED BY <3>5 DEF Stage
  <2> QED BY <2>3, <2>4, <2>5, <2>6
<1>6. \A t \in Sides : Stage(t)'
  BY <1>1, <1>2, <1>3, <1>5, StageKept
<1>7. Contexts' /\ OneEpoch' /\ Growing'
  BY <1>1, EpochsKept
<1>8. Settled'
  <2>1. \A t \in Sides : ~connected[t]
    BY FinishedIsIdle DEF Settled
  <2> QED BY <1>1, <2>1 DEF Settled
<1>9. Read'
  BY <1>1, <1>2 DEF Read
<1> QED BY <1>4, <1>6, <1>7, <1>8, <1>9

LEMMA ReadInitialKeeps == ASSUME Inv, NEW s \in Sides, ReadInitial(s) PROVE Inv'
<1> USE DEF Inv
<1>1. /\ group' = group /\ state' = state /\ keys' = keys /\ job' = job /\ connected' = connected
      /\ peer_params' = [peer_params EXCEPT ![s] = TRUE]
  BY DEF ReadInitial
<1>2. peer_params' \in [Sides -> BOOLEAN] /\ \A t \in Sides : peer_params[t] => peer_params'[t]
  BY <1>1 DEF Shape
<1>3. Shape'
  BY <1>1, <1>2, Zenon DEF Shape
<1>4. \A t \in Sides : Stage(t)'
  BY <1>1, StageKept
<1>5. Contexts' /\ OneEpoch' /\ Growing' /\ Settled'
  BY <1>1, EpochsKept, SettledKept
<1>6. Read'
  BY <1>1, <1>2 DEF Read
<1> QED BY <1>3, <1>4, <1>5, <1>6

LEMMA SecretsAre ==
    \A y \in Secrets : y.epoch \in Int /\ y = [epoch |-> y.epoch, context |-> y.context]
<1>1. \A y \in Secrets : y.epoch \in 0..MaxEpoch
  BY DEF Secrets
<1>2. 0..MaxEpoch \subseteq Int
  BY HandshakeConstants
<1>3. ASSUME NEW E, NEW C, NEW y \in [epoch : E, context : C]
      PROVE  y = [epoch |-> y.epoch, context |-> y.context]
  OBVIOUS
<1>4. \A y \in Secrets : y = [epoch |-> y.epoch, context |-> y.context]
  BY <1>3 DEF Secrets
<1> QED BY <1>1, <1>2, <1>4, Zenon

\* The agreement of one of Bob's secrets vouches for all he exported after it.
LEMMA OneVouches ==
    ASSUME Inv, \A t \in Sides : Finished(t), NEW x \in Directions, Agree("upgrade", x),
           NEW l \in Levels, NEW d \in Directions, x = "c2s" \/ <<l, d>> # <<"upgrade", "c2s">>
    PROVE  Agree(l, d)
<1> DEFINE a == keys["Client"]
           b == keys["Server"]
<1>1. /\ "upgrade" \in Levels /\ "Client" \in Sides /\ "Server" \in Sides
      /\ Directions = {"c2s", "s2c"}
  BY DEF Levels, Sides, Directions
<1>2. \A m \in Levels, f \in Directions : a[m][f] # None /\ b[m][f] # None
  BY <1>1 DEF Finished, Full
<1>3. \A m \in Levels, f \in Directions : a[m][f] \in Secrets /\ b[m][f] \in Secrets
  BY <1>1, <1>2 DEF Inv, Shape
<1>4. \A y \in Secrets : y.epoch \in Int /\ y = [epoch |-> y.epoch, context |-> y.context]
  BY SecretsAre
<1>5. a[l][d].context = b[l][d].context
  BY <1>1, <1>2 DEF Inv, Contexts
<1>6. a["upgrade"][x].epoch = a[l][d].epoch
  BY <1>1, <1>2 DEF Inv, OneEpoch
<1>7. b["upgrade"][x].epoch <= b[l][d].epoch /\ b[l][d].epoch <= a[l][d].epoch
  BY <1>1, <1>2 DEF Inv, Growing
<1>8. a["upgrade"][x] = b["upgrade"][x]
  BY DEF Agree
<1>9. /\ a[l][d] \in Secrets /\ b[l][d] \in Secrets
      /\ a["upgrade"][x] \in Secrets /\ b["upgrade"][x] \in Secrets
  BY <1>1, <1>3
<1> HIDE DEF a, b
<1>10. a[l][d].epoch = b[l][d].epoch
  <2>1. a[l][d].epoch \in Int /\ b[l][d].epoch \in Int /\ b["upgrade"][x].epoch \in Int
    BY <1>4, <1>9
  <2>2. b["upgrade"][x].epoch = a[l][d].epoch
    BY <1>6, <1>8
  <2> QED BY <1>7, <2>1, <2>2
<1>11. a[l][d] = b[l][d]
  BY <1>4, <1>5, <1>9, <1>10, Zenon
<1> QED BY <1>11 DEF Agree, a, b

LEMMA ReadHandshakeKeeps == ASSUME Inv, NEW s \in Sides, ReadHandshake(s) PROVE Inv'
<1> USE DEF Inv
<1>1. /\ group' = group /\ state' = state /\ keys' = keys /\ job' = job
      /\ peer_params' = peer_params /\ connected' = [connected EXCEPT ![s] = TRUE]
      /\ Agree("upgrade", Incoming(s))
  BY DEF ReadHandshake, CanConnect
<1>2. ASSUME NEW t \in Sides PROVE Finished(t)
  <2>1. Peer(s) \in Sides /\ (t = s \/ t = Peer(s))
    BY DEF Sides, Peer
  <2>2. HandshakeSent(t)
    BY <2>1 DEF ReadHandshake, CanConnect
  <2>3. /\ job[t] = <<>> /\ keys[t]["early"]["c2s"] # None /\ keys[t]["next"]["c2s"] # None
    BY <2>2 DEF HandshakeSent, Has
  <2>4. Pinned(t)
    BY <2>3 DEF Stage, Unpinned, Pinning, NothingLater, Absent
  <2>5. state[t] = "Done" /\ Full(t, "next") /\ Full(t, "early")
        /\ Full(t, "upgrade") /\ Full(t, "zero_rtt")
    <3> HIDE DEF Inv
    <3> QED BY <2>3, <2>4 DEF Pinned, NextAsked, Absent, Full
  <2> QED BY <2>3, <2>5 DEF Finished, Levels
<1>3. connected' \in [Sides -> BOOLEAN] /\ \A t \in Sides \ {s} : connected'[t] = connected[t]
  BY <1>1 DEF Shape
<1>4. Shape'
  BY <1>1, <1>3, Zenon DEF Shape
<1>5. \A t \in Sides : Stage(t)'
  BY <1>1, StageKept
<1>6. Contexts' /\ Growing' /\ Read'
  BY <1>1 DEF Contexts, Growing, Read
<1>7. OneEpoch'
  <2>1. connected["Client"] => connected'["Client"]
    BY <1>1 DEF Shape, Sides
  <2> QED BY <1>1, <2>1 DEF OneEpoch
<1>8. ASSUME NEW t \in Sides, connected'[t], NEW l \in Levels, NEW d \in Directions,
             t = "Server" \/ <<l, d>> # <<"upgrade", "c2s">>
      PROVE  Agree(l, d)
  <2>1. CASE t = s
    <3>1. Incoming(s) \in Directions /\ (Incoming(s) = "c2s" \/ <<l, d>> # <<"upgrade", "c2s">>)
      BY <1>8, <2>1 DEF Incoming, Directions, Sides
    <3> QED BY <1>1, <1>2, <3>1, OneVouches
  <2>2. CASE t # s
    BY <1>3, <1>8, <2>2 DEF Settled
  <2> QED BY <2>1, <2>2
<1>9. Settled'
  <2>1. \A t \in Sides : Finished(t)'
    BY <1>1, <1>2 DEF Finished, Full
  <2>2. \A l \in Levels, d \in Directions : Agree(l, d)' <=> Agree(l, d)
    BY <1>1 DEF Agree
  <2> QED BY <1>8, <2>1, <2>2 DEF Settled
<1> QED BY <1>4, <1>5, <1>6, <1>7, <1>9

\* Commits and windows, which touch no key.
LEMMA GroupKeeps == ASSUME Inv, Commit \/ Apply PROVE Inv'
<1> USE DEF Inv
<1>1. /\ state' = state /\ keys' = keys /\ job' = job
      /\ peer_params' = peer_params /\ connected' = connected
  BY DEF Commit, Apply
<1>2. /\ group' \in [Sides -> 0..MaxEpoch] /\ group'["Server"] <= group'["Client"]
      /\ group["Server"] <= group'["Server"]
      /\ ~connected["Client"] => group'["Client"] = group["Client"]
      /\ group["Server"] \in Int /\ group'["Server"] \in Int
  <2>1. group["Client"] \in 0..MaxEpoch /\ group["Server"] \in 0..MaxEpoch
        /\ "Client" \in Sides /\ "Server" \in Sides
    BY DEF Shape, Sides
  <2>2. CASE Commit
    BY <2>1, <2>2, HandshakeConstants DEF Commit, Shape
  <2>3. CASE Apply
    BY <2>1, <2>3, HandshakeConstants DEF Apply, Shape
  <2> QED BY <2>2, <2>3
<1>3. Shape'
  BY <1>1, <1>2, Zenon DEF Shape
<1>4. \A t \in Sides : Stage(t)'
  BY <1>1, StageKept
<1>5. Contexts' /\ OneEpoch' /\ Settled' /\ Read'
  BY <1>1, <1>2, SettledKept DEF Contexts, OneEpoch, Read
<1>6. Growing'
  <2>1. ASSUME NEW l \in Levels, NEW d \in Directions, keys["Server"][l][d] # None
        PROVE  keys["Server"][l][d].epoch <= group'["Server"]
    <3>1. keys["Server"][l][d].epoch <= group["Server"]
      BY <2>1 DEF Growing
    <3>2. keys["Server"][l][d] \in Secrets
      BY <2>1 DEF Shape, Sides
    <3>3. \A y \in Secrets : y.epoch \in Int
      BY SecretsAre
    <3> QED BY <1>2, <3>1, <3>2, <3>3
  <2> QED BY <1>1, <2>1 DEF Growing
<1> QED BY <1>3, <1>4, <1>5, <1>6

LEMMA InvKept == ASSUME Inv, [Next]_vars PROVE Inv'
<1>1. CASE UNCHANGED vars
  <2>1. /\ group' = group /\ state' = state /\ keys' = keys /\ job' = job
        /\ peer_params' = peer_params /\ connected' = connected
    BY <1>1 DEF vars
  <2>2. Shape' /\ Read'
    BY <2>1, Zenon DEF Inv, Shape, Read
  <2> QED BY <2>1, <2>2, StageKept, EpochsKept, SettledKept DEF Inv
<1> QED
  BY <1>1, CallKeeps, ExportKeeps, ReadInitialKeeps, ReadHandshakeKeeps, GroupKeeps, Zenon
     DEF Next, SessionStep

LEMMA InvHolds == Spec => []Inv
BY InvStarts, InvKept, PTL DEF Spec

\* Types; a session that is done has read its peer's parameters and prepared the first
\* key update (session.rs:129-141).
THEOREM TypeCorrect == Spec => []TypeOK
<1>1. ASSUME Inv PROVE TypeOK
  <2>1. ASSUME NEW s \in Sides, state[s] = "Done" PROVE peer_params[s] /\ (Idle(s) => Has(s, "next"))
    <3>1. peer_params[s]
      BY <1>1, <2>1 DEF Inv, Read
    <3>2. ASSUME job[s] = <<>> PROVE keys[s]["next"]["c2s"] # None
      <4>1. Pinned(s)
        BY <1>1, <2>1 DEF Inv, Stage, Unpinned, Pinning
      <4> QED BY <2>1, <3>2, <4>1 DEF Pinned, NextAsked, Full
    <3> QED BY <3>1, <3>2 DEF Has
  <2> QED BY <1>1, <2>1, Zenon DEF Inv, Shape, TypeOK
<1> QED BY <1>1, InvHolds, PTL

\* Whoever is connected holds the keys its peer holds for all that goes over the
\* connection, whatever Bob's sink applies between his exports (session.rs:120-143,
\* 161-168).
THEOREM KeysShared == Spec => []ConnectedSidesShareKeys
<1>1. ASSUME Inv PROVE ConnectedSidesShareKeys
  BY <1>1 DEF Inv, Settled, ConnectedSidesShareKeys, Levels
<1> QED BY <1>1, InvHolds, PTL

\* When Bob takes the connection for established his Handshake packets, which are on
\* their way, open at Alice, whose session is done: she can take it for established too
\* (keys.rs:59-60).
THEOREM AliceCanConnect == Spec => []BothCanConnect
<1>1. ASSUME Inv PROVE BothCanConnect
  <2>1. ASSUME connected["Server"], NEW s \in Sides PROVE CanConnect(s)
    <3>1. \A t \in Sides : Finished(t)
      BY <1>1, <2>1 DEF Inv, Settled, Sides
    <3>2. \A t \in Sides : HandshakeSent(t) /\ state[t] = "Done"
      BY <3>1 DEF Finished, Full, HandshakeSent, Has, Levels
    <3>3. Peer(s) \in Sides /\ Incoming(s) \in Directions
      BY DEF Peer, Incoming, Sides, Directions
    <3>4. Agree("upgrade", Incoming(s))
      BY <1>1, <2>1, <3>3 DEF Inv, Settled, Sides, Levels
    <3> QED BY <3>2, <3>3, <3>4 DEF CanConnect
  <2> QED BY <2>1 DEF BothCanConnect
<1> QED BY <1>1, InvHolds, PTL
=============================================================================

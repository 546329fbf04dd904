--------------------------- MODULE KeyUpdate_proofs ---------------------------
(***************************************************************************)
(* Key updates stay in step, proved for every number of commits and        *)
(* packets, and for lossy and paced networks alike.                        *)
(*                                                                         *)
(* What keeps a side from running two ahead is that it holds on to its     *)
(* previous keys until a packet of the other's under the current ones has  *)
(* answered it, and makes no update of its own before; what keeps Bob from *)
(* leading after the first update is that from then on only a packet Alice *)
(* sent under the next generation makes him update.  Counting states both, *)
(* by the generations of the secrets packets were sent under.              *)
(***************************************************************************)
EXTENDS KeyUpdate, TLAPS

\* A secret that was exported.
Exported == [epoch : 0..MaxEpoch, generation : 0..(MaxEpoch + 2)]
Packets  == [to : Sides, pn : 1..MaxPackets, phase : 0..1, secret : Exported,
             epoch : 0..MaxEpoch]

Shape ==
    /\ group \in [Sides -> 0..MaxEpoch] /\ group["Server"] <= group["Client"]
    /\ preambles \subseteq 1..group["Client"]
    /\ generation \in [Sides -> 1..(MaxEpoch + 2)]
    /\ phase \in [Sides -> 0..1]
    /\ current \in [Sides -> [Directions -> Exported]]
    /\ next \in [Sides -> [Directions -> Exported]]
    /\ prev \in [Sides -> PairType]
    /\ end_packet \in [Sides -> 0..Unacked]
    /\ sent \in [Sides -> 0..MaxPackets]
    /\ packets \subseteq Packets
    /\ updating \in [Sides -> [pn : 0..Unacked, c2s : SecretType]]
    /\ rekeying \in BOOLEAN

\* A side's keys are those of consecutive generations, the last one counted.
Consecutive(s) ==
    /\ phase[s] = (generation[s] + 1) % 2
    /\ \A d \in Directions :
          /\ next[s][d].generation = generation[s]
          /\ current[s][d].generation = generation[s] - 1
          /\ prev[s] # NoPair => prev[s][d].generation = generation[s] - 2

\* And so are all it has ever exported.
Histories == phases \in [Sides -> Seq([Directions -> Exported])]
Numbered(s) ==
    /\ Len(phases[s]) = generation[s] + 1
    /\ \A i \in 1..Len(phases[s]), d \in Directions : phases[s][i][d].generation = i - 1

\* What the handshake prepared serves the first update.
K0 == Pair(Secret(0, 0), Secret(0, 0))
K1 == Pair(Secret(0, 1), Secret(0, 1))
Prepared(s) ==
    /\ generation[s] = 1 => current[s] = K0 /\ next[s] = K1 /\ prev[s] = NoPair
    /\ generation[s] = 2 => current[s] = K1 /\ prev[s] \in {K0, NoPair}

Keyed(s) == Consecutive(s) /\ Numbered(s) /\ Prepared(s)

\* A packet is under a generation its sender has made current.
SentBehind == \A p \in packets : p.secret.generation < generation[Peer(p.to)]

Leads(s) == generation[Peer(s)] < generation[s]
Behind   == Leads("Client")

\* A side updates because the other has gone ahead, or by itself and for the first time.
MayUpdate ==
    \A s \in Sides : updating[s] # NoUpdate =>
        /\ Leads(Peer(s)) \/ (generation[s] = 1 /\ updating[s].pn = Unacked)
        /\ updating[s].c2s \in Exported
        /\ updating[s].c2s.generation = generation[s] + 1

\* Until it is answered, a side that leads has keys to keep, and so makes no other update.
AwaitsAnswer == \A s \in Sides : Leads(s) => prev[s] # NoPair /\ end_packet[s] = Unacked

\* The first update is the only one in which Bob can lead.
BobLeadsOnce == Leads("Server") => generation["Server"] = 2

\* An update for each commit at most, and the one that quinn makes.
Paid ==
    generation["Client"] + (IF rekeying THEN 1 ELSE 0)
        <= group["Client"] + 1 + (IF generation["Client"] = 1 THEN 0 ELSE 1)

Inv ==
    /\ Shape /\ Histories
    /\ \A s \in Sides : Keyed(s)
    /\ SentBehind /\ MayUpdate /\ AwaitsAnswer /\ BobLeadsOnce /\ Paid /\ UpdatesInStep

-----------------------------------------------------------------------------
LEMMA PeerIsASide == \A s \in Sides : Peer(s) \in Sides /\ Peer(s) # s /\ Outgoing(s) \in Directions
BY DEF Sides, Peer, Outgoing, Directions

LEMMA PeersPeer == \A s \in Sides : Peer(Peer(s)) = s
BY DEF Sides, Peer

LEMMA InvStarts == Init => Inv
<1> SUFFICES ASSUME Init PROVE Inv
  OBVIOUS
<1> USE KeyUpdateConstants
<1>1. Pair(Secret(0, 0), Secret(0, 0)) \in [Directions -> Exported]
      /\ Pair(Secret(0, 1), Secret(0, 1)) \in [Directions -> Exported]
  BY DEF Pair, Secret, Directions, Exported
<1>6. K0 \in [Directions -> Exported] /\ K1 \in [Directions -> Exported]
      /\ phases = [s \in Sides |-> <<K0, K1>>]
  BY <1>1 DEF K0, K1, Init
<1>2. NoPair \in PairType /\ NoUpdate \in [pn : 0..Unacked, c2s : SecretType]
  BY DEF NoPair, Pair, Secret, PairType, SecretType, Directions, NoUpdate, Unacked
<1>3. Shape
  <2>1. 0 \in 0..Unacked /\ 1 \in 1..(MaxEpoch + 2) /\ 0 \in 0..MaxEpoch /\ 0 \in 0..MaxPackets
    BY DEF Unacked
  <2>2. /\ group \in [Sides -> 0..MaxEpoch] /\ group["Server"] <= group["Client"]
        /\ preambles \subseteq 1..group["Client"]
    BY <2>1 DEF Init, Sides
  <2>3. /\ generation \in [Sides -> 1..(MaxEpoch + 2)] /\ phase \in [Sides -> 0..1]
        /\ end_packet \in [Sides -> 0..Unacked] /\ sent \in [Sides -> 0..MaxPackets]
    BY <2>1 DEF Init
  <2>4. /\ current \in [Sides -> [Directions -> Exported]]
        /\ next \in [Sides -> [Directions -> Exported]]
        /\ prev \in [Sides -> PairType]
        /\ updating \in [Sides -> [pn : 0..Unacked, c2s : SecretType]]
    BY <1>1, <1>2, Zenon DEF Init
  <2>5. packets \subseteq Packets /\ rekeying \in BOOLEAN
    BY DEF Init
  <2> QED BY <2>2, <2>3, <2>4, <2>5 DEF Shape
<1>7. Histories
  <2>1. <<K0, K1>> \in Seq([Directions -> Exported])
    BY <1>6
  <2> QED BY <1>6, <2>1 DEF Histories
<1>4. ASSUME NEW s \in Sides PROVE Keyed(s)
  <2>1. Consecutive(s) /\ Prepared(s)
    BY DEF Init, Consecutive, Prepared, K0, K1, Pair, Secret, Directions
  <2>2. phases[s] = <<K0, K1>> /\ generation[s] = 1
    BY <1>6 DEF Init
  <2>3. \A d \in Directions : K0[d].generation = 0 /\ K1[d].generation = 1
    BY DEF K0, K1, Pair, Secret
  <2>4. Numbered(s)
    BY <2>2, <2>3 DEF Numbered
  <2> QED BY <2>1, <2>4 DEF Keyed
<1>5. SentBehind /\ MayUpdate /\ AwaitsAnswer /\ BobLeadsOnce /\ Paid /\ UpdatesInStep
  BY PeerIsASide DEF Init, SentBehind, MayUpdate, AwaitsAnswer, BobLeadsOnce, Leads, Paid,
                     UpdatesInStep, Sides
<1> QED BY <1>3, <1>4, <1>5, <1>7 DEF Inv

\* What an export in the middle of a call gives.
LEMMA NextSecretIsExported ==
    ASSUME Shape, NEW s \in Sides, generation[s] < MaxEpoch + 2
    PROVE  /\ NextSecret(s) \in Exported
           /\ NextSecret(s).generation = generation[s] + 1
<1>1. generation[s] \in 1..(MaxEpoch + 2) /\ group[s] \in 0..MaxEpoch
  BY DEF Shape
<1> QED BY <1>1, KeyUpdateConstants DEF NextSecret, Secret, Exported

\* update_keys keeps a side's generations consecutive.
LEMMA UpdateKeysKeeps ==
    ASSUME Shape, Histories, NEW s \in Sides, Keyed(s), generation[s] < MaxEpoch + 2,
           NEW new \in [Directions -> Exported], NEW end \in 0..Unacked,
           \A d \in Directions : new[d].generation = generation[s] + 1,
           UpdateKeys(s, new, end)
    PROVE  /\ generation' \in [Sides -> 1..(MaxEpoch + 2)] /\ phase' \in [Sides -> 0..1]
           /\ current' \in [Sides -> [Directions -> Exported]]
           /\ next' \in [Sides -> [Directions -> Exported]]
           /\ prev' \in [Sides -> PairType] /\ end_packet' \in [Sides -> 0..Unacked]
           /\ Histories'
           /\ Keyed(s)'
           /\ generation'[s] = generation[s] + 1
           /\ prev'[s] # NoPair /\ end_packet'[s] = end
           /\ \A t \in Sides \ {s} : /\ generation'[t] = generation[t] /\ phase'[t] = phase[t]
                                     /\ current'[t] = current[t] /\ next'[t] = next[t]
                                     /\ prev'[t] = prev[t] /\ end_packet'[t] = end_packet[t]
                                     /\ phases'[t] = phases[t]
<1> USE KeyUpdateConstants
<1>1. /\ generation[s] \in 1..(MaxEpoch + 2) /\ phase[s] \in 0..1
      /\ current[s] \in [Directions -> Exported] /\ next[s] \in [Directions -> Exported]
  BY DEF Shape
<1>0. /\ generation' = [generation EXCEPT ![s] = @ + 1]
      /\ current' = [current EXCEPT ![s] = next[s]]
      /\ next' = [next EXCEPT ![s] = new]
      /\ prev' = [prev EXCEPT ![s] = current[s]]
      /\ end_packet' = [end_packet EXCEPT ![s] = end]
      /\ phase' = [phase EXCEPT ![s] = 1 - @]
  BY Zenon DEF UpdateKeys
<1>2. current[s] \in PairType
  BY <1>1 DEF Exported, PairType, SecretType
<1>3. /\ generation' \in [Sides -> 1..(MaxEpoch + 2)] /\ generation'[s] = generation[s] + 1
      /\ \A t \in Sides \ {s} : generation'[t] = generation[t]
  BY <1>0, <1>1 DEF Shape
<1>4. /\ phase' \in [Sides -> 0..1] /\ phase'[s] = 1 - phase[s]
      /\ \A t \in Sides \ {s} : phase'[t] = phase[t]
  BY <1>0, <1>1 DEF Shape
<1>5. /\ current' \in [Sides -> [Directions -> Exported]] /\ current'[s] = next[s]
      /\ next' \in [Sides -> [Directions -> Exported]] /\ next'[s] = new
      /\ \A t \in Sides \ {s} : current'[t] = current[t] /\ next'[t] = next[t]
  BY <1>0, <1>1 DEF Shape
<1>6. /\ prev' \in [Sides -> PairType] /\ prev'[s] = current[s]
      /\ end_packet' \in [Sides -> 0..Unacked] /\ end_packet'[s] = end
      /\ \A t \in Sides \ {s} : prev'[t] = prev[t] /\ end_packet'[t] = end_packet[t]
  BY <1>0, <1>2 DEF Shape
<1>7. current[s] # NoPair
  <2>1. current[s]["c2s"].epoch >= 0
    BY <1>1 DEF Exported, Directions
  <2>2. NoPair["c2s"].epoch = -1
    BY DEF NoPair, Pair, Secret, Directions
  <2> QED BY <2>1, <2>2
<1>8. Consecutive(s)'
  <2>1. phase'[s] = (generation'[s] + 1) % 2
    <3>1. \A g \in Nat : \A b : b = (g + 1) % 2 => 1 - b = (g + 1 + 1) % 2
      OBVIOUS
    <3>2. phase[s] = (generation[s] + 1) % 2 /\ generation[s] \in Nat
      BY <1>1 DEF Keyed, Consecutive
    <3>3. 1 - phase[s] = (generation[s] + 1 + 1) % 2
      BY <3>1, <3>2, Zenon
    <3> QED BY <1>3, <1>4, <3>3, Zenon
  <2>2. ASSUME NEW d \in Directions
        PROVE  /\ next'[s][d].generation = generation'[s]
               /\ current'[s][d].generation = generation'[s] - 1
               /\ prev'[s][d].generation = generation'[s] - 2
    <3>1. /\ next[s][d].generation = generation[s]
          /\ current[s][d].generation = generation[s] - 1
      BY DEF Keyed, Consecutive
    <3>2. /\ next'[s][d].generation = new[d].generation
          /\ current'[s][d].generation = next[s][d].generation
          /\ prev'[s][d].generation = current[s][d].generation
      BY <1>5, <1>6
    <3>3. new[d].generation = generation[s] + 1
      OBVIOUS
    <3>4. /\ generation[s] = generation'[s] - 1 /\ generation[s] - 1 = generation'[s] - 2
          /\ generation[s] + 1 = generation'[s]
      BY <1>1, <1>3
    <3> QED BY <3>1, <3>2, <3>3, <3>4, Zenon
  <2> QED BY <2>1, <2>2 DEF Consecutive
<1>9. Prepared(s)'
  BY <1>1, <1>3, <1>5, <1>6 DEF Keyed, Prepared
<1>10. /\ Histories'
       /\ phases'[s] = Append(phases[s], new)
       /\ \A t \in Sides \ {s} : phases'[t] = phases[t]
  <2>1. phases[s] \in Seq([Directions -> Exported])
    BY DEF Histories
  <2>2. Append(phases[s], new) \in Seq([Directions -> Exported])
    BY <2>1
  <2> QED BY <2>2, Zenon DEF UpdateKeys, Histories
<1>11. Numbered(s)'
  <2>1. /\ phases[s] \in Seq([Directions -> Exported]) /\ Len(phases[s]) = generation[s] + 1
        /\ \A i \in 1..Len(phases[s]), d \in Directions : phases[s][i][d].generation = i - 1
    BY DEF Histories, Keyed, Numbered
  <2>2. Len(phases'[s]) = generation'[s] + 1
    BY <1>1, <1>3, <1>10, <2>1
  <2>3. ASSUME NEW i \in 1..Len(phases'[s]), NEW d \in Directions
        PROVE  phases'[s][i][d].generation = i - 1
    <3>1. CASE i \in 1..Len(phases[s])
      <4>1. phases'[s][i] = phases[s][i]
        BY <1>10, <2>1, <3>1
      <4> QED BY <2>1, <3>1, <4>1
    <3>2. CASE i = Len(phases[s]) + 1
      <4>1. phases'[s][i] = new
        BY <1>10, <2>1, <3>2
      <4> QED BY <1>1, <2>1, <3>2, <4>1
    <3> QED BY <1>1, <1>3, <2>1, <2>2, <3>1, <3>2
  <2> QED BY <2>2, <2>3 DEF Numbered
<1> QED BY <1>3, <1>4, <1>5, <1>6, <1>7, <1>8, <1>9, <1>10, <1>11 DEF Keyed

-----------------------------------------------------------------------------
LEMMA KeyedKept ==
    ASSUME NEW t \in Sides, Keyed(t),
           generation'[t] = generation[t], phase'[t] = phase[t],
           current'[t] = current[t], next'[t] = next[t], prev'[t] = prev[t],
           phases'[t] = phases[t]
    PROVE  Keyed(t)'
<1>1. Consecutive(t)'
  BY Zenon DEF Keyed, Consecutive
<1>2. Numbered(t)'
  BY Zenon DEF Keyed, Numbered
<1>3. Prepared(t)'
  BY DEF Keyed, Prepared
<1> QED BY <1>1, <1>2, <1>3 DEF Keyed

LEMMA HistoriesKept == ASSUME Histories, phases' = phases PROVE Histories'
BY DEF Histories

\* What is said of the generations stays where they do.
LEMMA StandingKept ==
    ASSUME generation' = generation, prev' = prev, end_packet' = end_packet,
           AwaitsAnswer, BobLeadsOnce, UpdatesInStep
    PROVE  AwaitsAnswer' /\ BobLeadsOnce' /\ UpdatesInStep'
BY DEF AwaitsAnswer, BobLeadsOnce, UpdatesInStep, Leads

\* Of a commit.
LEMMA CommitKeeps == ASSUME Inv, Commit PROVE Inv'
<1> USE KeyUpdateConstants DEF Inv
<1>1. /\ group["Client"] \in 0..MaxEpoch /\ group["Server"] \in 0..MaxEpoch
      /\ "Client" \in Sides /\ "Server" \in Sides
  BY DEF Shape, Sides
<1>2. /\ group' \in [Sides -> 0..MaxEpoch] /\ group'["Client"] = group["Client"] + 1
      /\ group'["Server"] = group["Server"]
  BY <1>1 DEF Commit, Shape
<1>3. preambles' \subseteq 1..group'["Client"]
  <2>1. preambles \subseteq 1..group["Client"] /\ preambles' = preambles \cup {group["Client"] + 1}
    BY DEF Commit, Shape
  <2>2. 1..group["Client"] \subseteq 1..group'["Client"]
        /\ group["Client"] + 1 \in 1..group'["Client"]
    BY <1>1, <1>2
  <2> QED BY <2>1, <2>2, Zenon
<1>4. Shape'
  BY <1>1, <1>2, <1>3 DEF Commit, Shape, keyVars
<1>5. \A s \in Sides : Keyed(s)'
  BY KeyedKept DEF Commit, keyVars
<1>6. SentBehind' /\ MayUpdate'
  BY DEF Commit, keyVars, SentBehind, MayUpdate, Leads
<1>7. AwaitsAnswer' /\ BobLeadsOnce' /\ UpdatesInStep'
  BY StandingKept DEF Commit, keyVars
<1>8. Paid'
  BY <1>1, <1>2 DEF Commit, keyVars, Paid, Shape
<1>9. Histories'
  BY HistoriesKept DEF Commit, keyVars
<1> QED BY <1>4, <1>5, <1>6, <1>7, <1>8, <1>9

\* Generations only grow, and packets stay behind them.
LEMMA SentBehindMoves ==
    ASSUME Shape, SentBehind, NEW s \in Sides, packets' = packets,
           generation' \in [Sides -> 1..(MaxEpoch + 2)], generation'[s] = generation[s] + 1,
           \A t \in Sides \ {s} : generation'[t] = generation[t]
    PROVE  SentBehind'
<1>1. ASSUME NEW t \in Sides PROVE generation'[t] >= generation[t] /\ generation[t] \in Nat
  <2>1. generation[t] \in 1..(MaxEpoch + 2)
    BY DEF Shape
  <2>2. generation'[t] = generation[t] + 1 \/ generation'[t] = generation[t]
    OBVIOUS
  <2> QED BY <2>1, <2>2, KeyUpdateConstants
<1>2. ASSUME NEW p \in packets PROVE p.secret.generation < generation'[Peer(p.to)]
  <2>1. p \in Packets /\ p.secret.generation < generation[Peer(p.to)]
    BY DEF Shape, SentBehind
  <2>2. Peer(p.to) \in Sides /\ p.secret.generation \in Nat
    BY <2>1, PeerIsASide, KeyUpdateConstants DEF Packets, Exported
  <2>3. generation'[Peer(p.to)] \in Nat
    BY <2>2, KeyUpdateConstants
  <2> QED BY <1>1, <2>1, <2>2, <2>3
<1> QED BY <1>2 DEF SentBehind

\* Of force_key_update, which finds the previous keys gone or does nothing.
LEMMA ForceKeeps == ASSUME Inv, ForceKeyUpdate PROVE Inv'
<1> USE KeyUpdateConstants DEF Inv
<1> DEFINE c == "Client"
           new == Pair(NextSecret(c), NextSecret(c))
<1>1. c \in Sides /\ "Server" \in Sides /\ Sides = {c, "Server"}
  BY DEF Sides
<1>2. /\ group[c] \in 0..MaxEpoch /\ generation[c] \in 1..(MaxEpoch + 2)
      /\ generation["Server"] \in 1..(MaxEpoch + 2)
  BY <1>1 DEF Shape
<1>3. rekeying /\ rekeying' = FALSE /\ UNCHANGED <<group, preambles, sent, packets, updating>>
  BY DEF ForceKeyUpdate
<1>5. CASE prev[c] = NoPair
  <2>1. UpdateKeys(c, new, Unacked)
    BY <1>5 DEF ForceKeyUpdate
  <2>2. generation[c] < MaxEpoch + 2
    BY <1>2, <1>3 DEF Paid
  <2>3. NextSecret(c) \in Exported /\ NextSecret(c).generation = generation[c] + 1
    BY <1>1, <2>2, NextSecretIsExported
  <2>4. new \in [Directions -> Exported]
        /\ \A d \in Directions : new[d].generation = generation[c] + 1
    BY <2>3, Zenon DEF Pair, Directions
  <2>5. Unacked \in 0..Unacked
    BY DEF Unacked
  <2> HIDE DEF new, c
  <2>6. /\ generation' \in [Sides -> 1..(MaxEpoch + 2)] /\ phase' \in [Sides -> 0..1]
        /\ current' \in [Sides -> [Directions -> Exported]]
        /\ next' \in [Sides -> [Directions -> Exported]]
        /\ prev' \in [Sides -> PairType] /\ end_packet' \in [Sides -> 0..Unacked]
        /\ Histories'
        /\ Keyed(c)'
        /\ generation'[c] = generation[c] + 1
        /\ prev'[c] # NoPair /\ end_packet'[c] = Unacked
        /\ \A t \in Sides \ {c} : /\ generation'[t] = generation[t] /\ phase'[t] = phase[t]
                                  /\ current'[t] = current[t] /\ next'[t] = next[t]
                                  /\ prev'[t] = prev[t] /\ end_packet'[t] = end_packet[t]
                                  /\ phases'[t] = phases[t]
    BY <1>1, <2>1, <2>2, <2>4, <2>5, UpdateKeysKeeps
  <2>7. Shape'
    BY <1>3, <2>6, Zenon DEF Shape
  <2>8. generation[c] <= generation["Server"]
    BY <1>2, <1>5 DEF AwaitsAnswer, Leads, Peer, c, Sides
  <2>9. /\ generation'[c] = generation["Server"] + 1 \/ generation'[c] = generation["Server"]
        /\ generation'["Server"] = generation["Server"]
    BY <1>2, <2>6, <2>8 DEF UpdatesInStep, c, Sides
  <2>10. \A s \in Sides : Keyed(s)'
    <3>1. ASSUME NEW t \in Sides \ {c} PROVE Keyed(t)'
      BY <2>6, KeyedKept
    <3> QED BY <2>6, <3>1
  <2>11. SentBehind'
    <3>1. /\ c \in Sides /\ packets' = packets
          /\ generation' \in [Sides -> 1..(MaxEpoch + 2)] /\ generation'[c] = generation[c] + 1
          /\ \A t \in Sides \ {c} : generation'[t] = generation[t]
      BY <1>1, <1>3, <2>6 DEF c
    <3> QED BY <3>1, SentBehindMoves
  <2>12. MayUpdate'
    <3>1. ASSUME NEW s \in Sides, updating[s] # NoUpdate
          PROVE  /\ Leads(Peer(s))' \/ (generation'[s] = 1 /\ updating[s].pn = Unacked)
                 /\ updating[s].c2s \in Exported
                 /\ updating[s].c2s.generation = generation'[s] + 1
      <4>1. s = "Server"
        BY <3>1 DEF ForceKeyUpdate, Sides
      <4> QED BY <1>2, <2>6, <3>1, <4>1 DEF MayUpdate, Leads, Peer, c, Sides
    <3> QED BY <1>3, <3>1 DEF MayUpdate
  <2>13. AwaitsAnswer' /\ BobLeadsOnce' /\ UpdatesInStep'
    BY <1>2, <2>6, <2>9 DEF AwaitsAnswer, BobLeadsOnce, Leads, Peer, UpdatesInStep, c, Sides
  <2>14. Paid'
    BY <1>2, <1>3, <2>6 DEF Paid, c
  <2> QED BY <2>6, <2>7, <2>10, <2>11, <2>12, <2>13, <2>14
<1>6. CASE prev[c] # NoPair
  <2>1. /\ generation' = generation /\ current' = current /\ next' = next
        /\ prev' = prev /\ end_packet' = end_packet /\ phase' = phase /\ phases' = phases
    BY <1>6 DEF ForceKeyUpdate, keyVars
  <2>2. Shape'
    <3>1. rekeying' \in BOOLEAN
      BY <1>3
    <3> QED BY <1>3, <2>1, <3>1, Zenon DEF Shape
  <2>3. \A s \in Sides : Keyed(s)'
    BY <2>1, KeyedKept
  <2>4. SentBehind' /\ MayUpdate'
    BY <1>3, <2>1 DEF SentBehind, MayUpdate, Leads
  <2>5. AwaitsAnswer' /\ BobLeadsOnce' /\ UpdatesInStep'
    BY <2>1, StandingKept
  <2>6. Paid'
    BY <1>2, <1>3, <2>1 DEF Paid
  <2>7. Histories'
    BY <2>1, HistoriesKept
  <2> QED BY <2>2, <2>3, <2>4, <2>5, <2>6, <2>7
<1> QED BY <1>5, <1>6

\* Of the sink's apply, and of a loss.
LEMMA ApplyKeeps == ASSUME Inv, NEW e \in 1..MaxEpoch, Apply(e) PROVE Inv'
<1> USE DEF Inv
<1>1. /\ generation' = generation /\ current' = current /\ next' = next
      /\ prev' = prev /\ end_packet' = end_packet /\ phase' = phase /\ phases' = phases
      /\ sent' = sent /\ packets' = packets /\ updating' = updating /\ rekeying' = rekeying
  BY DEF Apply, keyVars
<1>2. /\ group["Client"] \in 0..MaxEpoch /\ group["Server"] \in 0..MaxEpoch
      /\ e \in 1..group["Client"]
  BY KeyUpdateConstants DEF Shape, Sides, Apply
<1>3. /\ group' \in [Sides -> 0..MaxEpoch] /\ group'["Client"] = group["Client"]
      /\ group'["Server"] <= group["Client"]
  BY <1>2, KeyUpdateConstants DEF Apply, Shape, Sides
<1>4. preambles' \subseteq 1..group'["Client"]
  BY <1>3 DEF Apply, Shape
<1>5. Shape'
  <2>1. group'["Server"] <= group'["Client"]
    BY <1>3
  <2> QED BY <1>1, <1>3, <1>4, <2>1, Zenon DEF Shape
<1>6. \A s \in Sides : Keyed(s)'
  BY <1>1, KeyedKept
<1>7. SentBehind' /\ MayUpdate'
  BY <1>1 DEF SentBehind, MayUpdate, Leads
<1>8. AwaitsAnswer' /\ BobLeadsOnce' /\ UpdatesInStep'
  BY <1>1, StandingKept
<1>9. Paid'
  BY <1>1, <1>3 DEF Paid
<1>10. Histories'
  BY <1>1, HistoriesKept
<1> QED BY <1>5, <1>6, <1>7, <1>8, <1>9, <1>10

LEMMA LoseKeeps == ASSUME Inv, Lose PROVE Inv'
<1> USE DEF Inv
<1>1. /\ generation' = generation /\ current' = current /\ next' = next
      /\ prev' = prev /\ end_packet' = end_packet /\ phase' = phase /\ phases' = phases
      /\ sent' = sent /\ updating' = updating /\ rekeying' = rekeying /\ group' = group
  BY DEF Lose, keyVars
<1>2. preambles' \subseteq preambles /\ packets' \subseteq packets
  BY DEF Lose
<1>3. preambles' \subseteq 1..group'["Client"] /\ packets' \subseteq Packets
  BY <1>1, <1>2, Zenon DEF Shape
<1>4. Shape'
  BY <1>1, <1>3, Zenon DEF Shape
<1>5. \A s \in Sides : Keyed(s)'
  BY <1>1, KeyedKept
<1>6. SentBehind'
  BY <1>1, <1>2, Zenon DEF SentBehind
<1>7. MayUpdate' /\ Paid'
  BY <1>1 DEF MayUpdate, Leads, Paid
<1>8. AwaitsAnswer' /\ BobLeadsOnce' /\ UpdatesInStep'
  BY <1>1, StandingKept
<1>9. Histories'
  BY <1>1, HistoriesKept
<1> QED BY <1>4, <1>5, <1>6, <1>7, <1>8, <1>9

\* A packet goes out under the current keys, and those are behind the count.
LEMMA SendKeeps == ASSUME Inv, NEW s \in Sides, Send(s) PROVE Inv'
<1> USE DEF Inv
<1> DEFINE p == [to |-> Peer(s), pn |-> sent[s] + 1, phase |-> phase[s],
                 secret |-> current[s][Outgoing(s)], epoch |-> group[s]]
<1>1. /\ generation' = generation /\ current' = current /\ next' = next
      /\ prev' = prev /\ end_packet' = end_packet /\ phase' = phase /\ phases' = phases
      /\ preambles' = preambles /\ updating' = updating /\ rekeying' = rekeying
      /\ group' = group /\ packets' = packets \cup {p}
  BY DEF Send, keyVars
<1>2. /\ sent[s] \in 0..MaxPackets /\ sent[s] < MaxPackets
      /\ sent' = [sent EXCEPT ![s] = sent[s] + 1]
  BY DEF Send, Shape
<1>3. sent[s] + 1 \in 1..MaxPackets /\ sent' \in [Sides -> 0..MaxPackets]
  BY <1>2, KeyUpdateConstants DEF Shape
<1>4. /\ phase[s] \in 0..1 /\ group[s] \in 0..MaxEpoch
      /\ current[s][Outgoing(s)] \in Exported /\ Peer(s) \in Sides
  BY PeerIsASide DEF Shape
<1>5. p \in Packets
  BY <1>3, <1>4 DEF Packets
<1>6. packets' \subseteq Packets
  BY <1>1, <1>5 DEF Shape
<1>7. Shape'
  BY <1>1, <1>3, <1>6, Zenon DEF Shape
<1>8. \A t \in Sides : Keyed(t)'
  BY <1>1, KeyedKept
<1>9. p.secret.generation < generation[Peer(p.to)]
  <2>1. current[s][Outgoing(s)].generation = generation[s] - 1
    BY PeerIsASide DEF Keyed, Consecutive
  <2>2. Peer(p.to) = s /\ generation[s] \in Nat
    BY DEF Peer, Sides, Shape
  <2>3. p.secret = current[s][Outgoing(s)]
    OBVIOUS
  <2> HIDE DEF p
  <2>4. p.secret.generation = generation[s] - 1
    BY <2>1, <2>3
  <2> QED BY <2>2, <2>4
<1>10. SentBehind'
  <2> HIDE DEF p
  <2> QED BY <1>1, <1>9, Zenon DEF SentBehind
<1>11. MayUpdate' /\ Paid'
  BY <1>1 DEF MayUpdate, Leads, Paid
<1>12. AwaitsAnswer' /\ BobLeadsOnce' /\ UpdatesInStep'
  BY <1>1, StandingKept
<1>13. Histories'
  BY <1>1, HistoriesKept
<1> QED BY <1>7, <1>8, <1>10, <1>11, <1>12, <1>13

\* The discard timer waits for an answer, and who has answered has caught up.
LEMMA DiscardKeeps == ASSUME Inv, NEW s \in Sides, Discard(s) PROVE Inv'
<1> USE DEF Inv
<1>1. /\ generation' = generation /\ current' = current /\ next' = next
      /\ end_packet' = end_packet /\ phase' = phase /\ preambles' = preambles
      /\ updating' = updating /\ rekeying' = rekeying /\ group' = group
      /\ packets' = packets /\ sent' = sent /\ phases' = phases
  BY DEF Discard
<1>2. /\ prev' = [prev EXCEPT ![s] = NoPair] /\ end_packet[s] # Unacked
      /\ NoPair \in PairType
  BY KeyUpdateConstants DEF Discard, NoPair, Pair, Secret, PairType, SecretType, Directions
<1>3. /\ prev' \in [Sides -> PairType] /\ prev'[s] = NoPair
      /\ \A t \in Sides \ {s} : prev'[t] = prev[t]
  BY <1>2 DEF Shape
<1>4. Shape'
  BY <1>1, <1>3, Zenon DEF Shape
<1>5. ASSUME NEW t \in Sides PROVE Keyed(t)'
  <2>1. CASE t = s
    <3>1. Keyed(t) /\ prev'[t] = NoPair
      BY <1>3, <2>1
    <3>2. Consecutive(t)' /\ Numbered(t)'
      BY <1>1, <3>1, Zenon DEF Keyed, Consecutive, Numbered
    <3>3. Prepared(t)'
      BY <1>1, <3>1 DEF Keyed, Prepared
    <3> QED BY <3>2, <3>3 DEF Keyed
  <2>2. CASE t # s
    BY <1>1, <1>3, <2>2, KeyedKept
  <2> QED BY <2>1, <2>2
<1>6. AwaitsAnswer'
  <2>1. SUFFICES ASSUME NEW t \in Sides, Leads(t)
                 PROVE  prev'[t] # NoPair /\ end_packet[t] = Unacked
    BY <1>1 DEF AwaitsAnswer, Leads
  <2>2. prev[t] # NoPair /\ end_packet[t] = Unacked
    BY <2>1 DEF AwaitsAnswer
  <2>3. t # s
    BY <1>2, <2>2
  <2> QED BY <1>3, <2>2, <2>3
<1>7. SentBehind' /\ MayUpdate' /\ BobLeadsOnce' /\ UpdatesInStep' /\ Paid'
  BY <1>1 DEF SentBehind, MayUpdate, Leads, BobLeadsOnce, UpdatesInStep, Paid
<1>8. Histories'
  BY <1>1, HistoriesKept
<1> QED BY <1>4, <1>5, <1>6, <1>7, <1>8

\* A side that updates by itself is at its first generation.
LEMMA RoutineKeeps == ASSUME Inv, NEW s \in Sides, RoutineUpdate(s) PROVE Inv'
<1> USE KeyUpdateConstants DEF Inv
<1> DEFINE begun == [pn |-> Unacked, c2s |-> NextSecret(s)]
<1>1. /\ generation' = generation /\ current' = current /\ next' = next
      /\ prev' = prev /\ end_packet' = end_packet /\ phase' = phase /\ phases' = phases
      /\ preambles' = preambles /\ rekeying' = rekeying /\ group' = group
      /\ packets' = packets /\ sent' = sent
  BY DEF RoutineUpdate, keyVars
<1>2. generation[s] = 1 /\ updating' = [updating EXCEPT ![s] = begun]
  BY DEF RoutineUpdate
<1>3. NextSecret(s) \in Exported /\ NextSecret(s).generation = generation[s] + 1
  BY <1>2, NextSecretIsExported
<1>4. begun \in [pn : 0..Unacked, c2s : SecretType]
      /\ begun.pn = Unacked /\ begun.c2s = NextSecret(s)
  BY <1>3 DEF Exported, SecretType, Unacked
<1> HIDE DEF begun
<1>5. updating' \in [Sides -> [pn : 0..Unacked, c2s : SecretType]]
      /\ \A t \in Sides : updating'[t] = (IF t = s THEN begun ELSE updating[t])
  BY <1>2, <1>4 DEF Shape
<1>6. Shape'
  BY <1>1, <1>5, Zenon DEF Shape
<1>7. \A t \in Sides : Keyed(t)'
  BY <1>1, KeyedKept
<1>8. MayUpdate'
  <2>1. ASSUME NEW t \in Sides, updating'[t] # NoUpdate
        PROVE  /\ Leads(Peer(t)) \/ (generation[t] = 1 /\ updating'[t].pn = Unacked)
               /\ updating'[t].c2s \in Exported
               /\ updating'[t].c2s.generation = generation[t] + 1
    <3>1. CASE t = s
      BY <1>2, <1>3, <1>4, <1>5, <3>1
    <3>2. CASE t # s
      <4>1. updating'[t] = updating[t]
        BY <1>5, <3>2
      <4> QED BY <2>1, <4>1 DEF MayUpdate
    <3> QED BY <3>1, <3>2
  <2> QED BY <1>1, <2>1 DEF MayUpdate, Leads
<1>9. SentBehind' /\ Paid'
  BY <1>1 DEF SentBehind, Paid
<1>10. AwaitsAnswer' /\ BobLeadsOnce' /\ UpdatesInStep'
  BY <1>1, StandingKept
<1>11. Histories'
  BY <1>1, HistoriesKept
<1> QED BY <1>6, <1>7, <1>8, <1>9, <1>10, <1>11

\* A packet that opens tells the receiver how far its sender is.
LEMMA OpensUnder ==
    ASSUME Inv, NEW s \in Sides, NEW p \in packets, p.to = s,
           KeysFor(s, p)[Outgoing(Peer(s))] = p.secret
    PROVE  /\ p.phase = phase[s] => generation[s] <= generation[Peer(s)]
           /\ StartsUpdate(s, p) => Leads(Peer(s))
<1> USE DEF Inv
<1>1. /\ p \in Packets /\ p.secret.generation < generation[Peer(s)]
      /\ Peer(s) \in Sides /\ Outgoing(Peer(s)) \in Directions
  BY PeerIsASide DEF Shape, SentBehind
<1>2. generation[s] \in Nat /\ generation[Peer(s)] \in Nat /\ p.secret.generation \in Nat
  BY <1>1, KeyUpdateConstants DEF Shape, Packets, Exported
<1>3. /\ next[s][Outgoing(Peer(s))].generation = generation[s]
      /\ current[s][Outgoing(Peer(s))].generation = generation[s] - 1
  BY <1>1 DEF Keyed, Consecutive
<1>4. CASE p.phase = phase[s]
  <2>1. p.secret = current[s][Outgoing(Peer(s))] /\ ~StartsUpdate(s, p)
    BY <1>4 DEF KeysFor, StartsUpdate
  <2>2. p.secret.generation = generation[s] - 1
    BY <1>3, <2>1
  <2> QED BY <1>1, <1>2, <2>1, <2>2
<1>5. CASE StartsUpdate(s, p)
  <2>1. p.secret = next[s][Outgoing(Peer(s))] /\ p.phase # phase[s]
    BY <1>5 DEF KeysFor, StartsUpdate
  <2>2. p.secret.generation = generation[s]
    BY <1>3, <2>1
  <2>3. Peer(Peer(s)) = s
    BY DEF Peer, Sides
  <2> QED BY <1>1, <1>2, <2>1, <2>2, <2>3 DEF Leads
<1> QED BY <1>4, <1>5

LEMMA ReceiveKeeps == ASSUME Inv, NEW s \in Sides, NEW p \in packets, Receive(s, p) PROVE Inv'
<1> USE DEF Inv
<1> DEFINE opens  == KeysFor(s, p)[Outgoing(Peer(s))] = p.secret
           begins == opens /\ StartsUpdate(s, p)
           answer == opens /\ p.phase = phase[s] /\ end_packet[s] = Unacked
           begun  == [pn |-> p.pn, c2s |-> NextSecret(s)]
<1>1. /\ generation' = generation /\ current' = current /\ next' = next
      /\ prev' = prev /\ phase' = phase /\ phases' = phases /\ preambles' = preambles
      /\ rekeying' = rekeying /\ group' = group /\ sent' = sent
      /\ packets' = packets \ {p}
  BY DEF Receive
<1>2. /\ updating' = IF begins THEN [updating EXCEPT ![s] = begun] ELSE updating
      /\ end_packet' = IF answer THEN [end_packet EXCEPT ![s] = p.pn] ELSE end_packet
      /\ p.to = s
  BY DEF Receive
<1>3. /\ opens /\ p.phase = phase[s] => generation[s] <= generation[Peer(s)]
      /\ begins => Leads(Peer(s))
  BY <1>2, OpensUnder
<1>4. /\ p.pn \in 0..Unacked /\ p.pn # Unacked
      /\ generation[s] \in 1..(MaxEpoch + 2) /\ generation[Peer(s)] \in 1..(MaxEpoch + 2)
      /\ Peer(Peer(s)) = s
  <2>1. p \in Packets
    BY DEF Shape
  <2> QED BY <2>1, PeerIsASide, KeyUpdateConstants DEF Shape, Packets, Unacked, Peer, Sides
<1>5. begins => NextSecret(s) \in Exported /\ NextSecret(s).generation = generation[s] + 1
  BY <1>3, <1>4, NextSecretIsExported, KeyUpdateConstants DEF Leads
<1> HIDE DEF begins, answer, opens
<1>6. updating' \in [Sides -> [pn : 0..Unacked, c2s : SecretType]]
      /\ \A t \in Sides : updating'[t] = (IF begins /\ t = s THEN begun ELSE updating[t])
  <2>1. begins => begun \in [pn : 0..Unacked, c2s : SecretType]
    BY <1>4, <1>5 DEF Exported, SecretType
  <2> HIDE DEF begun
  <2> QED BY <1>2, <2>1 DEF Shape
<1>7. end_packet' \in [Sides -> 0..Unacked]
      /\ \A t \in Sides : end_packet'[t] = (IF answer /\ t = s THEN p.pn ELSE end_packet[t])
  BY <1>2, <1>4 DEF Shape
<1>8. packets' \subseteq Packets
  BY <1>1 DEF Shape
<1>9. Shape'
  BY <1>1, <1>6, <1>7, <1>8, Zenon DEF Shape
<1>10. \A t \in Sides : Keyed(t)'
  BY <1>1, KeyedKept
<1>11. MayUpdate'
  <2>1. ASSUME NEW t \in Sides, updating'[t] # NoUpdate
        PROVE  /\ Leads(Peer(t)) \/ (generation[t] = 1 /\ updating'[t].pn = Unacked)
               /\ updating'[t].c2s \in Exported
               /\ updating'[t].c2s.generation = generation[t] + 1
    <3>1. CASE begins /\ t = s
      BY <1>3, <1>5, <1>6, <3>1
    <3>2. CASE ~(begins /\ t = s)
      <4>1. updating'[t] = updating[t]
        BY <1>6, <3>2
      <4> QED BY <2>1, <4>1 DEF MayUpdate
    <3> QED BY <3>1, <3>2
  <2> QED BY <1>1, <2>1 DEF MayUpdate, Leads
<1>12. AwaitsAnswer'
  <2>1. SUFFICES ASSUME NEW t \in Sides, Leads(t)
                 PROVE  prev[t] # NoPair /\ end_packet'[t] = Unacked
    BY <1>1 DEF AwaitsAnswer, Leads
  <2>2. answer => ~Leads(s)
    BY <1>3, <1>4 DEF answer, Leads
  <2>3. end_packet'[t] = end_packet[t]
    BY <1>7, <2>1, <2>2
  <2> QED BY <2>1, <2>3 DEF AwaitsAnswer
<1>13. SentBehind'
  BY <1>1, Zenon DEF SentBehind
<1>14. BobLeadsOnce' /\ UpdatesInStep' /\ Paid'
  BY <1>1 DEF BobLeadsOnce, Leads, UpdatesInStep, Paid
<1>15. Histories'
  BY <1>1, HistoriesKept
<1> QED BY <1>9, <1>10, <1>11, <1>12, <1>13, <1>14, <1>15

\* A side ends the update it is in the middle of: it has caught up, or it was its first.
LEMMA FinishKeeps == ASSUME Inv, NEW s \in Sides, FinishUpdate(s) PROVE Inv'
<1> USE KeyUpdateConstants DEF Inv
<1> DEFINE new == Pair(updating[s].c2s, NextSecret(s))
           q   == Peer(s)
<1>1. /\ updating[s] # NoUpdate /\ UpdateKeys(s, new, updating[s].pn)
      /\ updating' = [updating EXCEPT ![s] = NoUpdate]
      /\ UNCHANGED <<group, preambles, sent, packets, rekeying>>
  BY DEF FinishUpdate
<1>2. /\ generation[s] < generation[q] \/ (generation[s] = 1 /\ updating[s].pn = Unacked)
      /\ updating[s].c2s \in Exported /\ updating[s].c2s.generation = generation[s] + 1
  <2>1. Peer(q) = s
    BY DEF Peer, Sides
  <2> QED BY <1>1, <2>1 DEF MayUpdate, Leads
<1>3. /\ generation[s] \in 1..(MaxEpoch + 2) /\ generation[q] \in 1..(MaxEpoch + 2)
      /\ q \in Sides \ {s} /\ Sides = {s, q} /\ Peer(q) = s
      /\ generation[q] - generation[s] \in {-1, 0, 1}
  <2>1. q \in Sides \ {s} /\ Sides = {s, q} /\ Peer(q) = s
    BY DEF Peer, Sides
  <2>2. generation[s] \in 1..(MaxEpoch + 2) /\ generation[q] \in 1..(MaxEpoch + 2)
    BY <2>1 DEF Shape
  <2>3. generation[q] - generation[s] \in {-1, 0, 1}
    BY <2>2 DEF UpdatesInStep, Peer, Sides
  <2> QED BY <2>1, <2>2, <2>3
<1>4. generation[s] < MaxEpoch + 2
  BY <1>2, <1>3
<1>5. NextSecret(s) \in Exported /\ NextSecret(s).generation = generation[s] + 1
  BY <1>4, NextSecretIsExported
<1>6. new \in [Directions -> Exported]
      /\ \A d \in Directions : new[d].generation = generation[s] + 1
  BY <1>2, <1>5, Zenon DEF Pair, Directions
<1>7. updating[s].pn \in 0..Unacked
  BY DEF Shape
<1> HIDE DEF new, q
<1>8. /\ generation' \in [Sides -> 1..(MaxEpoch + 2)] /\ phase' \in [Sides -> 0..1]
      /\ current' \in [Sides -> [Directions -> Exported]]
      /\ next' \in [Sides -> [Directions -> Exported]]
      /\ prev' \in [Sides -> PairType] /\ end_packet' \in [Sides -> 0..Unacked]
      /\ Histories'
      /\ Keyed(s)'
      /\ generation'[s] = generation[s] + 1
      /\ prev'[s] # NoPair /\ end_packet'[s] = updating[s].pn
      /\ \A t \in Sides \ {s} : /\ generation'[t] = generation[t] /\ phase'[t] = phase[t]
                                /\ current'[t] = current[t] /\ next'[t] = next[t]
                                /\ prev'[t] = prev[t] /\ end_packet'[t] = end_packet[t]
                                /\ phases'[t] = phases[t]
  BY <1>1, <1>4, <1>6, <1>7, UpdateKeysKeeps
<1>9. /\ updating' \in [Sides -> [pn : 0..Unacked, c2s : SecretType]]
      /\ updating'[s] = NoUpdate /\ \A t \in Sides \ {s} : updating'[t] = updating[t]
  <2>1. NoUpdate \in [pn : 0..Unacked, c2s : SecretType]
    BY DEF NoUpdate, Secret, SecretType, Unacked
  <2> QED BY <1>1, <2>1 DEF Shape
<1>10. Shape'
  BY <1>1, <1>8, <1>9, Zenon DEF Shape
<1>11. generation'[s] = generation[s] + 1 /\ generation'[q] = generation[q]
  BY <1>3, <1>8
<1>12. \A t \in Sides : Keyed(t)'
  <2>1. ASSUME NEW t \in Sides \ {s} PROVE Keyed(t)'
    BY <1>8, KeyedKept
  <2> QED BY <1>8, <2>1
<1>13. SentBehind'
  BY <1>1, <1>8, SentBehindMoves
<1>14. MayUpdate'
  <2>1. SUFFICES ASSUME NEW t \in Sides, updating'[t] # NoUpdate
                 PROVE  /\ Leads(Peer(t))' \/ (generation'[t] = 1 /\ updating'[t].pn = Unacked)
                        /\ updating'[t].c2s \in Exported
                        /\ updating'[t].c2s.generation = generation'[t] + 1
    BY DEF MayUpdate
  <2>2. t = q /\ Peer(t) = s /\ updating'[t] = updating[t]
    BY <1>3, <1>9, <2>1
  <2>3. /\ Leads(Peer(t)) \/ (generation[t] = 1 /\ updating[t].pn = Unacked)
        /\ updating[t].c2s \in Exported
        /\ updating[t].c2s.generation = generation[t] + 1
    BY <2>1, <2>2 DEF MayUpdate
  <2>4. generation'[t] = generation[t] /\ (Leads(Peer(t)) => Leads(Peer(t))')
    BY <1>3, <1>11, <2>2 DEF Leads, q
  <2> QED BY <2>2, <2>3, <2>4
<1>15. UpdatesInStep'
  <2>1. generation'[q] - generation'[s] \in {-1, 0, 1}
    BY <1>2, <1>3, <1>11
  <2> QED BY <1>3, <1>11, <2>1 DEF UpdatesInStep, q, Peer, Sides
<1>16. AwaitsAnswer'
  <2>1. SUFFICES ASSUME NEW t \in Sides, Leads(t)'
                 PROVE  prev'[t] # NoPair /\ end_packet'[t] = Unacked
    BY DEF AwaitsAnswer
  <2>2. CASE t = s
    <3>1. generation[q] < generation[s] + 1
      BY <1>11, <2>1, <2>2 DEF Leads, q
    <3>2. updating[s].pn = Unacked
      BY <1>2, <1>3, <3>1
    <3> QED BY <1>8, <2>2, <3>2
  <2>3. CASE t = q
    <3>1. generation'[s] < generation'[q]
      BY <1>3, <2>1, <2>3 DEF Leads
    <3> QED BY <1>2, <1>3, <1>11, <3>1
  <2> QED BY <1>3, <2>2, <2>3
<1>17. BobLeadsOnce'
  <2>1. SUFFICES ASSUME generation'["Client"] < generation'["Server"]
                 PROVE  generation'["Server"] = 2
    BY DEF BobLeadsOnce, Leads, Peer
  <2>2. CASE s = "Server"
    BY <1>2, <1>3, <1>11, <2>1, <2>2 DEF q, Peer
  <2>3. CASE s = "Client"
    <3>1. q = "Server"
      BY <2>3 DEF q, Peer
    <3> QED BY <1>3, <1>11, <2>1, <2>3, <3>1 DEF BobLeadsOnce, Leads, Peer
  <2> QED BY <2>2, <2>3 DEF Sides
<1>18. Paid'
  <2>1. CASE s = "Server"
    BY <1>1, <1>3, <1>11, <2>1 DEF Paid, q, Peer
  <2>2. CASE s = "Client"
    <3>1. generation["Client"] = 1
      BY <1>2, <1>3, <2>2 DEF BobLeadsOnce, Leads, q, Peer
    <3>2. group["Client"] \in Nat
      BY DEF Shape, Sides
    <3> QED BY <1>1, <1>11, <2>2, <3>1, <3>2 DEF Paid
  <2> QED BY <2>1, <2>2 DEF Sides
<1> QED BY <1>8, <1>10, <1>12, <1>13, <1>14, <1>15, <1>16, <1>17, <1>18

LEMMA InvKept == ASSUME Inv, [Next]_vars PROVE Inv'
<1>1. CASE UNCHANGED vars
  <2>1. /\ generation' = generation /\ current' = current /\ next' = next
        /\ prev' = prev /\ phase' = phase /\ preambles' = preambles
        /\ rekeying' = rekeying /\ group' = group /\ sent' = sent
        /\ packets' = packets /\ updating' = updating /\ end_packet' = end_packet
        /\ phases' = phases
    BY <1>1 DEF vars, keyVars
  <2>2. Shape'
    BY <2>1, Zenon DEF Inv, Shape
  <2>3. \A s \in Sides : Keyed(s)'
    BY <2>1, KeyedKept DEF Inv
  <2>4. SentBehind' /\ MayUpdate' /\ Paid'
    BY <2>1 DEF Inv, SentBehind, MayUpdate, Leads, Paid
  <2>5. AwaitsAnswer' /\ BobLeadsOnce' /\ UpdatesInStep'
    BY <2>1, StandingKept DEF Inv
  <2>6. Histories'
    BY <2>1, HistoriesKept DEF Inv
  <2> QED BY <2>2, <2>3, <2>4, <2>5, <2>6 DEF Inv
<1> QED
  BY <1>1, CommitKeeps, ForceKeeps, ApplyKeeps, LoseKeeps, SendKeeps, RoutineKeeps,
     FinishKeeps, DiscardKeeps, ReceiveKeeps, Zenon DEF Next

LEMMA InvHolds == Spec => []Inv
BY InvStarts, InvKept, PTL DEF Spec

LEMMA OrderlyKept == ASSUME orderly \in BOOLEAN, [Next]_vars PROVE (orderly \in BOOLEAN)'
<1>1. CASE UNCHANGED vars
  BY <1>1 DEF vars
<1>2. CASE Next
  <2>1. CASE Commit
    BY <2>1, Zenon DEF Commit
  <2>2. CASE ForceKeyUpdate
    BY <2>2 DEF ForceKeyUpdate
  <2>3. ASSUME NEW e \in 1..MaxEpoch, Apply(e) PROVE orderly' \in BOOLEAN
    BY <2>3, Zenon DEF Apply
  <2>4. CASE Lose
    BY <2>4 DEF Lose
  <2>5. ASSUME NEW s \in Sides, Send(s) \/ RoutineUpdate(s) \/ FinishUpdate(s) \/ Discard(s)
        PROVE  orderly' \in BOOLEAN
    BY <2>5 DEF Send, RoutineUpdate, FinishUpdate, Discard
  <2>6. ASSUME NEW s \in Sides, NEW p \in packets, Receive(s, p)
        PROVE  orderly' \in BOOLEAN
    <3>1. orderly' = (orderly /\ InOrder(p))
      BY <2>6 DEF Receive
    <3> QED BY <3>1, Zenon
  <2> QED BY <1>2, <2>1, <2>2, <2>3, <2>4, <2>5, <2>6, Zenon DEF Next
<1> QED BY <1>1, <1>2

LEMMA OrderlyTyped == Spec => [](orderly \in BOOLEAN)
<1>1. Init => orderly \in BOOLEAN
  BY DEF Init
<1> QED BY <1>1, OrderlyKept, PTL DEF Spec

\* Types, and the numbering of the keys prepared ahead (session.rs:161-168).
THEOREM TypeCorrect == Spec => []TypeOK
<1>1. ASSUME Inv, orderly \in BOOLEAN PROVE TypeOK
  <2> USE <1>1 DEF Inv
  <2>1. preambles \subseteq 1..MaxEpoch
    <3>1. group["Client"] \in 0..MaxEpoch /\ preambles \subseteq 1..group["Client"]
      BY DEF Shape, Sides
    <3> QED BY <3>1, KeyUpdateConstants
  <2>2. current \in [Sides -> PairType] /\ next \in [Sides -> PairType]
    <3>1. [Directions -> Exported] \subseteq PairType
      BY DEF Exported, PairType, SecretType
    <3> QED BY <3>1 DEF Shape
  <2>3. \A s \in Sides : /\ phase[s] = (generation[s] + 1) % 2
                         /\ \A d \in Directions : /\ next[s][d].generation = generation[s]
                                                  /\ current[s][d].generation = generation[s] - 1
    BY DEF Keyed, Consecutive
  <2> QED BY <2>1, <2>2, <2>3, Zenon DEF Shape, TypeOK
<1> QED BY <1>1, InvHolds, OrderlyTyped, PTL

\* Neither side is ever two updates ahead of the other, whatever is lost, late or out of
\* order, and whether quinn or run_alice began them: the one phase bit suffices
\* (main.rs:543, packet_key.rs:71).
THEOREM InStep == Spec => []UpdatesInStep
BY InvHolds, PTL DEF Inv

\* The first update opens at the other side however late the preamble comes.
THEOREM FirstCarries == Spec => []FirstUpdateCarries
<1>1. ASSUME Inv PROVE FirstUpdateCarries
  <2>1. \A s \in Sides : Prepared(s)
    BY <1>1 DEF Inv, Keyed
  <2> QED BY <2>1, PeerIsASide DEF FirstUpdateCarries, Prepared, Sides
<1> QED BY <1>1, InvHolds, PTL

\* Of all the pairs a side exports in a connection, however long it lasts and however
\* often its group stays at one epoch, no two share a secret (session.rs:162-165).
THEOREM FreshPhases == Spec => []PhasesAreFresh
<1>1. ASSUME Inv PROVE PhasesAreFresh
  <2>1. SUFFICES ASSUME NEW s \in Sides, NEW i \in DOMAIN phases[s], NEW j \in DOMAIN phases[s],
                        i # j, NEW d \in Directions, phases[s][i][d] = phases[s][j][d]
                 PROVE  FALSE
    BY Zenon DEF PhasesAreFresh
  <2>2. phases[s] \in Seq([Directions -> Exported]) /\ Numbered(s)
    BY <1>1 DEF Inv, Histories, Keyed
  <2>3. i \in 1..Len(phases[s]) /\ j \in 1..Len(phases[s])
    BY <2>2
  <2>4. phases[s][i][d].generation = i - 1 /\ phases[s][j][d].generation = j - 1
    BY <2>2, <2>3 DEF Numbered
  <2>5. i - 1 = j - 1
    BY <2>1, <2>4
  <2> QED BY <2>1, <2>3, <2>5
<1> QED BY <1>1, InvHolds, PTL

-----------------------------------------------------------------------------
(***************************************************************************)
(* That a split is final needs more than counting: which of the keys a     *)
(* side holds the other side has seen.  A packet that opens shows one      *)
(* direction of the pair it was sent under, so that Alice only rekeys from *)
(* current keys both sides share, and a split stays in the keys that the   *)
(* next update makes current, or is current already.  An update of quinn's *)
(* own is the first, and its keys are those of the handshake on both sides.*)
(***************************************************************************)

\* A packet of the sender's current generation is under its current keys.
SentUnder ==
    \A p \in packets : p.secret.generation = generation[Peer(p.to)] - 1
        => p.secret = current[Peer(p.to)][Outgoing(Peer(p.to))]

\* Both sides have counted as far.
Level == generation["Client"] = generation["Server"]

\* What made Bob update showed him that his next keys open Alice's packets.
FromAlice ==
    /\ updating["Server"] # NoUpdate /\ Behind => current["Client"]["c2s"] = next["Server"]["c2s"]
    /\ Level => current["Client"]["c2s"] = current["Server"]["c2s"]

\* And the answer showed her that his current keys are hers.
Answered ==
    (Level /\ (prev["Client"] = NoPair \/ end_packet["Client"] # Unacked))
        => current["Client"] = current["Server"]

\* What she keeps is what Bob had.
KeptAlike ==
    /\ Behind => prev["Client"] = current["Server"]
    /\ Level /\ prev["Client"] # NoPair /\ prev["Server"] # NoPair
          => prev["Client"] = prev["Server"]

Together == SentUnder /\ FromAlice /\ Answered /\ KeptAlike

\* Where a split shows.
Differ ==
    \/ Behind /\ current["Client"] # next["Server"]
    \/ Level /\ (current["Client"] # current["Server"] \/ next["Client"] # next["Server"])

\* Nobody is past the first update.
Early == generation["Client"] <= 2 /\ generation["Server"] <= 2

\* update_keys, part by part.
LEMMA UpdateKeysMoves ==
    ASSUME Shape, NEW s \in Sides, NEW new, NEW end, UpdateKeys(s, new, end)
    PROVE  /\ generation'[s] = generation[s] + 1
           /\ current'[s] = next[s] /\ next'[s] = new
           /\ prev'[s] = current[s] /\ end_packet'[s] = end
           /\ \A t \in Sides \ {s} : /\ generation'[t] = generation[t]
                                     /\ current'[t] = current[t] /\ next'[t] = next[t]
                                     /\ prev'[t] = prev[t] /\ end_packet'[t] = end_packet[t]
BY DEF UpdateKeys, Shape

\* A pair of keys is told by its two secrets.
LEMMA SamePair ==
    ASSUME NEW j \in [Directions -> Exported], NEW k \in [Directions -> Exported],
           \A d \in Directions : j[d] = k[d]
    PROVE  j = k
<1>1. j = [d \in Directions |-> j[d]] /\ k = [d \in Directions |-> k[d]]
  OBVIOUS
<1>2. [d \in Directions |-> j[d]] = [d \in Directions |-> k[d]]
  OBVIOUS
<1> QED BY <1>1, <1>2

LEMMA HeldKeys ==
    ASSUME Inv, NEW s \in Sides
    PROVE  /\ generation[s] \in Nat
           /\ current[s] \in [Directions -> Exported] /\ next[s] \in [Directions -> Exported]
           /\ current[s] # NoPair /\ next[s] # NoPair
<1>1. /\ generation[s] \in Nat
      /\ current[s] \in [Directions -> Exported] /\ next[s] \in [Directions -> Exported]
  BY KeyUpdateConstants DEF Inv, Shape
<1>2. current[s]["c2s"].epoch >= 0 /\ next[s]["c2s"].epoch >= 0
  BY <1>1 DEF Exported, Directions
<1>3. NoPair["c2s"].epoch = -1
  BY DEF NoPair, Pair, Secret, Directions
<1> QED BY <1>1, <1>2, <1>3

\* The generations of the two sides.
LEMMA Standing ==
    ASSUME Inv
    PROVE  /\ generation["Client"] \in Nat \ {0} /\ generation["Server"] \in Nat \ {0}
           /\ Behind <=> generation["Server"] < generation["Client"]
           /\ Behind => generation["Client"] = generation["Server"] + 1
           /\ ~Behind /\ ~Level => generation["Client"] = 1 /\ generation["Server"] = 2
           /\ ~Early => Behind \/ Level
           /\ "Client" \in Sides /\ "Server" \in Sides
<1>1. generation["Client"] \in Nat \ {0} /\ generation["Server"] \in Nat \ {0}
  BY KeyUpdateConstants DEF Inv, Shape, Sides
<1>2. Behind <=> generation["Server"] < generation["Client"]
  BY DEF Behind, Leads, Peer
<1>3. generation["Client"] - generation["Server"] \in {-1, 0, 1}
  BY DEF Inv, UpdatesInStep
<1>4. generation["Client"] < generation["Server"] => generation["Server"] = 2
  BY DEF Inv, BobLeadsOnce, Leads, Peer
<1> QED BY <1>1, <1>2, <1>3, <1>4 DEF Level, Early, Sides

\* Where the first update leads is settled by the handshake.
LEMMA Settled ==
    ASSUME Inv
    PROVE  /\ Early => FromAlice /\ Answered /\ KeptAlike
           /\ Differ => generation["Client"] > 1 /\ generation["Server"] > 1
<1>1. ASSUME NEW s \in Sides
      PROVE  /\ generation[s] = 1 => current[s] = K0 /\ next[s] = K1 /\ prev[s] = NoPair
             /\ generation[s] = 2 => current[s] = K1 /\ prev[s] \in {K0, NoPair}
  BY DEF Inv, Keyed, Prepared
<1>2. Behind => prev["Client"] # NoPair
  BY Standing DEF Inv, AwaitsAnswer, Behind
<1>3. ASSUME Early PROVE FromAlice /\ Answered /\ KeptAlike
  <2>1. generation["Client"] \in {1, 2} /\ generation["Server"] \in {1, 2}
    BY <1>3, Standing DEF Early
  <2>2. Behind => generation["Client"] = 2 /\ generation["Server"] = 1
    BY <2>1, Standing
  <2>3. Level => current["Client"] = current["Server"]
    BY <1>1, <2>1, Standing DEF Level
  <2>4. Behind => current["Client"] = next["Server"] /\ prev["Client"] = current["Server"]
    BY <1>1, <1>2, <2>2, Standing
  <2>5. KeptAlike
    BY <1>1, <2>1, <2>4, Standing DEF KeptAlike, Level
  <2> QED BY <2>3, <2>4, <2>5 DEF FromAlice, Answered
<1>4. ASSUME Differ PROVE generation["Client"] > 1 /\ generation["Server"] > 1
  <2>1. generation["Server"] # 1
    <3>1. SUFFICES ASSUME generation["Server"] = 1 PROVE FALSE
      OBVIOUS
    <3>2. generation["Client"] \in {1, 2} /\ (Behind <=> generation["Client"] = 2)
          /\ (Level <=> generation["Client"] = 1)
      BY <1>4, <3>1, Standing DEF Differ, Level
    <3> QED BY <1>1, <1>4, <3>1, <3>2, Standing DEF Differ
  <2>2. generation["Server"] <= generation["Client"]
    BY <1>4, Standing DEF Differ, Level
  <2> QED BY <2>1, <2>2, Standing
<1> QED BY <1>3, <1>4

LEMMA EarlyTogether == Inv /\ Early /\ SentUnder => Together
BY Settled DEF Together

LEMMA EarlyThen == (Inv /\ Early /\ SentUnder => Together)'
BY EarlyTogether, PTL

\* A packet sent under the generation a side has left is no longer of its current one.
LEMMA SentUnderMoves ==
    ASSUME Inv, SentUnder, NEW s \in Sides, packets' = packets,
           generation'[s] = generation[s] + 1,
           \A t \in Sides \ {s} : generation'[t] = generation[t] /\ current'[t] = current[t]
    PROVE  SentUnder'
<1>1. SUFFICES ASSUME NEW p \in packets, p.secret.generation = generation'[Peer(p.to)] - 1
               PROVE  p.secret = current'[Peer(p.to)][Outgoing(Peer(p.to))]
  BY DEF SentUnder
<1>2. p \in Packets /\ p.secret.generation < generation[Peer(p.to)]
  BY DEF Inv, Shape, SentBehind
<1>3. Peer(p.to) \in Sides /\ p.secret.generation \in Nat
  BY <1>2, PeerIsASide, KeyUpdateConstants DEF Packets, Exported
<1>4. CASE Peer(p.to) = s
  BY <1>1, <1>2, <1>3, <1>4, HeldKeys
<1>5. CASE Peer(p.to) # s
  BY <1>1, <1>3, <1>5 DEF SentUnder
<1> QED BY <1>4, <1>5

\* Alice's rekey, when it is one.
LEMMA RekeyMoves ==
    ASSUME Inv, ForceKeyUpdate, prev["Client"] = NoPair
    PROVE  /\ ~Behind /\ updating["Client"] = NoUpdate
           /\ generation'["Client"] = generation["Client"] + 1
           /\ generation'["Server"] = generation["Server"]
           /\ current'["Client"] = next["Client"] /\ prev'["Client"] = current["Client"]
           /\ current'["Server"] = current["Server"] /\ next'["Server"] = next["Server"]
           /\ packets' = packets /\ updating' = updating
           /\ Level => /\ Behind' /\ ~Level'
                       /\ generation["Client"] # 1 => updating["Server"] = NoUpdate
<1>1. /\ UpdateKeys("Client", Pair(NextSecret("Client"), NextSecret("Client")), Unacked)
      /\ packets' = packets /\ updating' = updating /\ updating["Client"] = NoUpdate
  BY DEF ForceKeyUpdate
<1>2. "Client" \in Sides /\ "Server" \in Sides \ {"Client"} /\ Shape
  BY DEF Sides, Inv
<1>3. /\ generation'["Client"] = generation["Client"] + 1
      /\ generation'["Server"] = generation["Server"]
      /\ current'["Client"] = next["Client"] /\ prev'["Client"] = current["Client"]
      /\ current'["Server"] = current["Server"] /\ next'["Server"] = next["Server"]
  BY <1>1, <1>2, UpdateKeysMoves
<1>4. ~Behind
  BY <1>2 DEF Inv, AwaitsAnswer, Behind
<1>5. ASSUME Level PROVE /\ Behind' /\ ~Level'
                         /\ generation["Client"] # 1 => updating["Server"] = NoUpdate
  <2>1. Behind' /\ ~Level'
    BY <1>3, <1>5, Standing DEF Behind, Leads, Level, Peer
  <2>2. generation["Client"] # 1 => updating["Server"] = NoUpdate
    BY <1>2, <1>4, <1>5 DEF Inv, MayUpdate, Level, Behind, Peer
  <2> QED BY <2>1, <2>2
<1> QED BY <1>1, <1>3, <1>4, <1>5

\* An update that is not the first is Bob's catching up.
LEMMA LateUpdate ==
    ASSUME Inv, NEW s \in Sides, updating[s] # NoUpdate, generation[s] # 1
    PROVE  s = "Server" /\ Behind
<1>1. Leads(Peer(s))
  BY DEF Inv, MayUpdate
<1>2. CASE s = "Client"
  <2>1. generation["Client"] < generation["Server"]
    BY <1>1, <1>2 DEF Leads, Peer
  <2>2. ~Behind /\ ~Level
    BY <2>1, Standing DEF Level
  <2> QED BY <1>2, <2>2, Standing
<1> QED BY <1>1, <1>2 DEF Sides, Peer, Behind

\* The end of an update with which Bob has caught up.
LEMMA FinishMoves ==
    ASSUME Inv, NEW s \in Sides, FinishUpdate(s), s = "Server", Behind
    PROVE  /\ updating["Server"] # NoUpdate
           /\ ~Behind' /\ Level'
           /\ generation["Client"] = generation["Server"] + 1
           /\ generation'["Client"] = generation["Client"]
           /\ generation'["Server"] = generation["Client"]
           /\ current'["Client"] = current["Client"] /\ next'["Client"] = next["Client"]
           /\ prev'["Client"] = prev["Client"] /\ end_packet'["Client"] = end_packet["Client"]
           /\ current'["Server"] = next["Server"] /\ prev'["Server"] = current["Server"]
           /\ packets' = packets /\ updating'["Server"] = NoUpdate
<1>1. /\ updating[s] # NoUpdate
      /\ UpdateKeys(s, Pair(updating[s].c2s, NextSecret(s)), updating[s].pn)
      /\ packets' = packets /\ updating' = [updating EXCEPT ![s] = NoUpdate]
  BY DEF FinishUpdate
<1>2. "Client" \in Sides \ {s} /\ "Server" \in Sides /\ Shape
  BY DEF Sides, Inv
<1>3. /\ generation'["Client"] = generation["Client"]
      /\ generation'["Server"] = generation["Server"] + 1
      /\ current'["Client"] = current["Client"] /\ next'["Client"] = next["Client"]
      /\ prev'["Client"] = prev["Client"] /\ end_packet'["Client"] = end_packet["Client"]
      /\ current'["Server"] = next["Server"] /\ prev'["Server"] = current["Server"]
  BY <1>1, <1>2, UpdateKeysMoves
<1>4. generation["Client"] = generation["Server"] + 1 /\ generation["Server"] \in Nat
  BY Standing
<1>5. ~Behind' /\ Level' /\ generation'["Server"] = generation["Client"]
  BY <1>3, <1>4 DEF Behind, Leads, Level, Peer
<1>6. updating'["Server"] = NoUpdate
  BY <1>1, <1>2 DEF Shape
<1> QED BY <1>1, <1>3, <1>4, <1>5, <1>6

\* Where no keys change, what holds of them stays.
LEMMA TogetherKept ==
    ASSUME Together, generation' = generation, current' = current, next' = next,
           prev'["Client"] = prev["Client"], prev'["Server"] \in {prev["Server"], NoPair},
           updating'["Server"] \in {updating["Server"], NoUpdate},
           end_packet'["Client"] = end_packet["Client"], SentUnder'
    PROVE  Together'
<1>1. FromAlice' /\ Answered'
  BY DEF Together, FromAlice, Answered, Behind, Leads, Level
<1>2. KeptAlike'
  BY DEF Together, KeptAlike, Behind, Leads, Level
<1> QED BY <1>1, <1>2 DEF Together

LEMMA TogetherOnRekey ==
    ASSUME Inv, Inv', Together, ForceKeyUpdate PROVE Together'
<1>1. CASE prev["Client"] = NoPair
  <2>1. SentUnder'
    <3>1. "Client" \in Sides /\ Sides \ {"Client"} = {"Server"}
      BY DEF Sides
    <3> QED BY <1>1, <3>1, RekeyMoves, SentUnderMoves DEF Together
  <2>2. CASE generation["Client"] = 1
    <3>1. generation["Server"] <= 2
      BY <1>1, <2>2, RekeyMoves, Standing DEF Level
    <3>2. Early'
      BY <1>1, <2>2, <3>1, RekeyMoves DEF Early
    <3> QED BY <2>1, <3>2, EarlyThen
  <2>3. CASE generation["Client"] # 1
    <3>1. Level
      BY <1>1, <2>3, RekeyMoves, Standing
    <3>2. current["Client"] = current["Server"]
      BY <1>1, <3>1 DEF Together, Answered
    <3>3. FromAlice' /\ Answered'
      BY <1>1, <2>3, <3>1, RekeyMoves DEF FromAlice, Answered
    <3>4. KeptAlike'
      BY <1>1, <3>1, <3>2, RekeyMoves DEF KeptAlike
    <3> QED BY <2>1, <3>3, <3>4 DEF Together
  <2> QED BY <2>2, <2>3
<1>2. CASE prev["Client"] # NoPair
  <2>1. /\ generation' = generation /\ current' = current /\ next' = next /\ prev' = prev
        /\ end_packet' = end_packet /\ packets' = packets /\ updating' = updating
    BY <1>2 DEF ForceKeyUpdate, keyVars
  <2>2. SentUnder'
    BY <2>1 DEF Together, SentUnder
  <2> QED BY <2>1, <2>2, TogetherKept
<1> QED BY <1>1, <1>2

LEMMA TogetherOnFinish ==
    ASSUME Inv, Inv', Together, NEW s \in Sides, FinishUpdate(s) PROVE Together'
<1>1. /\ generation'[s] = generation[s] + 1 /\ packets' = packets
      /\ \A t \in Sides \ {s} : generation'[t] = generation[t] /\ current'[t] = current[t]
  BY UpdateKeysMoves DEF FinishUpdate, Inv
<1>2. SentUnder'
  BY <1>1, SentUnderMoves DEF Together
<1>3. CASE generation[s] = 1
  <2>1. generation[Peer(s)] <= 2 /\ Peer(s) \in Sides \ {s}
    BY <1>3, Standing DEF Level, Peer, Sides
  <2>2. generation'[s] = 2 /\ generation'[Peer(s)] <= 2
    BY <1>1, <1>3, <2>1
  <2>3. Early'
    BY <2>2 DEF Early, Peer, Sides
  <2> QED BY <1>2, <2>3, EarlyThen
<1>4. CASE generation[s] # 1
  <2>1. s = "Server" /\ Behind
    BY <1>4, LateUpdate DEF FinishUpdate
  <2>2. FromAlice'
    BY <2>1, FinishMoves DEF Together, FromAlice
  <2>3. Answered'
    BY <2>1, FinishMoves, Standing DEF Inv, AwaitsAnswer, Behind, Answered
  <2>4. KeptAlike'
    BY <2>1, FinishMoves DEF Together, KeptAlike
  <2> QED BY <1>2, <2>2, <2>3, <2>4 DEF Together
<1> QED BY <1>3, <1>4

\* A packet that opens shows the keys of its sender, one direction of them.
LEMMA TogetherOnReceive ==
    ASSUME Inv, Inv', Together, NEW s \in Sides, NEW p \in packets, Receive(s, p) PROVE Together'
<1> DEFINE opens == KeysFor(s, p)[Outgoing(Peer(s))] = p.secret
           begins == opens /\ StartsUpdate(s, p)
           answer == opens /\ p.phase = phase[s] /\ end_packet[s] = Unacked
           begun  == [pn |-> p.pn, c2s |-> NextSecret(s)]
<1>1. /\ generation' = generation /\ current' = current /\ next' = next
      /\ prev' = prev /\ phase' = phase /\ packets' = packets \ {p} /\ p.to = s
      /\ updating' = IF begins THEN [updating EXCEPT ![s] = begun] ELSE updating
      /\ end_packet' = IF answer THEN [end_packet EXCEPT ![s] = p.pn] ELSE end_packet
  BY DEF Receive
<1>2. /\ opens /\ p.phase = phase[s] => generation[s] <= generation[Peer(s)]
      /\ begins => Leads(Peer(s))
  BY <1>1, OpensUnder
<1>3. SentUnder'
  BY <1>1 DEF Together, SentUnder
<1>4. CASE Early
  <2>1. Early'
    BY <1>1, <1>4 DEF Early
  <2> QED BY <1>3, <2>1, EarlyThen
<1>5. CASE ~Early
  <2>1. begins => s = "Server" /\ current["Client"]["c2s"] = next["Server"]["c2s"]
    <3>1. SUFFICES ASSUME begins
                   PROVE  s = "Server" /\ current["Client"]["c2s"] = next["Server"]["c2s"]
      OBVIOUS
    <3>2. s = "Server" /\ Peer(s) = "Client" /\ Outgoing(Peer(s)) = "c2s" /\ Behind
      <4>1. generation[s] < generation[Peer(s)]
        BY <1>2, <3>1, PeersPeer DEF Leads
      <4>2. s # "Client"
        BY <1>5, <4>1, Standing DEF Level, Peer
      <4> QED BY <4>1, <4>2, Standing DEF Sides, Peer, Outgoing
    <3>3. p.secret = next["Server"]["c2s"]
      BY <3>1, <3>2 DEF KeysFor, StartsUpdate
    <3>4. next["Server"]["c2s"].generation = generation["Client"] - 1
      <4>1. next["Server"]["c2s"].generation = generation["Server"]
        BY DEF Inv, Keyed, Consecutive, Sides, Directions
      <4> QED BY <3>2, <4>1, Standing
    <3>5. p.secret = current["Client"]["c2s"]
      BY <1>1, <3>2, <3>3, <3>4 DEF Together, SentUnder
    <3> QED BY <3>2, <3>3, <3>5
  <2>2. answer /\ s = "Client" => Level /\ current["Client"] = current["Server"]
    <3>1. SUFFICES ASSUME answer, s = "Client"
                   PROVE  Level /\ current["Client"] = current["Server"]
      OBVIOUS
    <3>2. Peer(s) = "Server" /\ Outgoing(Peer(s)) = "s2c"
      BY <3>1 DEF Peer, Outgoing
    <3>3. Level
      BY <1>2, <1>5, <3>1, <3>2, Standing
    <3>4. p.secret = current["Client"]["s2c"]
      BY <3>1, <3>2 DEF KeysFor
    <3>5. current["Client"]["s2c"].generation = generation["Server"] - 1
      BY <3>3 DEF Inv, Keyed, Consecutive, Sides, Directions, Level
    <3>6. p.secret = current["Server"]["s2c"]
      BY <1>1, <3>2, <3>4, <3>5 DEF Together, SentUnder
    <3>7. current["Client"]["c2s"] = current["Server"]["c2s"]
      BY <3>3 DEF Together, FromAlice
    <3>8. /\ current["Client"] \in [Directions -> Exported]
          /\ current["Server"] \in [Directions -> Exported]
      BY HeldKeys DEF Sides
    <3>9. \A d \in Directions : current["Client"][d] = current["Server"][d]
      BY <3>4, <3>6, <3>7 DEF Directions
    <3> QED BY <3>3, <3>8, <3>9, SamePair
  <2> HIDE DEF begins, answer, opens, begun
  <2>3. begins \/ updating'["Server"] = updating["Server"]
    BY <1>1
  <2>4. (answer /\ s = "Client") \/ end_packet'["Client"] = end_packet["Client"]
    BY <1>1 DEF Inv, Shape
  <2>5. FromAlice'
    BY <1>1, <2>1, <2>3 DEF Together, FromAlice, Behind, Leads, Level
  <2>6. Answered'
    BY <1>1, <2>2, <2>4 DEF Together, Answered, Behind, Leads, Level
  <2>7. KeptAlike'
    BY <1>1 DEF Together, KeptAlike, Behind, Leads, Level
  <2> QED BY <1>3, <2>5, <2>6, <2>7 DEF Together
<1> QED BY <1>4, <1>5

LEMMA TogetherStarts == Init => Together
<1> SUFFICES ASSUME Init PROVE Together
  OBVIOUS
<1> QED BY DEF Init, Together, SentUnder, FromAlice, Answered, KeptAlike, Behind, Leads, Level,
            Peer, Sides

LEMMA TogetherStays == ASSUME Inv, Inv', Together, [Next]_vars PROVE Together'
<1>1. CASE UNCHANGED vars
  <2>1. SentUnder'
    BY <1>1 DEF vars, keyVars, Together, SentUnder
  <2> QED BY <1>1, <2>1, TogetherKept DEF vars, keyVars
<1>2. CASE Commit
  <2>1. SentUnder'
    BY <1>2 DEF Commit, keyVars, Together, SentUnder
  <2> QED BY <1>2, <2>1, TogetherKept DEF Commit, keyVars
<1>3. ASSUME NEW e \in 1..MaxEpoch, Apply(e) PROVE Together'
  <2>1. SentUnder'
    BY <1>3 DEF Apply, keyVars, Together, SentUnder
  <2> QED BY <1>3, <2>1, TogetherKept DEF Apply, keyVars
<1>4. CASE Lose
  <2>1. SentUnder'
    BY <1>4 DEF Lose, keyVars, Together, SentUnder
  <2> QED BY <1>4, <2>1, TogetherKept DEF Lose, keyVars
<1>5. ASSUME NEW s \in Sides, Send(s) PROVE Together'
  <2> DEFINE p == [to |-> Peer(s), pn |-> sent[s] + 1, phase |-> phase[s],
                   secret |-> current[s][Outgoing(s)], epoch |-> group[s]]
  <2>1. packets' = packets \cup {p} /\ generation' = generation /\ current' = current
    BY <1>5 DEF Send, keyVars
  <2>2. p.secret = current[Peer(p.to)][Outgoing(Peer(p.to))]
    BY DEF Peer, Sides
  <2> HIDE DEF p
  <2>3. SentUnder'
    BY <2>1, <2>2 DEF Together, SentUnder
  <2> QED BY <1>5, <2>3, TogetherKept DEF Send, keyVars
<1>6. ASSUME NEW s \in Sides, Discard(s) PROVE Together'
  <2>1. SentUnder'
    BY <1>6 DEF Discard, Together, SentUnder
  <2>2. CASE s = "Server"
    <3>1. prev'["Client"] = prev["Client"] /\ prev'["Server"] = NoPair
      BY <1>6, <2>2 DEF Discard, Inv, Shape, Sides
    <3> QED BY <1>6, <2>1, <3>1, TogetherKept DEF Discard
  <2>3. CASE s = "Client"
    <3>1. /\ end_packet["Client"] # Unacked /\ prev["Client"] # NoPair
          /\ prev'["Client"] = NoPair
          /\ generation' = generation /\ current' = current /\ next' = next
          /\ updating' = updating /\ end_packet' = end_packet
      BY <1>6, <2>3 DEF Discard, Inv, Shape
    <3>2. ~Behind /\ ~Behind' /\ (Level' <=> Level)
      BY <3>1, Standing DEF Inv, AwaitsAnswer, Behind, Leads, Level
    <3>3. FromAlice' /\ Answered' /\ KeptAlike'
      BY <3>1, <3>2 DEF Together, FromAlice, Answered, KeptAlike
    <3> QED BY <2>1, <3>3 DEF Together
  <2> QED BY <2>2, <2>3 DEF Sides
<1>7. ASSUME NEW s \in Sides, RoutineUpdate(s) PROVE Together'
  <2>1. /\ generation' = generation /\ current' = current /\ next' = next /\ prev' = prev
        /\ end_packet' = end_packet /\ packets' = packets
    BY <1>7 DEF RoutineUpdate, keyVars
  <2>2. SentUnder'
    BY <2>1 DEF Together, SentUnder
  <2>3. CASE s = "Server"
    <3>1. Early'
      BY <1>7, <2>1, <2>3, Standing DEF RoutineUpdate, Early, Level
    <3> QED BY <2>2, <3>1, EarlyThen
  <2>4. CASE s = "Client"
    <3>1. updating'["Server"] = updating["Server"]
      BY <1>7, <2>4 DEF RoutineUpdate, Inv, Shape
    <3> QED BY <2>1, <2>2, <3>1, TogetherKept
  <2> QED BY <2>3, <2>4 DEF Sides
<1> QED
  BY <1>1, <1>2, <1>3, <1>4, <1>5, <1>6, <1>7, TogetherOnRekey, TogetherOnFinish,
     TogetherOnReceive, Zenon DEF Next

LEMMA TogetherHolds == Spec => []Together
BY InvHolds, TogetherStarts, TogetherStays, PTL DEF Spec

\* Of the generations both sides hold, it is the latest that tells.
LEMMA SplitShows == ASSUME Inv, Together PROVE Split <=> Differ
<1>1. /\ "Client" \in Sides /\ "Server" \in Sides
      /\ generation["Client"] \in Nat /\ generation["Server"] \in Nat
  BY Standing
<1>2. ASSUME NEW s \in Sides
      PROVE  {current[s], next[s]} \subseteq Generations(s)
  BY HeldKeys, <1>2 DEF Generations
<1>3. ASSUME NEW s \in Sides, NEW d \in Directions
      PROVE  /\ next[s][d].generation = generation[s]
             /\ current[s][d].generation = generation[s] - 1
             /\ prev[s] # NoPair => prev[s][d].generation = generation[s] - 2
  BY DEF Inv, Keyed, Consecutive
<1>4. ASSUME NEW s \in Sides, NEW k \in Generations(s), NEW d \in Directions
      PROVE  \/ k = next[s] /\ k[d].generation = generation[s]
             \/ k = current[s] /\ k[d].generation = generation[s] - 1
             \/ k = prev[s] /\ prev[s] # NoPair /\ k[d].generation = generation[s] - 2
  BY <1>3 DEF Generations
<1>5. ASSUME NEW j \in Generations("Client"), NEW k \in Generations("Server"), j # k,
             j \in [Directions -> Exported], k \in [Directions -> Exported],
             \A d \in Directions : j[d].generation = k[d].generation
      PROVE  Split
  BY <1>5, SamePair DEF Split
<1>6. CASE Behind
  <2>1. generation["Client"] = generation["Server"] + 1
    BY <1>6, Standing
  <2>2. Split => Differ
    <3>1. SUFFICES ASSUME NEW j \in Generations("Client"), NEW k \in Generations("Server"),
                          NEW d \in Directions,
                          j[d].generation = k[d].generation, j[d] # k[d],
                          current["Client"] = next["Server"]
                   PROVE  FALSE
      BY <1>6, Standing DEF Split, Differ, Level
    <3>2. prev["Client"] = current["Server"]
      BY <1>6 DEF Together, KeptAlike
    <3> QED BY <1>1, <1>4, <2>1, <3>1, <3>2
  <2>3. Differ => Split
    <3>1. \A d \in Directions : current["Client"][d].generation = next["Server"][d].generation
      BY <1>1, <1>3, <2>1
    <3> QED BY <1>1, <1>2, <1>5, <1>6, <3>1, Standing, HeldKeys DEF Differ, Level
  <2> QED BY <2>2, <2>3
<1>7. CASE Level
  <2>1. generation["Client"] = generation["Server"]
    BY <1>7 DEF Level
  <2>2. Split => Differ
    <3>1. SUFFICES ASSUME NEW j \in Generations("Client"), NEW k \in Generations("Server"),
                          NEW d \in Directions,
                          j[d].generation = k[d].generation, j[d] # k[d],
                          current["Client"] = current["Server"], next["Client"] = next["Server"]
                   PROVE  FALSE
      BY <1>7 DEF Split, Differ
    <3>2. prev["Client"] # NoPair /\ prev["Server"] # NoPair => prev["Client"] = prev["Server"]
      BY <1>7 DEF Together, KeptAlike
    <3> QED BY <1>1, <1>4, <2>1, <3>1, <3>2
  <2>3. Differ => Split
    <3>1. \A d \in Directions :
              /\ current["Client"][d].generation = current["Server"][d].generation
              /\ next["Client"][d].generation = next["Server"][d].generation
      BY <1>1, <1>3, <2>1
    <3> QED BY <1>1, <1>2, <1>5, <1>7, <3>1, Standing, HeldKeys DEF Differ, Level
  <2> QED BY <2>2, <2>3
<1>8. CASE ~Behind /\ ~Level
  <2>1. generation["Client"] = 1 /\ generation["Server"] = 2
    BY <1>8, Standing
  <2>2. /\ current["Client"] = K0 /\ next["Client"] = K1 /\ prev["Client"] = NoPair
        /\ current["Server"] = K1 /\ prev["Server"] \in {K0, NoPair}
    BY <1>1, <2>1 DEF Inv, Keyed, Prepared
  <2>3. ~Split
    <3>1. SUFFICES ASSUME NEW j \in Generations("Client"), NEW k \in Generations("Server"),
                          NEW d \in Directions,
                          j[d].generation = k[d].generation, j[d] # k[d]
                   PROVE  FALSE
      BY DEF Split
    <3>2. j \in {K0, K1} /\ k \in {K0, K1, next["Server"]}
      BY <2>2 DEF Generations
    <3>3. K0[d].generation = 0 /\ K1[d].generation = 1 /\ next["Server"][d].generation = 2
      BY <1>1, <1>3, <2>1 DEF K0, K1, Pair, Secret
    <3> QED BY <3>1, <3>2, <3>3
  <2> QED BY <1>8, <2>3 DEF Differ
<1> QED BY <1>6, <1>7, <1>8

LEMMA DifferKept == ASSUME Inv, Together, Differ, [Next]_vars PROVE Differ'
<1>1. CASE /\ generation' = generation /\ current' = current /\ next' = next
  BY <1>1 DEF Differ, Behind, Leads, Level
<1>2. CASE ForceKeyUpdate
  <2>1. CASE prev["Client"] = NoPair
    <3>1. Level
      BY <1>2, <2>1, Settled, Standing, RekeyMoves
    <3>2. current["Client"] = current["Server"] /\ next["Client"] # next["Server"]
      BY <1>2, <2>1, <3>1, RekeyMoves DEF Together, Answered, Differ
    <3> QED BY <1>2, <2>1, <3>1, <3>2, RekeyMoves DEF Differ
  <2>2. CASE prev["Client"] # NoPair
    BY <1>1, <1>2, <2>2 DEF ForceKeyUpdate, keyVars
  <2> QED BY <2>1, <2>2
<1>3. ASSUME NEW s \in Sides, FinishUpdate(s) PROVE Differ'
  <2>1. generation[s] # 1
    BY Settled, Standing DEF Sides
  <2>2. s = "Server" /\ Behind
    BY <1>3, <2>1, LateUpdate DEF FinishUpdate
  <2> QED BY <1>3, <2>2, FinishMoves, Standing DEF Differ, Level
<1>4. CASE UNCHANGED vars
  BY <1>1, <1>4 DEF vars, keyVars
<1>5. CASE Commit \/ (\E e \in 1..MaxEpoch : Apply(e)) \/ Lose
  BY <1>1, <1>5 DEF Commit, Apply, Lose, keyVars
<1>6. ASSUME NEW s \in Sides, Send(s) \/ RoutineUpdate(s) \/ Discard(s) PROVE Differ'
  BY <1>1, <1>6 DEF Send, RoutineUpdate, Discard, keyVars
<1>7. ASSUME NEW s \in Sides, NEW p \in packets, Receive(s, p) PROVE Differ'
  BY <1>1, <1>7 DEF Receive
<1> QED BY <1>2, <1>3, <1>4, <1>5, <1>6, <1>7, Zenon DEF Next

\* Once the sides differ on a generation both hold, no commit, packet or update makes
\* them agree on all they hold again (session.rs:161-168, main.rs:543).
THEOREM SplitsAreFinal == Spec => SplitIsFinal
<1>1. Inv /\ Together => (Split <=> Differ)
  BY SplitShows
<1>2. Inv /\ Together /\ Differ /\ [Next]_vars => Differ'
  BY DifferKept
<1> QED BY <1>1, <1>2, InvHolds, TogetherHolds, PTL DEF Spec, SplitIsFinal

-----------------------------------------------------------------------------
(***************************************************************************)
(* What the round trip of tests/loopback.rs relies on.  As long as Alice   *)
(* commits only between updates, everything arrives in order and quinn     *)
(* makes no update of its own, nobody updates but for a rekey; she has     *)
(* rekeyed once for each commit, all she sends under a new phase is of the *)
(* epoch she is at, and a packet of it reaches Bob behind every preamble:  *)
(* what he exports in the middle of his update is what she exported.       *)
(***************************************************************************)

\* Only Alice leads, and Bob updates only to catch up.
AliceLeads ==
    /\ Behind \/ Level
    /\ updating["Client"] = NoUpdate
    /\ updating["Server"] # NoUpdate => Behind

\* Once for each commit, and not while the last update is still on.
PaidInFull ==
    /\ generation["Client"] + (IF rekeying THEN 1 ELSE 0) = group["Client"] + 1
    /\ rekeying => prev["Client"] = NoPair /\ ~Behind

\* Every commit has been applied or is on its way.
NoneLost == \A e \in 1..group["Client"] : e \in preambles \/ e <= group["Server"]

\* The new phase is of one epoch.
OfOneEpoch ==
    Behind => \A p \in packets :
        p.to = "Server" /\ p.secret.generation = generation["Client"] - 1
            => p.epoch = group["Client"]

\* The keys Alice has, or has ahead of Bob.
InSync ==
    IF Behind
    THEN /\ current["Client"] = next["Server"]
         /\ LET new == Secret(group["Client"], generation["Client"])
            IN  next["Client"] = Pair(new, new)
    ELSE current["Client"] = current["Server"] /\ next["Client"] = next["Server"]

\* What Bob has exported of his next update.
HalfWay ==
    updating["Server"] # NoUpdate =>
        /\ group["Server"] = group["Client"]
        /\ updating["Server"].c2s = Secret(group["Client"], generation["Client"])

Ordered == AliceLeads /\ PaidInFull /\ NoneLost /\ OfOneEpoch /\ InSync /\ HalfWay

LEMMA OrderedStarts == Init => Ordered
BY DEF Init, Ordered, AliceLeads, PaidInFull, NoneLost, OfOneEpoch, InSync, HalfWay, Behind,
       Leads, Level, Peer, Sides

LEMMA Groups ==
    ASSUME Inv
    PROVE  /\ group["Client"] \in Nat /\ group["Server"] \in Nat
           /\ group["Server"] <= group["Client"] /\ preambles \subseteq 1..group["Client"]
           /\ generation["Client"] \in Nat /\ generation["Server"] \in Nat
BY KeyUpdateConstants, HeldKeys DEF Inv, Shape, Sides

\* Where neither keys nor groups change.
LEMMA OrderedKept ==
    ASSUME Ordered, generation' = generation, current' = current, next' = next,
           group' = group, rekeying' = rekeying, updating' = updating,
           preambles' = preambles,
           prev'["Client"] \in {prev["Client"], NoPair}, OfOneEpoch'
    PROVE  Ordered'
<1>1. AliceLeads' /\ PaidInFull' /\ NoneLost' /\ InSync' /\ HalfWay'
  BY DEF Ordered, AliceLeads, PaidInFull, NoneLost, InSync, HalfWay, Behind, Leads, Level
<1> QED BY <1>1 DEF Ordered

LEMMA OrderedOnCommit == ASSUME Inv, Ordered, Commit, orderly' PROVE Ordered'
<1>1. /\ ~rekeying /\ rekeying' /\ prev["Client"] = NoPair
      /\ generation' = generation /\ current' = current /\ next' = next /\ prev' = prev
      /\ packets' = packets /\ updating' = updating
      /\ preambles' = preambles \cup {group["Client"] + 1}
  BY DEF Commit, keyVars
<1>2. group'["Client"] = group["Client"] + 1 /\ group'["Server"] = group["Server"]
  BY DEF Commit, Inv, Shape, Sides
<1>3. /\ ~Behind /\ ~Behind' /\ Level /\ Level' /\ AliceLeads'
  BY <1>1, Standing DEF Inv, AwaitsAnswer, Behind, Leads, Level, Ordered, AliceLeads
<1>4. PaidInFull'
  BY <1>1, <1>2, <1>3, Groups DEF Ordered, PaidInFull
<1>5. NoneLost'
  BY <1>1, <1>2, Groups DEF Ordered, NoneLost
<1>6. OfOneEpoch' /\ InSync'
  BY <1>1, <1>3 DEF Ordered, OfOneEpoch, InSync
<1>7. HalfWay'
  BY <1>1, <1>3 DEF AliceLeads, HalfWay
<1> QED BY <1>3, <1>4, <1>5, <1>6, <1>7 DEF Ordered

\* Both sides have the same keys when Alice rekeys, and nobody has seen the new ones.
LEMMA OrderedOnRekey == ASSUME Inv, Ordered, ForceKeyUpdate PROVE Ordered'
<1>1. prev["Client"] = NoPair /\ rekeying /\ rekeying' = FALSE
      /\ group' = group /\ preambles' = preambles
  BY DEF ForceKeyUpdate, Ordered, PaidInFull
<1>2. /\ Level /\ ~Behind /\ Behind' /\ ~Level'
      /\ generation["Client"] = generation["Server"]
      /\ updating["Server"] = NoUpdate /\ updating["Client"] = NoUpdate
      /\ updating' = updating
  BY <1>1, RekeyMoves DEF Ordered, AliceLeads, Level
<1>3. AliceLeads'
  BY <1>2 DEF AliceLeads
<1>4. PaidInFull'
  BY <1>2, <1>1, RekeyMoves, Groups DEF Ordered, PaidInFull
<1>5. NoneLost' /\ HalfWay'
  BY <1>1, <1>2, RekeyMoves DEF Ordered, NoneLost, HalfWay
<1>6. OfOneEpoch'
  <2>1. SUFFICES ASSUME NEW p \in packets, p.to = "Server",
                        p.secret.generation = generation'["Client"] - 1
                 PROVE  FALSE
    BY <1>1, RekeyMoves DEF OfOneEpoch
  <2>2. p.secret.generation < generation["Client"]
    BY <2>1 DEF Inv, SentBehind, Peer
  <2> QED BY <1>1, <2>1, <2>2, RekeyMoves, Groups
<1>7. InSync'
  <2>1. next'["Client"] = Pair(NextSecret("Client"), NextSecret("Client"))
    <3>1. UpdateKeys("Client", Pair(NextSecret("Client"), NextSecret("Client")), Unacked)
      BY <1>1 DEF ForceKeyUpdate
    <3> QED BY <3>1, UpdateKeysMoves DEF Inv, Sides
  <2>2. NextSecret("Client") = Secret(group'["Client"], generation'["Client"])
    BY <1>1, RekeyMoves DEF NextSecret
  <2> QED BY <1>1, <1>2, <2>1, <2>2, RekeyMoves DEF Ordered, InSync
<1> QED BY <1>4, <1>5, <1>6, <1>7, <1>3 DEF Ordered

LEMMA OrderedOnApply ==
    ASSUME Inv, Ordered, NEW e \in 1..MaxEpoch, Apply(e), orderly' PROVE Ordered'
<1>1. /\ generation' = generation /\ current' = current /\ next' = next /\ prev' = prev
      /\ packets' = packets /\ updating' = updating /\ rekeying' = rekeying
      /\ preambles' = preambles \ {e} /\ e \in preambles
  BY DEF Apply, keyVars
<1>2. /\ group'["Client"] = group["Client"]
      /\ group'["Server"] = IF group["Server"] < e THEN e ELSE group["Server"]
  BY DEF Apply, Inv, Shape, Sides
<1>3. AliceLeads' /\ PaidInFull' /\ OfOneEpoch' /\ InSync'
  BY <1>1, <1>2 DEF Ordered, AliceLeads, PaidInFull, OfOneEpoch, InSync, Behind, Leads, Level
<1>4. NoneLost'
  BY <1>1, <1>2, Groups DEF Ordered, NoneLost
<1>5. HalfWay'
  BY <1>1, <1>2, Groups DEF Ordered, HalfWay
<1> QED BY <1>3, <1>4, <1>5 DEF Ordered

\* The packet that makes Bob update is behind all preambles: he has every commit.
LEMMA OrderedOnReceive ==
    ASSUME Inv, Together, Ordered, NEW s \in Sides, NEW p \in packets, Receive(s, p), orderly'
    PROVE  Ordered'
<1> DEFINE begins == /\ KeysFor(s, p)[Outgoing(Peer(s))] = p.secret /\ StartsUpdate(s, p)
           begun  == [pn |-> p.pn, c2s |-> NextSecret(s)]
<1>1. /\ generation' = generation /\ current' = current /\ next' = next /\ prev' = prev
      /\ packets' = packets \ {p} /\ group' = group /\ preambles' = preambles
      /\ rekeying' = rekeying /\ p.to = s /\ InOrder(p)
      /\ updating' = IF begins THEN [updating EXCEPT ![s] = begun] ELSE updating
  BY DEF Receive
<1>2. OfOneEpoch'
  BY <1>1 DEF Ordered, OfOneEpoch, Behind, Leads
<1>3. PaidInFull' /\ NoneLost' /\ InSync'
  BY <1>1 DEF Ordered, PaidInFull, NoneLost, InSync, Behind, Leads
<1>4. CASE begins
  <2>1. generation[s] < generation[Peer(s)]
    BY <1>1, <1>4, OpensUnder, PeersPeer DEF Leads
  <2>2. /\ s = "Server" /\ Peer(s) = "Client" /\ Outgoing(Peer(s)) = "c2s"
        /\ Behind /\ generation["Client"] = generation["Server"] + 1
    <3>1. s # "Client"
      BY <2>1, Standing DEF Ordered, AliceLeads, Level, Peer
    <3> QED BY <2>1, <3>1, Standing DEF Sides, Peer, Outgoing
  <2>3. p.secret = next["Server"]["c2s"]
    BY <1>4, <2>2 DEF KeysFor, StartsUpdate
  <2>4. next["Server"]["c2s"].generation = generation["Server"]
    BY DEF Inv, Keyed, Consecutive, Sides, Directions
  <2>5. p.secret.generation = generation["Client"] - 1
    BY <2>2, <2>3, <2>4, Groups
  <2>6. p.epoch = group["Client"]
    BY <1>1, <2>2, <2>5 DEF Ordered, OfOneEpoch
  <2>7. preambles = {}
    <3>1. \A e \in preambles : group["Client"] < e
      BY <1>1, <2>2, <2>6 DEF InOrder
    <3> QED BY <3>1, Groups
  <2>8. group["Server"] = group["Client"]
    BY <2>7, Groups DEF Ordered, NoneLost
  <2>9. updating'["Server"].c2s = NextSecret("Server")
    <3> HIDE DEF begins
    <3>1. updating' = [updating EXCEPT !["Server"] = begun] /\ begun.c2s = NextSecret("Server")
      BY <1>1, <1>4, <2>2
    <3> HIDE DEF begun
    <3> QED BY <3>1 DEF Inv, Shape, Sides
  <2>10. NextSecret("Server") = Secret(group["Client"], generation["Client"])
    BY <2>2, <2>8 DEF NextSecret
  <2>11. HalfWay'
    BY <1>1, <2>8, <2>9, <2>10 DEF HalfWay
  <2>12. AliceLeads'
    <3>1. updating'["Client"] = updating["Client"]
      BY <1>1, <2>2 DEF Inv, Shape
    <3> QED BY <1>1, <2>2, <3>1 DEF Ordered, AliceLeads, Behind, Leads
  <2> QED BY <1>2, <1>3, <2>11, <2>12 DEF Ordered
<1>5. CASE ~begins
  <2>1. HalfWay'
    BY <1>1, <1>5 DEF Ordered, HalfWay
  <2>2. AliceLeads'
    BY <1>1, <1>5 DEF Ordered, AliceLeads, Behind, Leads, Level
  <2> QED BY <1>2, <1>3, <2>1, <2>2 DEF Ordered
<1> QED BY <1>4, <1>5

\* Bob has caught up, with Alice's keys.
LEMMA OrderedOnFinish ==
    ASSUME Inv, Ordered, NEW s \in Sides, FinishUpdate(s) PROVE Ordered'
<1>1. /\ s = "Server" /\ Behind
      /\ group' = group /\ preambles' = preambles /\ rekeying' = rekeying
  BY DEF FinishUpdate, Ordered, AliceLeads, Sides
<1>2. AliceLeads'
  <2>1. updating'["Client"] = updating["Client"]
    BY <1>1 DEF FinishUpdate, Inv, Shape
  <2> QED BY <1>1, <2>1, FinishMoves DEF Ordered, AliceLeads
<1>3. next'["Server"] = Pair(updating["Server"].c2s, NextSecret("Server"))
  <2>1. UpdateKeys(s, Pair(updating[s].c2s, NextSecret(s)), updating[s].pn)
    BY DEF FinishUpdate
  <2> QED BY <1>1, <2>1, UpdateKeysMoves DEF Inv
<1>4. NextSecret("Server") = Secret(group["Client"], generation["Client"])
      /\ updating["Server"].c2s = Secret(group["Client"], generation["Client"])
  BY <1>1, FinishMoves DEF NextSecret, Ordered, HalfWay
<1>5. PaidInFull' /\ NoneLost'
  BY <1>1, FinishMoves DEF Ordered, PaidInFull, NoneLost
<1>6. OfOneEpoch' /\ HalfWay'
  BY <1>1, FinishMoves DEF OfOneEpoch, HalfWay
<1>7. InSync'
  BY <1>1, <1>3, <1>4, FinishMoves DEF Ordered, InSync
<1> QED BY <1>5, <1>6, <1>7, <1>2 DEF Ordered

LEMMA OrderedOnSend == ASSUME Inv, Ordered, NEW s \in Sides, Send(s) PROVE Ordered'
<1> DEFINE p == [to |-> Peer(s), pn |-> sent[s] + 1, phase |-> phase[s],
                 secret |-> current[s][Outgoing(s)], epoch |-> group[s]]
<1>1. /\ generation' = generation /\ current' = current /\ next' = next /\ prev' = prev
      /\ group' = group /\ preambles' = preambles /\ rekeying' = rekeying
      /\ updating' = updating /\ packets' = packets \cup {p}
  BY DEF Send, keyVars
<1>2. p.to = "Server" => p.epoch = group["Client"]
  BY DEF Peer, Sides
<1> HIDE DEF p
<1>3. OfOneEpoch'
  BY <1>1, <1>2 DEF Ordered, OfOneEpoch, Behind, Leads
<1> QED BY <1>1, <1>3, OrderedKept

LEMMA OrderedStays ==
    ASSUME Inv, Together, orderly => Ordered, [Next]_vars, orderly' PROVE Ordered'
<1>1. CASE UNCHANGED vars
  <2>1. orderly /\ OfOneEpoch'
    BY <1>1 DEF vars, keyVars, Ordered, OfOneEpoch, Behind, Leads
  <2> QED BY <1>1, <2>1, OrderedKept DEF vars, keyVars
<1>2. CASE Commit
  BY <1>2, OrderedOnCommit DEF Commit
<1>3. CASE ForceKeyUpdate
  BY <1>3, OrderedOnRekey DEF ForceKeyUpdate
<1>4. ASSUME NEW e \in 1..MaxEpoch, Apply(e) PROVE Ordered'
  BY <1>4, OrderedOnApply DEF Apply
<1>5. CASE Lose
  BY <1>5 DEF Lose
<1>6. ASSUME NEW s \in Sides, Send(s) PROVE Ordered'
  BY <1>6, OrderedOnSend DEF Send
<1>7. ASSUME NEW s \in Sides, FinishUpdate(s) PROVE Ordered'
  BY <1>7, OrderedOnFinish DEF FinishUpdate
<1>8. ASSUME NEW s \in Sides, RoutineUpdate(s) PROVE Ordered'
  BY <1>8 DEF RoutineUpdate
<1>9. ASSUME NEW s \in Sides, Discard(s) PROVE Ordered'
  <2>1. orderly /\ prev'["Client"] \in {prev["Client"], NoPair}
    BY <1>9 DEF Discard, Inv, Shape, Sides
  <2>2. OfOneEpoch'
    BY <1>9, <2>1 DEF Discard, Ordered, OfOneEpoch, Behind, Leads
  <2> QED BY <1>9, <2>1, <2>2, OrderedKept DEF Discard
<1>10. ASSUME NEW s \in Sides, NEW p \in packets, Receive(s, p) PROVE Ordered'
  BY <1>10, OrderedOnReceive DEF Receive
<1> QED
  BY <1>1, <1>2, <1>3, <1>4, <1>5, <1>6, <1>7, <1>9, <1>10, <1>8, Zenon DEF Next

\* After a rekey both sides hold the same keys, if each commit waited for the last
\* update, nothing was lost or overtaken, and quinn has not updated by itself
\* (tests/loopback.rs:218).
THEOREM RekeysInSync == Spec => []InSyncAfterRekey
<1>1. Init => (orderly => Ordered)
  BY OrderedStarts
<1>2. Inv /\ Together /\ (orderly => Ordered) /\ [Next]_vars => (orderly => Ordered)'
  BY OrderedStays
<1>3. Inv /\ (orderly => Ordered) => InSyncAfterRekey
  BY Standing DEF Ordered, InSync, InSyncAfterRekey
<1> QED BY <1>1, <1>2, <1>3, InvHolds, TogetherHolds, PTL DEF Spec
=============================================================================

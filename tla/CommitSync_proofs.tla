------------------------- MODULE CommitSync_proofs -------------------------
(***************************************************************************)
(* Custody of commits, proved for every bound, budget and datagram size.   *)
(*                                                                         *)
(* None of the invariants of CommitSync is inductive: that a report is not *)
(* ahead of Bob rests on the watch channel, that on the sink, that on what *)
(* is under way, and that on what Alice sent.  Inv names each link of that *)
(* chain.                                                                  *)
(***************************************************************************)
EXTENDS CommitSync, FiniteSetTheorems, TLAPS

-----------------------------------------------------------------------------
(* The log alone keeps its window whole, whatever is reported to it.  Its  *)
(* invariant is inductive as it stands; the lemmas speak of one operation  *)
(* each, for the steps of the protocol to use.                             *)

LogInv == LogTypeOK /\ LogIsTheWindow /\ LogReplaysTheGroup

\* A restriction of a window is a window, with the entries asked for.
LEMMA EntriesAreAWindow ==
    ASSUME NEW w, IsWindow(w), NEW S
    PROVE  /\ IsWindow(Entries(w, S))
           /\ DOMAIN Entries(w, S) = DOMAIN w \cap S
           /\ \A e \in DOMAIN w \cap S : Entries(w, S)[e] = w[e]
BY DEF Entries, IsWindow

\* new (group.rs:105-112) starts with an empty window.
LEMMA LogStarts == LogInit => LogInv
BY LogConstants
   DEF LogInit, LogInv, LogTypeOK, LogIsTheWindow, LogReplaysTheGroup, NoEntries, IsWindow

\* create_commit appends the one commit that follows the window.
LEMMA CreateCommitKeeps == ASSUME LogInv, CreateCommit PROVE LogInv'
<1> USE LogConstants DEF LogInv, LogTypeOK, LogIsTheWindow, LogReplaysTheGroup, CreateCommit
<1>1. /\ inner' \in Nat
      /\ current_epoch' \in 0..MaxEpoch
      /\ checkpoint' \in 0..current_epoch'
      /\ inner' = Base + current_epoch'
  OBVIOUS
<1>2. DOMAIN commit_log' = (checkpoint + 1)..(current_epoch + 1)
  OBVIOUS
<1>3. \A e \in DOMAIN commit_log' : commit_log'[e] = Base + e - 1
  BY <1>2
<1>4. IsWindow(commit_log')
  BY <1>2, <1>3 DEF IsWindow, Epochs
<1> QED BY <1>1, <1>2, <1>3, <1>4

\* trim moves the checkpoint up to what was reported and really exists, and
\* keeps the rest of the window as it was.
LEMMA TrimKeeps ==
    ASSUME LogInv, NEW k \in Nat, Trim(k)
    PROVE  LogInv' /\ checkpoint' >= checkpoint /\ (checkpoint' = checkpoint \/ checkpoint' <= k)
<1> USE LogConstants DEF LogInv, LogTypeOK, LogIsTheWindow, LogReplaysTheGroup
<1> DEFINE kept == {e \in DOMAIN commit_log : e > checkpoint'}
<1>1. /\ inner' = inner /\ current_epoch' = current_epoch
      /\ checkpoint' \in checkpoint..current_epoch
      /\ checkpoint' = checkpoint \/ checkpoint' <= k
      /\ commit_log' = Entries(commit_log, kept)
  BY DEF Trim
<1>2. /\ IsWindow(commit_log')
      /\ DOMAIN commit_log' = DOMAIN commit_log \cap kept
      /\ \A e \in DOMAIN commit_log \cap kept : commit_log'[e] = commit_log[e]
  <2> HIDE DEF kept
  <2> QED BY <1>1, EntriesAreAWindow
<1>3. DOMAIN commit_log' = (checkpoint' + 1)..current_epoch'
  <2>1. \A e : e \in kept <=> e \in (checkpoint' + 1)..current_epoch
    BY <1>1
  <2>2. DOMAIN commit_log \cap kept = (checkpoint' + 1)..current_epoch
    BY <2>1
  <2> QED BY <1>1, <1>2, <2>2
<1>4. \A e \in DOMAIN commit_log' : commit_log'[e] = Base + e - 1
  BY <1>2
<1> QED BY <1>1, <1>2, <1>3, <1>4

\* The log holds exactly the commits after the checkpoint, and they lead from
\* there to its group's epoch, whatever sequence of commits and reports it sees
\* (group.rs:75-80 and 121-125).
THEOREM LogIsWhole == LogSpec => [](LogTypeOK /\ LogIsTheWindow /\ LogReplaysTheGroup)
<1>1. ASSUME LogInv, [LogNext]_logVars PROVE LogInv'
  <2>1. CASE CreateCommit
    BY <1>1, <2>1, CreateCommitKeeps
  <2>2. ASSUME NEW k \in 0..(MaxEpoch + 1), Trim(k) PROVE LogInv'
    <3>1. k \in Nat
      BY LogConstants
    <3> QED BY <1>1, <2>2, <3>1, TrimKeeps
  <2>3. CASE UNCHANGED logVars
    BY <1>1, <2>3
       DEF logVars, LogInv, LogTypeOK, LogIsTheWindow, LogReplaysTheGroup, IsWindow
  <2> QED BY <1>1, <2>1, <2>2, <2>3 DEF LogNext
<1>2. LogInv => LogTypeOK /\ LogIsTheWindow /\ LogReplaysTheGroup
  BY DEF LogInv
<1> QED BY <1>1, <1>2, LogStarts, PTL DEF LogSpec

\* Types; trim never moves the checkpoint past what was committed (group.rs:122).
THEOREM LogTypeCorrect == LogSpec => []LogTypeOK
BY LogIsWhole, PTL

\* Replaying what the log holds, from its checkpoint, leads to its group's own epoch:
\* create_commit and trim never leave a commit of another history in it
\* (group.rs:75-80, 121-125).
THEOREM LogReplays == LogSpec => []LogReplaysTheGroup
BY LogIsWhole, PTL

-----------------------------------------------------------------------------
(* The protocol.                                                           *)

\* Both groups follow the numbering of the log.
Numbering == bobGroup = Base + local_epoch

\* Whatever was let out: commits of the log, within budget of the checkpoint.
Sent(w) ==
    \A e \in DOMAIN w : /\ e <= current_epoch
                        /\ e <= checkpoint + Budget
                        /\ w[e] = Base + e - 1

AllSent == Sent(outbox) /\ \A d \in net : Sent(d)

\* Each account of Bob's progress is behind the one it is copied from.
Progress ==
    /\ checkpoint <= epoch
    /\ epoch <= watched
    /\ watched <= local_epoch
    /\ local_epoch <= current_epoch
    /\ local_epoch <= checkpoint + Budget

\* And the reports under way lie between the first and the second.
Reports == ReportsInOrder /\ \A i \in 1..Len(stream) : stream[i] <= epoch

Links == aliceLink \/ stream = <<>>

Inv == TypeOK /\ LogInv /\ Numbering /\ AllSent /\ Progress /\ Reports /\ Links

-----------------------------------------------------------------------------
\* What takes nothing from the log's own variables keeps the log's invariant.
LEMMA LogUntouched == ASSUME LogInv, UNCHANGED logVars PROVE LogInv'
BY DEF logVars, LogInv, LogTypeOK, LogIsTheWindow, LogReplaysTheGroup, IsWindow

\* The first entries of a window are entries of it.
LEMMA FirstEntriesOf ==
    ASSUME NEW w, IsWindow(w), NEW n
    PROVE  /\ IsWindow(FirstEntries(w, n))
           /\ DOMAIN FirstEntries(w, n) \subseteq DOMAIN w
           /\ \A e \in DOMAIN FirstEntries(w, n) : FirstEntries(w, n)[e] = w[e]
<1> DEFINE S == {e \in DOMAIN w : Cardinality({f \in DOMAIN w : f <= e}) <= n}
<1> HIDE DEF S
<1>1. FirstEntries(w, n) = Entries(w, S)
  BY DEF FirstEntries, S
<1>2. /\ IsWindow(Entries(w, S))
      /\ DOMAIN Entries(w, S) = DOMAIN w \cap S
      /\ \A e \in DOMAIN w \cap S : Entries(w, S)[e] = w[e]
  BY EntriesAreAWindow
<1>3. /\ DOMAIN Entries(w, S) \subseteq DOMAIN w
      /\ \A e \in DOMAIN Entries(w, S) : Entries(w, S)[e] = w[e]
  BY <1>2
<1> QED BY <1>1, <1>2, <1>3

\* bucket_window's budget (preamble.rs:69-71) lets out the first Budget epochs
\* after the checkpoint, since the window has no hole.
LEMMA WindowWithinBudget ==
    ASSUME LogInv
    PROVE  LET w == FirstEntries(WindowBytes, Budget)
           IN  /\ IsWindow(w)
               /\ \A e \in DOMAIN w : /\ e <= current_epoch
                                      /\ e <= checkpoint + Budget
                                      /\ w[e] = Base + e - 1
<1> USE LogConstants, SyncConstants DEF LogInv, LogTypeOK, LogIsTheWindow, LogReplaysTheGroup
<1> DEFINE newer == {e \in DOMAIN commit_log : e > checkpoint}
           w == FirstEntries(WindowBytes, Budget)
<1>1. /\ IsWindow(WindowBytes)
      /\ DOMAIN WindowBytes = DOMAIN commit_log \cap newer
      /\ \A e \in DOMAIN commit_log \cap newer : WindowBytes[e] = commit_log[e]
  <2> HIDE DEF newer
  <2>1. WindowBytes = Entries(commit_log, newer)
    BY DEF WindowBytes, newer
  <2> QED BY <2>1, EntriesAreAWindow
<1>2. DOMAIN WindowBytes = (checkpoint + 1)..current_epoch
  <2>1. DOMAIN commit_log \cap newer = (checkpoint + 1)..current_epoch
    OBVIOUS
  <2> QED BY <1>1, <2>1
<1>3. /\ IsWindow(w)
      /\ DOMAIN w \subseteq DOMAIN WindowBytes
      /\ \A e \in DOMAIN w : w[e] = WindowBytes[e]
  <2> HIDE DEF newer
  <2> QED BY <1>1, FirstEntriesOf
<1>4. ASSUME NEW e \in DOMAIN w PROVE e <= checkpoint + Budget
  <2>1. /\ e \in (checkpoint + 1)..current_epoch
        /\ Cardinality({f \in DOMAIN WindowBytes : f <= e}) <= Budget
    <3>1. DOMAIN w = DOMAIN WindowBytes \cap
                       {x \in DOMAIN WindowBytes :
                          Cardinality({f \in DOMAIN WindowBytes : f <= x}) <= Budget}
      BY DEF FirstEntries, Entries
    <3> QED BY <3>1, <1>2
  <2>2. {f \in DOMAIN WindowBytes : f <= e} = (checkpoint + 1)..e
    BY <1>2, <2>1
  <2>3. Cardinality((checkpoint + 1)..e) = e - checkpoint
    <3>1. checkpoint + 1 \in Int /\ e \in Int /\ checkpoint + 1 <= e
      BY <2>1
    <3>2. Cardinality((checkpoint + 1)..e) = e - (checkpoint + 1) + 1
      BY <3>1, FS_Interval
    <3> QED BY <3>1, <3>2
  <2>4. e - checkpoint <= Budget
    BY <2>1, <2>2, <2>3
  <2> HIDE DEF w
  <2> QED BY <2>1, <2>4
<1>5. \A e \in DOMAIN w : e <= current_epoch /\ w[e] = Base + e - 1
  BY <1>1, <1>2, <1>3
<1> HIDE DEF newer, w
<1>6. /\ IsWindow(w)
      /\ \A e \in DOMAIN w : e <= current_epoch /\ e <= checkpoint + Budget /\ w[e] = Base + e - 1
  BY <1>3, <1>4, <1>5
<1> QED BY <1>6 DEF w

-----------------------------------------------------------------------------
\* The whole of Inv but the log's part, which the lemmas of the log look after.
SyncInv == TypeOK /\ Numbering /\ AllSent /\ Progress /\ Reports /\ Links

LEMMA Starts == SyncInit => Inv
<1> SUFFICES ASSUME SyncInit PROVE Inv
  OBVIOUS
<1>1. LogInv
  BY LogStarts DEF SyncInit
<1>2. SyncInv
  <2>1. TypeOK
    <3>1. IsWindow(outbox)
      BY DEF SyncInit, NoEntries, IsWindow
    <3>2. stream \in Seq(Nat)
      BY DEF SyncInit
    <3> QED BY <1>1, <3>1, <3>2, LogConstants DEF SyncInit, LogInv, TypeOK
  <2>2. Numbering /\ AllSent
    BY LogConstants DEF SyncInit, Numbering, AllSent, Sent, NoEntries
  <2>3. Progress /\ Reports
    BY SyncConstants DEF SyncInit, LogInit, Progress, Reports, ReportsInOrder
  <2>4. Links
    BY DEF SyncInit, Links
  <2> QED BY <2>1, <2>2, <2>3, <2>4 DEF SyncInv
<1> QED BY <1>1, <1>2 DEF Inv, SyncInv

\* Steps that only move a task on, or take a link down at Bob's end.
LEMMA MovesKeep ==
    ASSUME Inv,
           \/ WindowSent \/ ConnectFails \/ EndBlackout
           \/ Changed \/ ToggleReports \/ BobLosesLink
    PROVE  Inv'
<1>1. /\ UNCHANGED <<logVars, outbox, aliceLink, net, sinkVars, watchVars, epoch, stream>>
      /\ alicePc' \in {alicePc, "online", "waiting"}
      /\ senderPc' \in {senderPc, "borrow", "off"}
      /\ should_report' \in BOOLEAN
      /\ bobLink' \in BOOLEAN
  <2> USE DEF Inv, TypeOK, aliceVars, bobVars
  <2>1. CASE WindowSent \/ ConnectFails \/ EndBlackout
    BY <2>1 DEF WindowSent, ConnectFails, EndBlackout
  <2>2. CASE Changed
    BY <2>2 DEF Changed
  <2>3. CASE ToggleReports
    BY <2>3 DEF ToggleReports
  <2>4. CASE BobLosesLink
    BY <2>4 DEF BobLosesLink
  <2> QED BY <2>1, <2>2, <2>3, <2>4
<1>2. LogInv'
  BY <1>1, LogUntouched DEF Inv
<1>3. TypeOK'
  <2>1. LogTypeOK'
    BY <1>2 DEF LogInv
  <2> QED BY <1>1, <2>1 DEF Inv, TypeOK, sinkVars, watchVars, IsWindow
<1>4. (Numbering /\ AllSent /\ Progress /\ Reports /\ Links)'
  BY <1>1 DEF Inv, Numbering, AllSent, Sent, Progress, Reports, ReportsInOrder, Links,
              logVars, sinkVars, watchVars
<1> QED BY <1>2, <1>3, <1>4 DEF Inv

\* Alice's end goes down, with the reports it had not read.
LEMMA LosesLinkKeeps == ASSUME Inv, EndContact \/ AliceLosesLink PROVE Inv'
<1>1. /\ UNCHANGED <<logVars, outbox, net, sinkVars, watchVars, bobVars>>
      /\ alicePc' \in {alicePc, "blackout"}
      /\ aliceLink' = FALSE
      /\ stream' = <<>>
  BY DEF EndContact, AliceLosesLink
<1>2. LogInv'
  BY <1>1, LogUntouched DEF Inv
<1>3. TypeOK'
  <2>1. LogTypeOK'
    BY <1>2 DEF LogInv
  <2>2. stream' \in Seq(Nat)
    BY <1>1
  <2> QED BY <1>1, <2>1, <2>2 DEF Inv, TypeOK, sinkVars, watchVars, bobVars, IsWindow
<1>4. (Numbering /\ AllSent /\ Progress /\ Links)'
  BY <1>1 DEF Inv, Numbering, AllSent, Sent, Progress, Links,
              logVars, sinkVars, watchVars, bobVars
<1>5. Reports'
  BY <1>1 DEF Reports, ReportsInOrder
<1> QED BY <1>2, <1>3, <1>4, <1>5 DEF Inv

\* Alice commits: the log grows at its end, and only there.
LEMMA CommitKeeps == ASSUME Inv, CommitInContact \/ CommitOffline PROVE Inv'
<1>1. /\ CreateCommit
      /\ UNCHANGED <<outbox, aliceLink, net, sinkVars, watchVars, bobVars, stream>>
      /\ alicePc' \in {alicePc, "committed"}
  BY DEF CommitInContact, CommitOffline, syncVars, aliceVars
<1>2. LogInv'
  BY <1>1, CreateCommitKeeps DEF Inv
<1>3. current_epoch' = current_epoch + 1 /\ checkpoint' = checkpoint
  BY <1>1 DEF CreateCommit
<1>4. TypeOK'
  <2>1. LogTypeOK'
    BY <1>2 DEF LogInv
  <2> QED BY <1>1, <2>1 DEF Inv, TypeOK, sinkVars, watchVars, bobVars, IsWindow
<1>5. AllSent'
  BY <1>1, <1>3, LogConstants
     DEF Inv, TypeOK, LogTypeOK, AllSent, Sent, IsWindow, Epochs
<1>6. (Numbering /\ Progress /\ Links)'
  BY <1>1, <1>3 DEF Inv, TypeOK, LogTypeOK, Numbering, Progress, Links,
                    sinkVars, watchVars, bobVars
<1>7. Reports'
  BY <1>1, <1>3 DEF Inv, Reports, ReportsInOrder, bobVars
<1> QED BY <1>2, <1>4, <1>5, <1>6, <1>7 DEF Inv

\* The snapshot of the window is within budget.
LEMMA TakeWindowKeeps == ASSUME Inv, TakeWindow PROVE Inv'
<1>1. /\ UNCHANGED <<logVars, aliceLink, net, sinkVars, watchVars, bobVars, stream>>
      /\ outbox' = FirstEntries(WindowBytes, Budget)
      /\ alicePc' \in {"sending", "preamble"}
  BY DEF TakeWindow
<1>2. LogInv'
  BY <1>1, LogUntouched DEF Inv
<1>3. IsWindow(outbox') /\ Sent(outbox)'
  BY <1>1, WindowWithinBudget DEF Inv, Sent, logVars
<1>4. TypeOK'
  <2>1. LogTypeOK'
    BY <1>2 DEF LogInv
  <2> QED BY <1>1, <1>3, <2>1 DEF Inv, TypeOK, sinkVars, watchVars, bobVars
<1>5. AllSent'
  BY <1>1, <1>3 DEF Inv, AllSent, Sent, logVars
<1>6. (Numbering /\ Progress /\ Reports /\ Links)'
  BY <1>1 DEF Inv, Numbering, Progress, Reports, ReportsInOrder, Links,
              logVars, sinkVars, watchVars, bobVars
<1> QED BY <1>2, <1>4, <1>5, <1>6 DEF Inv

\* A bucket and what is left of the window are both entries of the window.
LEMMA SendBucketKeeps == ASSUME Inv, SendBucket PROVE Inv'
<1> DEFINE bucket == FirstEntries(outbox, PerDatagram)
           rest   == Entries(outbox, DOMAIN outbox \ DOMAIN bucket)
<1>1. /\ UNCHANGED <<logVars, alicePc, aliceLink, sinkVars, watchVars, bobVars, stream>>
      /\ net' = net \cup {bucket}
      /\ outbox' = rest
  BY DEF SendBucket
<1>2. LogInv'
  BY <1>1, LogUntouched DEF Inv
<1>3. /\ IsWindow(bucket)
      /\ \A e \in DOMAIN bucket : e \in DOMAIN outbox /\ bucket[e] = outbox[e]
  BY FirstEntriesOf DEF Inv, TypeOK
<1>4. /\ IsWindow(rest)
      /\ \A e \in DOMAIN rest : e \in DOMAIN outbox /\ rest[e] = outbox[e]
  <2> HIDE DEF bucket
  <2> QED BY EntriesAreAWindow DEF Inv, TypeOK
<1> HIDE DEF bucket, rest
<1>5. TypeOK'
  <2>1. LogTypeOK'
    BY <1>2 DEF LogInv
  <2> QED BY <1>1, <1>3, <1>4, <2>1 DEF Inv, TypeOK, sinkVars, watchVars, bobVars
<1>6. AllSent'
  BY <1>1, <1>3, <1>4 DEF Inv, AllSent, Sent, logVars
<1>7. (Numbering /\ Progress /\ Reports /\ Links)'
  BY <1>1 DEF Inv, Numbering, Progress, Reports, ReportsInOrder, Links,
              logVars, sinkVars, watchVars, bobVars
<1> QED BY <1>2, <1>5, <1>6, <1>7 DEF Inv

\* A new connection starts with an empty stream.
LEMMA ConnectKeeps == ASSUME Inv, Connect PROVE Inv'
<1>1. /\ UNCHANGED <<logVars, outbox, net, sinkVars, watchVars, epoch, should_report>>
      /\ alicePc' = "online"
      /\ aliceLink' = TRUE /\ bobLink' = TRUE
      /\ senderPc' = "borrow"
      /\ stream' = <<>>
  BY DEF Connect
<1>2. LogInv'
  BY <1>1, LogUntouched DEF Inv
<1>3. TypeOK'
  <2>1. LogTypeOK'
    BY <1>2 DEF LogInv
  <2>2. stream' \in Seq(Nat)
    BY <1>1
  <2> QED BY <1>1, <2>1, <2>2 DEF Inv, TypeOK, sinkVars, watchVars, IsWindow
<1>4. (Numbering /\ AllSent /\ Progress)'
  BY <1>1 DEF Inv, Numbering, AllSent, Sent, Progress, logVars, sinkVars, watchVars
<1>5. Reports' /\ Links'
  BY <1>1 DEF Reports, ReportsInOrder, Links
<1> QED BY <1>2, <1>3, <1>4, <1>5 DEF Inv

\* A report moves the checkpoint no further than Bob's report task has looked, and
\* no report behind it in the stream is older.
LEMMA ReadReportKeeps == ASSUME Inv, ReadReport PROVE Inv'
<1> DEFINE k == Head(stream)
<1>1. /\ stream # <<>> /\ stream \in Seq(Nat)
      /\ Trim(k)
      /\ stream' = Tail(stream)
      /\ UNCHANGED <<aliceVars, net, sinkVars, watchVars, bobVars>>
  BY DEF Inv, TypeOK, ReadReport
<1>2. /\ k \in Nat /\ k = stream[1]
      /\ stream' \in Seq(Nat)
      /\ Len(stream) >= 1 /\ Len(stream') = Len(stream) - 1
      /\ \A i \in 1..Len(stream') : i + 1 \in 1..Len(stream) /\ stream'[i] = stream[i + 1]
  BY <1>1
<1> HIDE DEF k
<1>3. /\ LogInv'
      /\ checkpoint' >= checkpoint
      /\ checkpoint' = checkpoint \/ checkpoint' <= k
  BY <1>1, <1>2, TrimKeeps DEF Inv
<1>4. UNCHANGED <<inner, current_epoch>>
  BY <1>1 DEF Trim
<1>5. checkpoint \in Nat /\ checkpoint' \in Nat
  BY <1>3, <1>4 DEF Inv, LogInv, LogTypeOK
<1>6. TypeOK'
  <2>1. LogTypeOK'
    BY <1>3 DEF LogInv
  <2> QED BY <1>1, <1>2, <2>1 DEF Inv, TypeOK, aliceVars, sinkVars, watchVars, bobVars, IsWindow
<1>7. 1 \in 1..Len(stream) /\ checkpoint <= k /\ k <= epoch
  BY <1>2 DEF Inv, Reports, ReportsInOrder
<1>8. epoch \in Nat /\ checkpoint' <= epoch /\ epoch' = epoch
  BY <1>1, <1>2, <1>3, <1>5, <1>7 DEF Inv, TypeOK, bobVars
<1>9. AllSent'
  <2>1. ASSUME NEW w, IsWindow(w), Sent(w), NEW e \in DOMAIN w
        PROVE  e <= current_epoch' /\ e <= checkpoint' + Budget /\ w[e] = Base + e - 1
    <3>1. e \in Int /\ e <= current_epoch /\ e <= checkpoint + Budget /\ w[e] = Base + e - 1
      BY <2>1 DEF IsWindow, Epochs, Sent
    <3> QED BY <1>3, <1>4, <1>5, <3>1, SyncConstants
  <2>2. IsWindow(outbox) /\ Sent(outbox) /\ \A d \in net : IsWindow(d) /\ Sent(d)
    BY DEF Inv, TypeOK, AllSent
  <2>3. outbox' = outbox /\ net' = net
    BY <1>1 DEF aliceVars
  <2> QED BY <2>1, <2>2, <2>3 DEF AllSent, Sent
<1>10. (Numbering /\ Progress)'
  <2>1. /\ bobGroup' = bobGroup /\ local_epoch' = local_epoch /\ watched' = watched
    BY <1>1 DEF sinkVars, watchVars
  <2>2. Numbering'
    BY <2>1 DEF Inv, Numbering
  <2>3. local_epoch <= checkpoint' + Budget
    <3>1. local_epoch \in Nat /\ local_epoch <= checkpoint + Budget
      BY DEF Inv, TypeOK, Progress
    <3>2. ASSUME NEW c \in Nat, c >= checkpoint PROVE local_epoch <= c + Budget
      BY <1>5, <3>1, <3>2, SyncConstants
    <3> QED BY <1>3, <1>5, <3>2
  <2>4. Progress'
    BY <1>4, <1>8, <2>1, <2>3 DEF Inv, Progress
  <2> QED BY <2>2, <2>4
<1>11. Reports'
  <2>1. ASSUME NEW i \in 1..Len(stream')
        PROVE  /\ checkpoint' <= stream'[i] /\ stream'[i] <= epoch'
               /\ \A j \in 1..i : stream'[j] <= stream'[i]
    <3>1. /\ i + 1 \in 1..Len(stream) /\ 1 \in 1..(i + 1)
          /\ stream'[i] = stream[i + 1] /\ stream[i + 1] \in Nat
      BY <1>1, <1>2
    <3>2. checkpoint <= stream[i + 1] /\ stream[i + 1] <= epoch /\ stream[1] <= stream[i + 1]
      BY <3>1 DEF Inv, Reports, ReportsInOrder
    <3>3. ASSUME NEW j \in 1..i PROVE stream'[j] <= stream'[i]
      <4>1. /\ j \in 1..Len(stream') /\ j + 1 \in 1..(i + 1)
            /\ stream'[j] = stream[j + 1]
        BY <1>2
      <4>2. stream[j + 1] <= stream[i + 1]
        BY <3>1, <4>1 DEF Inv, Reports, ReportsInOrder
      <4> QED BY <3>1, <4>1, <4>2
    <3>4. checkpoint' <= stream[i + 1]
      BY <1>2, <1>3, <1>5, <3>1, <3>2
    <3> QED BY <1>8, <3>1, <3>2, <3>3, <3>4
  <2> QED BY <2>1 DEF Reports, ReportsInOrder
<1>12. Links'
  BY <1>1 DEF Inv, Links, aliceVars
<1> QED BY <1>3, <1>6, <1>9, <1>10, <1>11, <1>12 DEF Inv

LEMMA LoseKeeps == ASSUME Inv, NEW d \in net, Lose(d) PROVE Inv'
<1>1. /\ UNCHANGED <<logVars, aliceVars, sinkVars, watchVars, bobVars, stream>>
      /\ net' \subseteq net
  BY DEF Lose
<1>2. LogInv'
  BY <1>1, LogUntouched DEF Inv
<1>3. TypeOK'
  <2>1. LogTypeOK'
    BY <1>2 DEF LogInv
  <2> QED BY <1>1, <2>1 DEF Inv, TypeOK, aliceVars, sinkVars, watchVars, bobVars, IsWindow
<1>4. (Numbering /\ AllSent /\ Progress /\ Reports /\ Links)'
  BY <1>1 DEF Inv, Numbering, AllSent, Sent, Progress, Reports, ReportsInOrder, Links,
              logVars, aliceVars, sinkVars, watchVars, bobVars
<1> QED BY <1>2, <1>3, <1>4 DEF Inv

\* What the sink does with a datagram: it stops at an epoch that it had or that the
\* datagram holds, and moves the group by as many epochs.
LEMMA ReceiveReaches ==
    ASSUME Inv, NEW d \in net, Receive(d)
    PROVE  /\ local_epoch' \in Nat /\ local_epoch' >= local_epoch
           /\ bobGroup' = bobGroup + (local_epoch' - local_epoch)
           /\ local_epoch' <= current_epoch
           /\ local_epoch' <= checkpoint + Budget
           /\ notifying' \in BOOLEAN
<1>1. PICK last \in Stops(d, local_epoch) :
        /\ local_epoch' = last
        /\ bobGroup' = bobGroup + (last - local_epoch)
        /\ notifying' = (last # local_epoch)
  BY DEF Receive
<1>2. /\ last \in Nat /\ last >= local_epoch
      /\ last <= current_epoch /\ last <= checkpoint + Budget
  <2>1. CASE last = local_epoch
    BY <2>1 DEF Inv, TypeOK, Progress
  <2>2. CASE last \in DOMAIN d /\ last > local_epoch
    BY <2>2 DEF Inv, TypeOK, IsWindow, Epochs, AllSent, Sent
  <2> QED BY <2>1, <2>2 DEF Stops
<1>3. notifying' \in BOOLEAN
  BY <1>1
<1> QED BY <1>1, <1>2, <1>3

LEMMA ReceiveKeeps == ASSUME Inv, NEW d \in net, Receive(d) PROVE Inv'
<1>1. /\ UNCHANGED <<logVars, aliceVars, watchVars, bobVars, stream>>
      /\ net' \subseteq net
  BY DEF Receive
<1>2. LogInv'
  BY <1>1, LogUntouched DEF Inv
<1>3. bobGroup' \in Nat /\ Numbering'
  BY ReceiveReaches, LogConstants DEF Inv, TypeOK, Numbering
<1>4. TypeOK'
  <2>1. LogTypeOK'
    BY <1>2 DEF LogInv
  <2> QED BY <1>1, <1>3, <2>1, ReceiveReaches
          DEF Inv, TypeOK, aliceVars, watchVars, bobVars, IsWindow
<1>5. Progress'
  <2>1. local_epoch \in Nat /\ watched \in Nat
    BY DEF Inv, TypeOK
  <2> QED BY <1>1, <2>1, ReceiveReaches DEF Inv, Progress, logVars, watchVars, bobVars
<1>6. (AllSent /\ Reports /\ Links)'
  BY <1>1 DEF Inv, AllSent, Sent, Reports, ReportsInOrder, Links,
              logVars, aliceVars, bobVars
<1> QED BY <1>2, <1>3, <1>4, <1>5, <1>6 DEF Inv

LEMMA NotifyKeeps == ASSUME Inv, Notify PROVE Inv'
<1>1. /\ UNCHANGED <<logVars, aliceVars, net, local_epoch, bobGroup, bobVars, stream>>
      /\ notifying' = FALSE /\ unseen' = TRUE
      /\ watched' = local_epoch
  BY DEF Notify
<1>2. LogInv'
  BY <1>1, LogUntouched DEF Inv
<1>3. TypeOK'
  <2>1. LogTypeOK'
    BY <1>2 DEF LogInv
  <2> QED BY <1>1, <2>1 DEF Inv, TypeOK, aliceVars, bobVars, IsWindow
<1>4. Progress'
  <2>1. epoch \in Nat /\ watched \in Nat /\ local_epoch \in Nat
    BY DEF Inv, TypeOK
  <2> QED BY <1>1, <2>1 DEF Inv, Progress, logVars, bobVars
<1>5. (Numbering /\ AllSent /\ Reports /\ Links)'
  BY <1>1 DEF Inv, Numbering, AllSent, Sent, Reports, ReportsInOrder, Links,
              logVars, aliceVars, bobVars
<1> QED BY <1>2, <1>3, <1>4, <1>5 DEF Inv

\* The value looked at is none older than the last one, so what is in the stream
\* stays behind it.
LEMMA BorrowKeeps == ASSUME Inv, Borrow PROVE Inv'
<1>1. /\ UNCHANGED <<logVars, aliceVars, net, sinkVars, watched, should_report, bobLink, stream>>
      /\ epoch' = watched
      /\ unseen' = FALSE
      /\ senderPc' \in {"write", "wait"}
  BY DEF Borrow
<1>2. LogInv'
  BY <1>1, LogUntouched DEF Inv
<1>3. TypeOK'
  <2>1. LogTypeOK'
    BY <1>2 DEF LogInv
  <2> QED BY <1>1, <2>1 DEF Inv, TypeOK, aliceVars, sinkVars, IsWindow
<1>4. checkpoint \in Nat /\ epoch \in Nat /\ watched \in Nat /\ stream \in Seq(Nat)
  BY DEF Inv, TypeOK, LogInv, LogTypeOK
<1>5. Progress'
  BY <1>1, <1>4 DEF Inv, Progress, logVars, sinkVars
<1>6. Reports'
  <2>1. \A i \in 1..Len(stream) : stream[i] <= watched
    BY <1>4 DEF Inv, Progress, Reports
  <2> QED BY <1>1, <2>1 DEF Inv, Reports, ReportsInOrder, logVars
<1>7. (Numbering /\ AllSent /\ Links)'
  BY <1>1 DEF Inv, Numbering, AllSent, Sent, Links, logVars, aliceVars, sinkVars
<1> QED BY <1>2, <1>3, <1>5, <1>6, <1>7 DEF Inv

LEMMA WriteReportKeeps == ASSUME Inv, WriteReport PROVE Inv'
<1>1. /\ UNCHANGED <<logVars, aliceVars, net, sinkVars, watchVars, epoch, should_report, bobLink>>
      /\ senderPc' = "wait"
      /\ stream' = IF aliceLink THEN Append(stream, epoch) ELSE stream
  BY DEF WriteReport
<1>2. LogInv'
  BY <1>1, LogUntouched DEF Inv
<1>3. epoch \in Nat /\ stream \in Seq(Nat) /\ stream' \in Seq(Nat)
  BY <1>1 DEF Inv, TypeOK
<1>4. TypeOK'
  <2>1. LogTypeOK'
    BY <1>2 DEF LogInv
  <2> QED BY <1>1, <1>3, <2>1 DEF Inv, TypeOK, aliceVars, sinkVars, watchVars, IsWindow
<1>5. (Numbering /\ AllSent /\ Progress)'
  BY <1>1 DEF Inv, Numbering, AllSent, Sent, Progress,
              logVars, aliceVars, sinkVars, watchVars
<1>6. Reports'
  <2>1. CASE stream' = stream
    BY <1>1, <2>1 DEF Inv, Reports, ReportsInOrder, logVars
  <2>2. CASE stream' = Append(stream, epoch)
    <3>1. /\ Len(stream') = Len(stream) + 1
          /\ \A i \in 1..Len(stream) : stream'[i] = stream[i]
          /\ stream'[Len(stream) + 1] = epoch
      BY <1>3, <2>2
    <3>2. ASSUME NEW i \in 1..Len(stream')
          PROVE  /\ checkpoint <= stream'[i] /\ stream'[i] <= epoch
                 /\ \A j \in 1..i : stream'[j] <= stream'[i]
      <4>1. CASE i \in 1..Len(stream)
        <5>1. /\ checkpoint <= stream[i] /\ stream[i] <= epoch
              /\ \A j \in 1..i : stream[j] <= stream[i]
          BY <4>1 DEF Inv, Reports, ReportsInOrder
        <5>2. \A j \in 1..i : j \in 1..Len(stream)
          BY <1>3, <4>1
        <5> QED BY <3>1, <4>1, <5>1, <5>2
      <4>2. CASE i = Len(stream) + 1
        <5>1. checkpoint <= epoch /\ \A j \in 1..Len(stream) : stream[j] <= epoch
          BY DEF Inv, Progress, Reports
        <5>2. \A j \in 1..i : j \in 1..Len(stream) \/ j = Len(stream) + 1
          BY <1>3, <4>2
        <5> QED BY <1>3, <3>1, <4>2, <5>1, <5>2
      <4>3. i \in 1..Len(stream) \/ i = Len(stream) + 1
        BY <1>3, <3>1
      <4> QED BY <4>1, <4>2, <4>3
    <3> QED BY <1>1, <3>2 DEF Reports, ReportsInOrder, logVars
  <2> QED BY <1>1, <2>1, <2>2
<1>7. Links'
  BY <1>1 DEF Inv, Links, aliceVars
<1> QED BY <1>2, <1>4, <1>5, <1>6, <1>7 DEF Inv

-----------------------------------------------------------------------------
LEMMA StepsKeep == Inv /\ [Next]_vars => Inv'
<1> SUFFICES ASSUME Inv, [Next]_vars PROVE Inv'
  OBVIOUS
<1>1. CASE AliceStep
  BY <1>1, CommitKeeps, TakeWindowKeeps, SendBucketKeeps, MovesKeep, ConnectKeeps,
     LosesLinkKeeps, ReadReportKeeps
     DEF AliceStep
<1>2. CASE NetStep
  BY <1>2, LoseKeeps, ReceiveKeeps DEF NetStep
<1>3. CASE BobStep
  BY <1>3, NotifyKeeps, BorrowKeeps, WriteReportKeeps, MovesKeep DEF BobStep
<1>4. CASE UNCHANGED vars
  <2>1. UNCHANGED logVars /\ UNCHANGED syncVars
    BY <1>4 DEF vars
  <2>2. LogInv'
    BY <2>1, LogUntouched DEF Inv
  <2>3. UNCHANGED <<aliceVars, net, sinkVars, watchVars, bobVars, stream>>
    BY <2>1 DEF syncVars
  <2>4. TypeOK'
    <3>1. LogTypeOK'
      BY <2>2 DEF LogInv
    <3> QED BY <2>3, <3>1 DEF Inv, TypeOK, aliceVars, sinkVars, watchVars, bobVars, IsWindow
  <2>5. (Numbering /\ AllSent /\ Progress /\ Reports /\ Links)'
    BY <2>1, <2>3 DEF Inv, Numbering, AllSent, Sent, Progress, Reports, ReportsInOrder, Links,
                      logVars, aliceVars, sinkVars, watchVars, bobVars
  <2> QED BY <2>2, <2>4, <2>5 DEF Inv
<1> QED BY <1>1, <1>2, <1>3, <1>4 DEF Next

LEMMA InvHolds == Spec => []Inv
BY Starts, StepsKeep, PTL DEF Spec

\* Every variable keeps its type.
THEOREM TypeCorrect == Spec => []TypeOK
<1>1. Inv => TypeOK
  BY DEF Inv
<1> QED BY <1>1, InvHolds, PTL

\* Alice never drops a commit that Bob has not applied (group.rs:121-125 as it is
\* fed by control.rs:57-89): he cannot fall off the back of her log.
THEOREM NoCommitLost == Spec => []NoUnappliedCommitDropped
<1>1. Inv => NoUnappliedCommitDropped
  <2> SUFFICES ASSUME Inv PROVE NoUnappliedCommitDropped
    OBVIOUS
  <2>1. checkpoint \in Nat /\ local_epoch \in Nat /\ checkpoint <= local_epoch
    BY DEF Inv, TypeOK, LogInv, LogTypeOK, Progress
  <2>2. DOMAIN commit_log = (checkpoint + 1)..current_epoch /\ current_epoch \in Nat
    BY LogConstants DEF Inv, LogInv, LogTypeOK, LogIsTheWindow
  <2> QED BY <2>1, <2>2 DEF NoUnappliedCommitDropped
<1> QED BY <1>1, InvHolds, PTL

\* Bob's group accepts every commit that apply_commit_window offers it
\* (group.rs:163-170), whatever arrives and in whatever order.
THEOREM GroupAccepts == Spec => []GroupNeverRefuses
<1>1. Inv => GroupNeverRefuses
  <2> SUFFICES ASSUME Inv, NEW d \in net, NEW last \in Stops(d, local_epoch),
                      ~Replayable(d, local_epoch, bobGroup, last + 1), last + 1 \in DOMAIN d
               PROVE  FALSE
    BY DEF GroupNeverRefuses, MlsRefuses, ReplaysUpTo
  <2>1. local_epoch \in Nat /\ last \in Nat
    BY DEF Inv, TypeOK, Stops, IsWindow, Epochs
  <2>2. d[last + 1] = Base + (last + 1) - 1
    BY DEF Inv, AllSent, Sent
  <2>3. bobGroup = Base + local_epoch
    BY DEF Inv, Numbering
  <2> QED BY <2>1, <2>2, <2>3, LogConstants DEF Replayable
<1> QED BY <1>1, InvHolds, PTL

\* Reports are read in the order of Bob's progress, none behind the checkpoint.
THEOREM ReportsOrdered == Spec => []ReportsInOrder
<1>1. Inv => ReportsInOrder
  BY DEF Inv, Reports
<1> QED BY <1>1, InvHolds, PTL

\* Once the budget truncates the window out of contact, there is no way back: to
\* connect Bob would have to be in an epoch that no datagram brings him.
THEOREM TruncationFatal == Spec => TruncationIsFatal
<1>1. Inv /\ [Next]_vars => (Stuck => Stuck')
  <2> SUFFICES ASSUME Inv, [Next]_vars, Stuck PROVE Stuck'
    OBVIOUS
  <2>1. /\ current_epoch \in Nat /\ checkpoint \in Nat /\ local_epoch \in Nat
        /\ current_epoch > checkpoint + Budget
        /\ ~aliceLink /\ stream = <<>>
        /\ inner = Base + current_epoch /\ bobGroup = Base + local_epoch
        /\ local_epoch <= checkpoint + Budget
    BY LogConstants
       DEF Inv, Stuck, TypeOK, LogInv, LogTypeOK, LogReplaysTheGroup, Numbering, Progress, Links
  <2>2. inner # bobGroup
    BY <2>1, LogConstants, SyncConstants
  <2>3. CASE CommitInContact \/ CommitOffline
    <3>1. /\ current_epoch' = current_epoch + 1 /\ checkpoint' = checkpoint
          /\ aliceLink' = aliceLink
      BY <2>3 DEF CommitInContact, CommitOffline, CreateCommit, syncVars, aliceVars
    <3> QED BY <2>1, <3>1, SyncConstants DEF Stuck
  <2>4. CASE Connect
    BY <2>2, <2>4 DEF Connect
  <2>5. CASE ReadReport
    BY <2>1, <2>5 DEF ReadReport
  <2>6. CASE EndContact \/ AliceLosesLink
    BY <2>1, <2>6 DEF EndContact, AliceLosesLink, Stuck, logVars
  <2>7. CASE \/ TakeWindow \/ SendBucket \/ WindowSent \/ ConnectFails \/ EndBlackout
             \/ NetStep \/ BobStep
    BY <2>1, <2>7
       DEF TakeWindow, SendBucket, WindowSent, ConnectFails, EndBlackout,
           NetStep, Lose, Receive, BobStep, Notify, Borrow, WriteReport, Changed,
           ToggleReports, BobLosesLink, Stuck, logVars, aliceVars
  <2>8. CASE UNCHANGED vars
    BY <2>1, <2>8 DEF vars, syncVars, aliceVars, logVars, Stuck
  <2> QED BY <2>3, <2>4, <2>5, <2>6, <2>7, <2>8 DEF Next, AliceStep
<1> QED BY <1>1, InvHolds, PTL DEF Spec, TruncationIsFatal

\* The protocol implements the custody transfer it is named after (preamble.rs:16-20):
\* commits are numbered one by one, applied only once committed, and released only
\* once applied, however the datagrams and the reports fare.
THEOREM ImplementsCustody == Spec => CustodySpec
<1> USE DEF Custody!Next, Custody!Commit, Custody!Apply, Custody!Release, Custody!vars
<1>1. SyncInit => Custody!Init
  BY DEF SyncInit, LogInit, Custody!Init
<1>2. Inv /\ Inv' /\ [Next]_vars => [Custody!Next]_(Custody!vars)
  <2> SUFFICES ASSUME Inv, Inv', [Next]_vars PROVE [Custody!Next]_(Custody!vars)
    OBVIOUS
  <2>1. /\ checkpoint \in Nat /\ checkpoint' \in Nat
        /\ local_epoch \in Nat /\ local_epoch' \in Nat
        /\ current_epoch \in Nat /\ current_epoch' \in Nat
        /\ checkpoint' <= local_epoch' /\ local_epoch' <= current_epoch'
    <3>1. Inv => /\ checkpoint \in Nat /\ local_epoch \in Nat /\ current_epoch \in Nat
                 /\ checkpoint <= local_epoch /\ local_epoch <= current_epoch
      BY LogConstants DEF Inv, TypeOK, LogInv, LogTypeOK, Progress
    <3>2. (Inv => /\ checkpoint \in Nat /\ local_epoch \in Nat /\ current_epoch \in Nat
                  /\ checkpoint <= local_epoch /\ local_epoch <= current_epoch)'
      BY LogConstants DEF Inv, TypeOK, LogInv, LogTypeOK, Progress
    <3> QED BY <3>1, <3>2
  <2>2. CASE CommitInContact \/ CommitOffline
    <3>1. /\ current_epoch' = current_epoch + 1
          /\ checkpoint' = checkpoint /\ local_epoch' = local_epoch
      BY <2>2 DEF CommitInContact, CommitOffline, CreateCommit, syncVars, sinkVars
    <3> QED BY <3>1
  <2>3. CASE ReadReport
    <3>1. UNCHANGED <<local_epoch, current_epoch>>
      BY <2>3 DEF ReadReport, Trim, sinkVars
    <3>2. checkpoint' >= checkpoint
      <4>1. stream # <<>> /\ stream \in Seq(Nat) /\ Trim(Head(stream))
        BY <2>3 DEF ReadReport, Inv, TypeOK
      <4>2. Head(stream) \in Nat
        BY <4>1
      <4> QED BY <4>1, <4>2, TrimKeeps DEF Inv
    <3>3. CASE checkpoint' = checkpoint
      BY <3>1, <3>3
    <3>4. CASE checkpoint' \in (checkpoint + 1)..local_epoch
      BY <3>1, <3>4
    <3> QED BY <2>1, <3>1, <3>2, <3>3, <3>4
  <2>4. ASSUME NEW d \in net, Receive(d) PROVE [Custody!Next]_(Custody!vars)
    <3>1. UNCHANGED <<current_epoch, checkpoint>>
      BY <2>4 DEF Receive, logVars
    <3>2. local_epoch' >= local_epoch /\ local_epoch' <= current_epoch
      BY <2>4, ReceiveReaches
    <3>3. CASE local_epoch' = local_epoch
      BY <3>1, <3>3
    <3>4. CASE local_epoch' \in (local_epoch + 1)..current_epoch
      BY <3>1, <3>4
    <3> QED BY <2>1, <3>2, <3>3, <3>4
  <2>5. CASE \/ TakeWindow \/ SendBucket \/ WindowSent \/ Connect \/ ConnectFails
             \/ EndContact \/ EndBlackout \/ AliceLosesLink \/ BobStep
             \/ \E d \in net : Lose(d)
    <3>1. UNCHANGED <<current_epoch, checkpoint, local_epoch>>
      BY <2>5
         DEF TakeWindow, SendBucket, WindowSent, Connect, ConnectFails, EndContact,
             EndBlackout, AliceLosesLink, BobStep, Notify, Borrow, WriteReport, Changed,
             ToggleReports, BobLosesLink, Lose, logVars, sinkVars
    <3> QED BY <3>1
  <2>6. CASE UNCHANGED vars
    BY <2>6 DEF vars, syncVars, logVars, sinkVars
  <2> QED BY <2>2, <2>3, <2>4, <2>5, <2>6 DEF Next, AliceStep, NetStep
<1> QED BY <1>1, <1>2, InvHolds, PTL DEF Spec, CustodySpec, Custody!Spec
=============================================================================

----------------------------- MODULE CommitLog -----------------------------
(***************************************************************************)
(* CommitLog<G> of quic-mls/src/group.rs: the committing party's MLS group *)
(* together with the commits its peer has not yet reported as applied.     *)
(*                                                                         *)
(* A commit is represented by the MLS epoch it was framed in, the one part *)
(* of its bytes that decides whether another member can process it.  A     *)
(* window, the list of <<epoch, bytes>> pairs in ascending epoch order, is *)
(* the function from those epochs to those commits.                        *)
(***************************************************************************)
EXTENDS Integers

CONSTANTS
    Base,       \* the MLS epoch of the group when the log wraps it
    MaxEpoch    \* bound on the commits created (u64 in the code)

ASSUME LogConstants == Base \in Nat /\ MaxEpoch \in Nat

VARIABLES
    inner,          \* MLS epoch of the wrapped group
    current_epoch,  \* commits created since the log wrapped the group
    checkpoint,     \* highest epoch the peer is known to have applied
    commit_log      \* epoch -> commit

logVars == <<inner, current_epoch, checkpoint, commit_log>>

Epochs == 1..MaxEpoch

\* The windows there can be: partial functions from epochs to commits.
IsWindow(w) == DOMAIN w \subseteq Epochs /\ w \in [DOMAIN w -> Nat]

\* The entries of window w whose epoch is in S.
Entries(w, S) == [e \in DOMAIN w \cap S |-> w[e]]

NoEntries == [e \in {} |-> 0]

-----------------------------------------------------------------------------
(* Slips the properties are there to catch: the commit filed under the     *)
(* count before it is raised; the commit framed in the epoch it leads to;  *)
(* a report taken for the first epoch that is missing; a report not        *)
(* clamped; min where max is meant.                                        *)

FileAs(e, commit) ==
    /\ current_epoch < MaxEpoch
    /\ inner' = inner + 1
    /\ current_epoch' = current_epoch + 1
    /\ commit_log' = [x \in DOMAIN commit_log \cup {e} |->
                        IF x = e THEN commit ELSE commit_log[x]]
    /\ UNCHANGED checkpoint

CreateCommitFramedLate == FileAs(current_epoch + 1, inner + 1)

TrimAt(c, S) ==
    /\ checkpoint' = c
    /\ commit_log' = Entries(commit_log, S)
    /\ UNCHANGED <<inner, current_epoch>>

TrimOneFar(reported_k) ==
    LET c == IF reported_k < current_epoch THEN reported_k + 1 ELSE current_epoch
    IN  c > checkpoint /\ TrimAt(c, {e \in DOMAIN commit_log : e > c})
TrimToLesser(reported_k) ==
    LET c == IF reported_k < checkpoint THEN reported_k ELSE checkpoint
    IN  TrimAt(c, {e \in DOMAIN commit_log : e > c})

-----------------------------------------------------------------------------
LogInit ==
    /\ inner = Base
    /\ current_epoch = 0
    /\ checkpoint = 0
    /\ commit_log = NoEntries

\* create_commit: the commit is framed in the group's epoch, applied to the
\* group, and filed under the next number of the log's own count.
CreateCommit ==
    /\ current_epoch < MaxEpoch
    /\ inner' = inner + 1
    /\ current_epoch' = current_epoch + 1
    /\ commit_log' = [e \in DOMAIN commit_log \cup {current_epoch + 1} |->
                        IF e = current_epoch + 1 THEN inner ELSE commit_log[e]]
    /\ UNCHANGED checkpoint

\* window_bytes: what is replayed to the peer.
WindowBytes == Entries(commit_log, {e \in DOMAIN commit_log : e > checkpoint})

\* trim: a report is clamped to what exists and never moves the checkpoint back.
Trim(reported_k) ==
    LET k == IF reported_k < current_epoch THEN reported_k ELSE current_epoch
        c == IF checkpoint < k THEN k ELSE checkpoint
    IN  /\ checkpoint' = c
        /\ commit_log' = Entries(commit_log, {e \in DOMAIN commit_log : e > c})
        /\ UNCHANGED <<inner, current_epoch>>

\* The log alone, under any report at all: stale, repeated, or (as the peer is
\* not trusted to count) beyond anything that was committed.
LogNext == CreateCommit \/ \E k \in 0..(MaxEpoch + 1) : Trim(k)

LogSpec == LogInit /\ [][LogNext]_logVars

-----------------------------------------------------------------------------
LogTypeOK ==
    /\ inner \in Nat
    /\ current_epoch \in 0..MaxEpoch
    /\ checkpoint \in 0..current_epoch
    /\ IsWindow(commit_log)

\* Whatever is reported, in whatever order, the log holds exactly the commits
\* after the checkpoint: trim drops nothing else and create_commit leaves no
\* hole, not even after a report of an epoch that did not exist yet.
LogIsTheWindow == DOMAIN commit_log = (checkpoint + 1)..current_epoch

\* Replaying the window from the checkpoint rebuilds the group: every entry was
\* framed in the MLS epoch its predecessor leads to, the last one leads to the
\* group's own epoch.  This is what lets the peer apply entries by number alone.
LogReplaysTheGroup ==
    /\ inner = Base + current_epoch
    /\ \A e \in DOMAIN commit_log : commit_log[e] = Base + e - 1
=============================================================================

---------------------------- MODULE BucketWindow ----------------------------
(***************************************************************************)
(* bucket_window of quic-mls/src/preamble.rs: how a commit window is cut   *)
(* into the datagrams send_preamble sends.  One step is one turn of its    *)
(* loop.  What the loop knows of the encoding are the two header lengths   *)
(* below; PreambleWire has the encoding itself.                            *)
(***************************************************************************)
EXTENDS Naturals, FiniteSets, SequencesExt

CONSTANTS
    TRANSCRIPT_HEADER_LEN,  \* magic and count (4 + 4 in the code)
    EntryHeaderLen,         \* epoch and length (8 + 4)
    MAX_DATAGRAM_PAYLOAD,   \* 1200
    Windows,                \* the windows to send: sequences of [epoch, bytes]
    Budgets                 \* values of transcript_max_bytes

PerDatagramBudget == MAX_DATAGRAM_PAYLOAD - 1   \* the marker byte

ASSUME BucketConstants ==
    /\ TRANSCRIPT_HEADER_LEN \in Nat /\ EntryHeaderLen \in Nat \ {0}
    /\ MAX_DATAGRAM_PAYLOAD \in Nat \ {0}
    /\ Windows \subseteq Seq([epoch : Nat, bytes : Seq(Nat)])
    /\ Budgets \subseteq Nat

VARIABLES
    window,
    total_budget,
    next,          \* the entry the loop is at
    buckets,       \* finished buckets, each a sequence of entries
    current, current_len,
    total_len,
    done

bucketVars == <<window, total_budget, next, buckets, current, current_len, total_len, done>>

\* Slip: the commit's own bytes only.
CommitLen(entry) == Len(entry.bytes)
entry_wire_len(entry) == EntryHeaderLen + Len(entry.bytes)

BucketInit ==
    /\ window \in Windows
    /\ total_budget \in Budgets
    /\ next = 1
    /\ buckets = <<>>
    /\ current = <<>>
    /\ current_len = TRANSCRIPT_HEADER_LEN
    /\ total_len = 0
    /\ done = FALSE

\* An entry is taken if it fits a datagram of its own and what is left of the budget.
Fits ==
    /\ TRANSCRIPT_HEADER_LEN + entry_wire_len(window[next]) <= PerDatagramBudget
    /\ total_len + entry_wire_len(window[next]) <= total_budget

\* Slip: an entry that cannot be taken is passed over.
SkipUnfit ==
    /\ ~done
    /\ next' = Min({next + 1, Len(window) + 1})
    /\ done' = (next >= Len(window))
    /\ buckets' = IF current = <<>> \/ ~done' THEN buckets ELSE Append(buckets, current)
    /\ current' = IF done' THEN <<>> ELSE current
    /\ next <= Len(window) => ~Fits
    /\ UNCHANGED <<window, total_budget, current_len, total_len>>

\* The loop ends, after the last entry or at one it cannot take, and what has been
\* gathered makes the last bucket.
Stop ==
    /\ ~done
    /\ next <= Len(window) => ~Fits
    /\ buckets' = IF current = <<>> THEN buckets ELSE Append(buckets, current)
    /\ current' = <<>>
    /\ done' = TRUE
    /\ UNCHANGED <<window, total_budget, next, current_len, total_len>>

\* The next entry goes into the bucket being filled, or if `open` into a new one,
\* which has taken `used` bytes before it.
TakeInto(open, used) ==
    /\ ~done
    /\ next <= Len(window)
    /\ Fits
    /\ buckets' = IF open THEN Append(buckets, current) ELSE buckets
    /\ current' = Append(IF open THEN <<>> ELSE current, window[next])
    /\ current_len' = (IF open THEN used ELSE current_len) + entry_wire_len(window[next])
    /\ total_len' = total_len + entry_wire_len(window[next])
    /\ next' = next + 1
    /\ UNCHANGED <<window, total_budget, done>>

Full == current_len + entry_wire_len(window[next]) > PerDatagramBudget

\* Slip: a bucket is closed while the next entry still fits it.
TakeClosesEarly ==
    TakeInto(current # <<>> /\ current_len + 2 * entry_wire_len(window[next]) > PerDatagramBudget,
             TRANSCRIPT_HEADER_LEN)

Take == TakeInto(Full, TRANSCRIPT_HEADER_LEN)

BucketLoop == Stop \/ Take

-----------------------------------------------------------------------------
\* The lengths of the first k entries of b together.
WireLens(b) ==
    LET len[k \in 0..Len(b)] == IF k = 0 THEN 0 ELSE len[k - 1] + entry_wire_len(b[k]) IN len
WireLen(b) == WireLens(b)[Len(b)]

\* The first n entries all fit a datagram of their own and together fit the budget.
Allowed(n) ==
    /\ \A k \in 1..n : TRANSCRIPT_HEADER_LEN + entry_wire_len(window[k]) <= PerDatagramBudget
    /\ WireLen(SubSeq(window, 1, n)) <= total_budget

\* What goes out, read in the order it is sent, is the longest front part of the window
\* that may go out: no entry is skipped, repeated or out of order, so that a receiver
\* of all of it can apply one after the other (preamble.rs:66-84, group.rs:163-170).
LongestPrefixGoesOut ==
    done => FlattenSeq(buckets) =
                SubSeq(window, 1, Max({n \in 0..Len(window) : Allowed(n)}))

\* Filling each datagram before opening the next wastes none: no other way to cut
\* those entries into datagrams that hold them needs fewer (preamble.rs:72).
FewestDatagrams ==
    done =>
        LET n == next - 1
            Cuts == {C \in SUBSET (0..n) : {0, n} \subseteq C}
            Valid(C) == \A i, j \in C :
                (i < j /\ \A k \in C : ~(i < k /\ k < j)) =>
                    TRANSCRIPT_HEADER_LEN + WireLen(SubSeq(window, i + 1, j)) <= PerDatagramBudget
        IN  \A C \in Cuts : Valid(C) => Len(buckets) <= Cardinality(C) - 1
=============================================================================

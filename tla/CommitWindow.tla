---------------------------- MODULE CommitWindow ----------------------------
(***************************************************************************)
(* The two pure steps a commit window goes through between the parties:    *)
(* the sender cuts it into datagrams (bucket_window, preamble.rs) and the  *)
(* receiver replays a datagram on its group (apply_commit_window,          *)
(* group.rs).  Windows are functions from epochs to commits, as in         *)
(* CommitLog; all commits are taken to be of one size, so budgets count    *)
(* entries.                                                                *)
(***************************************************************************)
EXTENDS CommitLog, FiniteSets

\* The first n entries of a window, in epoch order.
FirstEntries(w, n) ==
    Entries(w, {e \in DOMAIN w : Cardinality({f \in DOMAIN w : f <= e}) <= n})

\* Entry e of window w is the next one a party at `epoch`, with its group in MLS
\* epoch `mls`, can process after every entry between.
Replayable(w, epoch, mls, e) ==
    /\ e \in DOMAIN w
    /\ w[e] = mls + (e - epoch - 1)

\* Replaying w from `epoch` stops having applied exactly the epochs up to `last`.
\* What it skips (epochs it already has) plays no part.
ReplaysUpTo(w, epoch, mls, last) ==
    /\ \A e \in (epoch + 1)..last : Replayable(w, epoch, mls, e)
    /\ ~Replayable(w, epoch, mls, last + 1)

\* Where replaying can stop: at once, or after some entry that is new.
Stops(w, epoch) == {epoch} \cup {e \in DOMAIN w : e > epoch}

\* Err(MlsError): the group refuses the next commit in turn.
MlsRefuses(w, epoch, mls) ==
    \E last \in Stops(w, epoch) :
        ReplaysUpTo(w, epoch, mls, last) /\ last + 1 \in DOMAIN w

\* Err(ResyncNeeded): an entry is left, and it is not the next in turn.
ResyncNeeded(w, epoch, mls) ==
    \E last \in Stops(w, epoch) :
        /\ ReplaysUpTo(w, epoch, mls, last)
        /\ last + 1 \notin DOMAIN w
        /\ \E e \in DOMAIN w : e > last
=============================================================================

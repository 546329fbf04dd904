----------------------------- MODULE CommitSync -----------------------------
(***************************************************************************)
(* Commit propagation between Alice, who commits, and Bob, who applies, as *)
(* the testbed runs it (testbed-runner/src/main.rs over quic-mls).         *)
(*                                                                         *)
(* Alice's task commits, snapshots her log's window, and fires it as raw   *)
(* datagrams beside the QUIC connection; the network loses, duplicates and *)
(* reorders them.  Bob's socket replays each on his group and tells his    *)
(* report task through a watch channel; the task writes the epoch reached  *)
(* on a QUIC stream, from which another task of Alice's trims the log.     *)
(* Contacts begin and end, and each side loses the connection in its own   *)
(* time.                                                                   *)
(*                                                                         *)
(* The initial states are those after the first contact is made: the group *)
(* exists on both sides and nothing has been committed.                    *)
(***************************************************************************)
EXTENDS CommitWindow, Sequences

CONSTANTS
    Budget,        \* entries of one window that transcript_max_bytes lets out
    PerDatagram,   \* entries that fit MAX_DATAGRAM_PAYLOAD
    StreamWindow,  \* reports that flow control lets be in flight
    MayMute        \* whether the application toggles should_report

ASSUME SyncConstants ==
    /\ Budget \in Nat
    /\ PerDatagram \in Nat \ {0}
    /\ StreamWindow \in Nat \ {0}
    /\ MayMute \in BOOLEAN

VARIABLES
    alicePc,        \* where run_alice is
    outbox,         \* what send_preamble has still to send
    aliceLink,      \* Alice's end of the connection is open
    net,            \* datagrams under way
    local_epoch,    \* commits Bob has applied
    bobGroup,       \* MLS epoch of Bob's group
    notifying,      \* Bob's sink has applied commits and not yet said so
    watched,        \* the value in the watch channel
    unseen,         \* it has changed since the report task looked
    senderPc,       \* where run_report_sender is
    epoch,          \* the value it looked at
    should_report,
    bobLink,        \* Bob's end of the connection is open
    stream          \* reports Alice has yet to read, oldest first

aliceVars == <<alicePc, outbox, aliceLink>>
sinkVars  == <<local_epoch, bobGroup, notifying>>
watchVars == <<watched, unseen>>
bobVars   == <<senderPc, epoch, should_report, bobLink>>
syncVars  == <<aliceVars, net, sinkVars, watchVars, bobVars, stream>>
vars      == <<logVars, syncVars>>

SyncInit ==
    /\ LogInit
    /\ alicePc = "online"
    /\ outbox = NoEntries
    /\ aliceLink = TRUE
    /\ net = {}
    /\ local_epoch = 0
    /\ bobGroup = Base
    /\ notifying = FALSE
    /\ watched = 0
    /\ unseen = FALSE
    /\ senderPc = "borrow"
    /\ epoch = 0
    /\ should_report = TRUE
    /\ bobLink = TRUE
    /\ stream = <<>>

-----------------------------------------------------------------------------
(* Slips the properties are there to catch: only the first bucket is sent; *)
(* each connection gets a watch channel of its own, starting from zero;    *)
(* a contact that does not depend on the epochs; every entry of a datagram *)
(* counted, those already applied too; a change published during a write   *)
(* taken for the one that was written.                                     *)

SendFirstBucketOnly ==
    /\ DOMAIN outbox # {}
    /\ net' = net \cup {FirstEntries(outbox, PerDatagram)}
    /\ outbox' = NoEntries
    /\ UNCHANGED <<logVars, alicePc, aliceLink, sinkVars, watchVars, bobVars, stream>>

ConnectIf(sameEpoch, watch) ==
    /\ alicePc = "preamble" /\ DOMAIN outbox = {} /\ ~bobLink /\ sameEpoch
    /\ alicePc' = "online" /\ aliceLink' = TRUE /\ bobLink' = TRUE
    /\ senderPc' = "borrow" /\ stream' = <<>>
    /\ watched' = watch
    /\ UNCHANGED <<logVars, outbox, net, sinkVars, unseen, epoch, should_report>>

ConnectFreshWatch == ConnectIf(inner = bobGroup, 0)
ConnectAnyEpoch   == ConnectIf(TRUE, watched)

ReceiveCountsAll(d) ==
    /\ d \in net
    /\ ~notifying
    /\ net' \in {net, net \ {d}}
    /\ local_epoch' = local_epoch + Cardinality(DOMAIN d)
    /\ bobGroup' = bobGroup + Cardinality(DOMAIN d)
    /\ notifying' = TRUE
    /\ UNCHANGED <<logVars, aliceVars, watchVars, bobVars, stream>>

WriteMarksSeen ==
    /\ senderPc = "write"
    /\ Len(stream) < StreamWindow
    /\ senderPc' = "wait" /\ unseen' = FALSE
    /\ stream' = IF aliceLink THEN Append(stream, epoch) ELSE stream
    /\ UNCHANGED <<logVars, aliceVars, net, sinkVars, watched, epoch, should_report, bobLink>>

-----------------------------------------------------------------------------
(* Alice's task.                                                           *)
(*   online    in contact, at the head of the commit loop                  *)
(*   committed has committed, has not yet taken the window                 *)
(*   sending   in send_preamble, in contact                                *)
(*   blackout  out of contact, committing offline                          *)
(*   waiting   at the head of the cycle loop, about to make contact        *)
(*   preamble  in send_preamble, before the connection                     *)

CommitInContact ==
    /\ alicePc = "online"
    /\ CreateCommit
    /\ alicePc' = "committed"
    /\ UNCHANGED <<outbox, aliceLink, net, sinkVars, watchVars, bobVars, stream>>

CommitOffline ==
    /\ alicePc = "blackout"
    /\ CreateCommit
    /\ UNCHANGED syncVars

\* The window is read under a lock of its own, so trims may come in between the
\* commit and the snapshot, and between the snapshot and the datagrams.
TakeWindow ==
    /\ \/ alicePc = "committed" /\ alicePc' = "sending"
       \/ alicePc = "waiting" /\ alicePc' = "preamble"
    /\ outbox' = FirstEntries(WindowBytes, Budget)
    /\ UNCHANGED <<logVars, aliceLink, net, sinkVars, watchVars, bobVars, stream>>

\* One datagram, one awaited send.
SendBucket ==
    /\ DOMAIN outbox # {}
    /\ LET bucket == FirstEntries(outbox, PerDatagram)
       IN  /\ net' = net \cup {bucket}
           /\ outbox' = Entries(outbox, DOMAIN outbox \ DOMAIN bucket)
    /\ UNCHANGED <<logVars, alicePc, aliceLink, sinkVars, watchVars, bobVars, stream>>

\* send_preamble returns; the rekey that follows is not part of this model.
WindowSent ==
    /\ alicePc = "sending"
    /\ DOMAIN outbox = {}
    /\ alicePc' = "online"
    /\ UNCHANGED <<logVars, outbox, aliceLink, net, sinkVars, watchVars, bobVars, stream>>

\* A contact is made when Bob is free to accept it and both ends derive their
\* 0-RTT keys from the same MLS epoch.  Each end starts its control task.
Connect ==
    /\ alicePc = "preamble"
    /\ DOMAIN outbox = {}
    /\ ~bobLink
    /\ inner = bobGroup
    /\ alicePc' = "online"
    /\ aliceLink' = TRUE
    /\ bobLink' = TRUE
    /\ senderPc' = "borrow"
    /\ stream' = <<>>
    /\ UNCHANGED <<logVars, outbox, net, sinkVars, watchVars, epoch, should_report>>

\* The attempt runs into report_timeout, or fails before it; or the connection is lost
\* and zero_rtt_accepted answers false, upon which Alice goes through a whole contact
\* with a dead connection.
ConnectFails ==
    /\ alicePc = "preamble"
    /\ DOMAIN outbox = {}
    /\ alicePc' \in {"waiting", "online"}
    /\ UNCHANGED <<logVars, outbox, aliceLink, net, sinkVars, watchVars, bobVars, stream>>

\* The contact window ends: the connection is closed and the receiver aborted.
EndContact ==
    /\ alicePc = "online"
    /\ alicePc' = "blackout"
    /\ aliceLink' = FALSE
    /\ stream' = <<>>
    /\ UNCHANGED <<logVars, outbox, net, sinkVars, watchVars, bobVars>>

EndBlackout ==
    /\ alicePc = "blackout"
    /\ alicePc' = "waiting"
    /\ UNCHANGED <<logVars, outbox, aliceLink, net, sinkVars, watchVars, bobVars, stream>>

\* Alice's connection dies under her; the commit loop does not notice.
AliceLosesLink ==
    /\ aliceLink
    /\ aliceLink' = FALSE
    /\ stream' = <<>>
    /\ UNCHANGED <<logVars, alicePc, outbox, net, sinkVars, watchVars, bobVars>>

\* run_report_receiver, a task of its own.
ReadReport ==
    /\ stream # <<>>
    /\ Trim(Head(stream))
    /\ stream' = Tail(stream)
    /\ UNCHANGED <<aliceVars, net, sinkVars, watchVars, bobVars>>

-----------------------------------------------------------------------------
(* The network and Bob's socket.                                           *)

Lose(d) ==
    /\ d \in net
    /\ net' = net \ {d}
    /\ UNCHANGED <<logVars, aliceVars, sinkVars, watchVars, bobVars, stream>>

\* The sink replays a datagram, all under Bob's locks; a copy may stay under way.
\* Datagrams are read one at a time, so no sink call starts before the last ended.
Receive(d) ==
    /\ d \in net
    /\ ~notifying
    /\ net' \in {net, net \ {d}}
    /\ \E last \in Stops(d, local_epoch) :
          /\ ReplaysUpTo(d, local_epoch, bobGroup, last)
          /\ local_epoch' = last
          /\ bobGroup' = bobGroup + (last - local_epoch)
          /\ notifying' = (last # local_epoch)
    /\ UNCHANGED <<logVars, aliceVars, watchVars, bobVars, stream>>

\* Having let go of the locks, it publishes the epoch it reached.
Notify ==
    /\ notifying
    /\ notifying' = FALSE
    /\ watched' = local_epoch
    /\ unseen' = TRUE
    /\ UNCHANGED <<logVars, aliceVars, net, local_epoch, bobGroup, bobVars, stream>>

-----------------------------------------------------------------------------
(* Bob's report task.                                                      *)

Borrow ==
    /\ senderPc = "borrow"
    /\ epoch' = watched
    /\ unseen' = FALSE
    /\ senderPc' = IF should_report THEN "write" ELSE "wait"
    /\ UNCHANGED <<logVars, aliceVars, net, sinkVars, watched, should_report, bobLink, stream>>

\* What is written after Alice's end is gone reaches nobody.
WriteReport ==
    /\ senderPc = "write"
    /\ Len(stream) < StreamWindow
    /\ senderPc' = "wait"
    /\ stream' = IF aliceLink THEN Append(stream, epoch) ELSE stream
    /\ UNCHANGED <<logVars, aliceVars, net, sinkVars, watchVars, epoch, should_report, bobLink>>

Changed ==
    /\ senderPc = "wait"
    /\ unseen
    /\ senderPc' = "borrow"
    /\ UNCHANGED <<logVars, aliceVars, net, sinkVars, watchVars, epoch, should_report, bobLink, stream>>

\* The return link goes down or comes back, as the blackout tests have it.
ToggleReports ==
    /\ MayMute
    /\ should_report' = ~should_report
    /\ UNCHANGED <<logVars, aliceVars, net, sinkVars, watchVars, senderPc, epoch, bobLink, stream>>

\* Bob's connection ends (closed by Alice, idle for too long, or failed), and
\* run_bob aborts the report task.
BobLosesLink ==
    /\ bobLink
    /\ bobLink' = FALSE
    /\ senderPc' = "off"
    /\ UNCHANGED <<logVars, aliceVars, net, sinkVars, watchVars, epoch, should_report, stream>>

-----------------------------------------------------------------------------
AliceStep ==
    \/ CommitInContact \/ CommitOffline \/ TakeWindow \/ SendBucket \/ WindowSent
    \/ Connect \/ ConnectFails \/ EndContact \/ EndBlackout \/ AliceLosesLink
    \/ ReadReport

NetStep == \E d \in net : Lose(d) \/ Receive(d)

BobStep == Notify \/ Borrow \/ WriteReport \/ Changed \/ ToggleReports \/ BobLosesLink

Next == AliceStep \/ NetStep \/ BobStep

Spec == SyncInit /\ [][Next]_vars

\* Datagrams there can be: a run of consecutive epochs, each commit framed in the
\* MLS epoch its number gives.
Datagrams ==
    { [e \in i..j |-> Base + e - 1] : i \in Epochs, j \in Epochs } \ {NoEntries}

(* Fairness.  Every loop of the tasks goes round: the tasks are scheduled, *)
(* a blackout is timed, a dead connection runs into its idle timeout.  Of  *)
(* the channel: a datagram sent again and again is received some time, and *)
(* contacts recur that are made and last for a report to get through.  A   *)
(* contact need not end: without blackouts there is one only.              *)
Fairness ==
    /\ WF_vars(TakeWindow) /\ WF_vars(SendBucket) /\ WF_vars(WindowSent)
    /\ WF_vars(Connect \/ ConnectFails) /\ WF_vars(EndBlackout)
    /\ WF_vars(Notify) /\ WF_vars(Changed)
    /\ WF_vars(~aliceLink /\ BobLosesLink)
    /\ \A d \in Datagrams : SF_vars(Receive(d))
    /\ SF_vars(Connect) /\ SF_vars(ReadReport)
    /\ SF_vars(aliceLink /\ Borrow) /\ SF_vars(aliceLink /\ WriteReport)

FairSpec == Spec /\ Fairness

-----------------------------------------------------------------------------
TypeOK ==
    /\ LogTypeOK
    /\ alicePc \in {"online", "committed", "sending", "blackout", "waiting", "preamble"}
    /\ IsWindow(outbox)
    /\ \A d \in net : IsWindow(d)
    /\ local_epoch \in Nat /\ bobGroup \in Nat /\ watched \in Nat /\ epoch \in Nat
    /\ aliceLink \in BOOLEAN /\ bobLink \in BOOLEAN
    /\ notifying \in BOOLEAN /\ unseen \in BOOLEAN /\ should_report \in BOOLEAN
    /\ senderPc \in {"off", "borrow", "write", "wait"}
    /\ stream \in Seq(Nat)

\* Bob can never be left behind for good: every commit he has not applied is
\* still in Alice's log, whatever was lost, repeated or reported (trim, and the
\* chain sink - watch - report - trim that feeds it).
NoUnappliedCommitDropped ==
    (local_epoch + 1)..current_epoch \subseteq DOMAIN commit_log

\* Bob's group accepts whatever is under way, in whatever order it arrives: the
\* log's own count (group.rs:77) never comes apart from the MLS epochs on either
\* side, so apply_commit_window never ends in MlsError.
GroupNeverRefuses ==
    \A d \in net : ~MlsRefuses(d, local_epoch, bobGroup)

\* Reports reach Alice in the order of Bob's progress and none is behind what she
\* has already trimmed, though the value was read before an awaited write and
\* connections were lost in between (control.rs:79-81).
ReportsInOrder ==
    \A i \in 1..Len(stream) :
        /\ checkpoint <= stream[i]
        /\ \A j \in 1..i : stream[j] <= stream[i]

\* What group.rs:138 says of the error: a gap means that the peer fell off the back
\* of the sender's log, that is, that the next commit is no longer there.
ResyncMeansFellOff ==
    \A d \in net : ResyncNeeded(d, local_epoch, bobGroup) => local_epoch + 1 \notin DOMAIN commit_log

\* Out of contact with a window that the byte budget truncates.
Stuck ==
    /\ ~aliceLink
    /\ current_epoch > checkpoint + Budget

\* A truncated window is fatal out of contact (the LIVELOCK-CONFIRMED verdict of
\* the test scripts): reconnecting needs Bob in Alice's epoch, the window needs a
\* report to advance, and the report needs the connection.
TruncationIsFatal == [][Stuck => Stuck']_vars

\* Alice's contacts are timed, as they are with blackouts.
ContactsEnd == []<>(alicePc # "online")

\* Every commit is applied in the end, when the budget lets whole windows out: what
\* was lost is made good by the next window, reports or no reports (main.rs:535-543).
BobCatchesUp ==
    ContactsEnd => \A n \in Epochs : current_epoch >= n ~> local_epoch >= n

\* And reported and trimmed in the end, so that the log does not grow for ever, once
\* the return link is up for good: the last epoch reached while it was down is
\* reported too, if not before then at the next contact (control.rs:77-87).
LogDrains ==
    ContactsEnd /\ <>[]should_report =>
        \A n \in Epochs : current_epoch >= n ~> checkpoint >= n

\* A contact that lasts needs no other to report what Bob reaches during it: a change
\* published while the report task writes wakes it when it is done (control.rs:79, 85).
LastingContactReports ==
    []should_report /\ <>[](aliceLink /\ bobLink) =>
        \A n \in Epochs : local_epoch >= n ~> checkpoint >= n

\* The protocol is a custody transfer.
Custody == INSTANCE CustodyTransfer WITH
    committed <- current_epoch, applied <- local_epoch, released <- checkpoint

CustodySpec == Custody!Spec
=============================================================================

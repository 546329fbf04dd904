---------------------------- MODULE ContactCycles ----------------------------
(***************************************************************************)
(* How Alice and Bob find each other again, contact after contact, as the  *)
(* testbed does it (testbed-runner/src/main.rs): the cycle loops of        *)
(* run_alice and run_bob, the ready file, the timeouts, the connections    *)
(* one side has given up and the other has not, and the crypto configs of  *)
(* quic-mls/src/config.rs, each good for one session.                      *)
(*                                                                         *)
(* An attempt is what Bob can know of a connection Alice has begun.  Quinn *)
(* keeps those that arrive in a queue until run_bob accepts them, one per  *)
(* cycle.  Commits are CommitSync's: here an attempt has the keys of Bob's *)
(* epoch, or it has not.                                                   *)
(***************************************************************************)
EXTENDS Naturals, Sequences

CONSTANTS
    Blackouts,     \* blackout_off is not zero
    Patient,       \* timers are long beside a link that is up and the tasks' own steps
    MaxIncoming,   \* attempts quinn keeps for accept
    MaxOutages,    \* bound on the outages of the link
    MaxStrays      \* bound on the Initials that turn up again

ASSUME CycleConstants ==
    /\ Blackouts \in BOOLEAN /\ Patient \in BOOLEAN
    /\ MaxIncoming \in Nat \ {0} /\ MaxOutages \in Nat /\ MaxStrays \in Nat

VARIABLES
    link, outages, strays,
    over,       \* the scenario's duration has passed
    news,       \* the ready file holds a cycle later than last_ready_seen
    alicePc,
    first,      \* Alice is in her first cycle, which has no timeout
    aliceConn,  \* her connection: "none", "open", or "lost"
    keyed,      \* it was begun in the epoch Bob is in
    place,      \* where its other end is: "none", "flying", "queued", "bob"
    bobPc,
    config,     \* the server config still holds the group
    incoming,   \* attempts that wait for accept
    bobConn     \* the attempt Bob has accepted, in a sequence of one, or none

linkVars  == <<link, outages, strays, over>>
aliceVars == <<alicePc, first, aliceConn, keyed>>
bobVars   == <<bobPc, config>>
vars      == <<linkVars, news, aliceVars, place, bobVars, incoming, bobConn>>

\* current  it is the connection Alice has now
\* keyed    its packets open under the keys of Bob's epoch
\* hello    the 0-RTT packet with the Hello has come with it
\* closed   so has Alice's close
\* sound    its Initial authenticates
Attempts ==
    [current : BOOLEAN, keyed : BOOLEAN, hello : BOOLEAN, closed : BOOLEAN, sound : BOOLEAN]

Init ==
    /\ link = TRUE /\ outages = 0 /\ strays = 0 /\ over = FALSE
    /\ news = FALSE
    /\ alicePc = "ready" /\ first = TRUE /\ aliceConn = "none" /\ keyed = TRUE
    /\ place = "none"
    /\ bobPc = "loop" /\ config = TRUE
    /\ incoming = <<>> /\ bobConn = <<>>

-----------------------------------------------------------------------------
(* What one side's end of a connection tells the other.                    *)

Left(a, heard) == [a EXCEPT !.current = FALSE, !.closed = a.closed \/ heard]

\* Alice's end of her connection goes, with a close that Bob hears of or in silence.
AliceLeaves(heard) ==
    /\ incoming' = [i \in DOMAIN incoming |->
                       IF incoming[i].current THEN Left(incoming[i], heard) ELSE incoming[i]]
    /\ bobConn' = [i \in DOMAIN bobConn |->
                       IF bobConn[i].current THEN Left(bobConn[i], heard) ELSE bobConn[i]]
    /\ place' = "none"

\* She closes or drops it: the close arrives if the link is up.
AliceCloses == AliceLeaves(link)

\* Bob's end goes; Alice hears of it likewise, and otherwise finds out in her own time.
BobLeaves ==
    /\ bobConn' = <<>>
    /\ IF place = "bob"
       THEN /\ place' = "none"
            /\ aliceConn' = IF link THEN "lost" ELSE aliceConn
       ELSE UNCHANGED <<place, aliceConn>>

Live == bobConn # <<>> /\ bobConn[1].current /\ link
Closed == bobConn # <<>> /\ bobConn[1].closed

-----------------------------------------------------------------------------
(* Alice.                                                                  *)
(*   ready     in wait_for_ready, at the head of the cycle loop            *)
(*   connect   about to send the preamble and connect                      *)
(*   await     the Hello is written; waits for zero_rtt_accepted           *)
(*   contact   commits, with a connection or with a dead one               *)
(*   blackout  commits offline                                             *)
(*   done                                                                  *)

ReadReady ==
    /\ alicePc = "ready" /\ ~over
    /\ news
    /\ news' = FALSE
    /\ alicePc' = "connect"
    /\ UNCHANGED <<linkVars, first, aliceConn, keyed, place, bobVars, incoming, bobConn>>

\* Slip: without a later cycle in the file Alice waits on.
NeverGiveUp == FALSE

\* wait_for_ready gives up, and Alice goes on all the same.
ReadyTimeout ==
    /\ alicePc = "ready" /\ ~over
    /\ ~news
    /\ alicePc' = "connect"
    /\ UNCHANGED <<linkVars, news, first, aliceConn, keyed, place, bobVars, incoming, bobConn>>

\* A new client config, a new session.  The preamble that goes before it brings Bob
\* to Alice's epoch if the link is up; if not, he may be there already.
Connect ==
    /\ alicePc = "connect"
    /\ alicePc' = "await"
    /\ aliceConn' = "open"
    /\ keyed' \in IF link \/ first THEN {TRUE} ELSE BOOLEAN
    /\ place' = "flying"
    /\ UNCHANGED <<linkVars, news, first, bobVars, incoming, bobConn>>

\* zero_rtt_accepted: the handshake is complete, or the connection is lost, which
\* the code takes for 0-RTT refused and goes on to the contact.
Answered ==
    /\ alicePc = "await"
    /\ \/ aliceConn = "lost"
       \/ place = "bob" /\ link /\ bobConn[1].keyed
    /\ alicePc' = "contact"
    /\ first' = FALSE
    /\ UNCHANGED <<linkVars, news, aliceConn, keyed, place, bobVars, incoming, bobConn>>

\* report_timeout drops the attempt, except in the first cycle.
AttemptTimeout ==
    /\ alicePc = "await" /\ ~first
    /\ alicePc' = "ready"
    /\ aliceConn' = "none"
    /\ AliceCloses
    /\ UNCHANGED <<linkVars, news, first, keyed, bobVars>>

\* The idle timeout finds a connection with nobody at the other end, and ends it
\* without a word.  It is longer than report_timeout, which comes first in an attempt.
AliceIdle ==
    /\ aliceConn = "open"
    /\ alicePc = "await" => first
    /\ ~(place = "bob" /\ link /\ keyed)
    /\ aliceConn' = "lost"
    /\ AliceLeaves(FALSE)
    /\ UNCHANGED <<linkVars, news, alicePc, first, keyed, bobVars>>

\* The contact window ends.
EndContact ==
    /\ alicePc = "contact"
    /\ alicePc' = IF Blackouts /\ ~over THEN "blackout" ELSE "done"
    /\ aliceConn' = "none"
    /\ AliceCloses
    /\ UNCHANGED <<linkVars, news, first, keyed, bobVars>>

EndBlackout ==
    /\ alicePc = "blackout"
    /\ alicePc' = "ready"
    /\ UNCHANGED <<linkVars, news, first, aliceConn, keyed, place, bobVars, incoming, bobConn>>

AliceStops ==
    /\ alicePc = "ready" /\ over
    /\ alicePc' = "done"
    /\ UNCHANGED <<linkVars, news, first, aliceConn, keyed, place, bobVars, incoming, bobConn>>

-----------------------------------------------------------------------------
(* Bob.                                                                    *)
(*   loop      at the head of the cycle loop                               *)
(*   accept    the ready file written, waits for an attempt                *)
(*   stream    waits for the control stream, up to report_timeout          *)
(*   confirm   waits for zero_rtt_accepted                                 *)
(*   report    reports, until the connection is closed                     *)
(*   panicked  has asked a used config for a session                       *)
(*   failed    has returned an error                                       *)
(*   done                                                                  *)

BeginWith(newConfig) ==
    /\ bobPc = "loop"
    /\ bobPc' = IF over THEN "done" ELSE "accept"
    /\ config' = IF over THEN config ELSE newConfig
    /\ news' = (news \/ ~over)
    /\ UNCHANGED <<linkVars, aliceVars, place, incoming, bobConn>>

\* Slip: the config is set once and for all.
BeginKeepsConfig == BeginWith(config)

\* A new server config, the first being the endpoint's own, then the ready file.
Begin == BeginWith(TRUE)

\* start_session takes the group out of the config, and panics if it is gone.
StartSession ==
    /\ bobPc' = IF config THEN "stream" ELSE "panicked"
    /\ config' = FALSE

\* accept takes the oldest attempt.
Accept ==
    /\ bobPc = "accept"
    /\ incoming # <<>> /\ Head(incoming).sound
    /\ StartSession
    /\ bobConn' = <<Head(incoming)>>
    /\ incoming' = Tail(incoming)
    /\ place' = IF Head(incoming).current THEN "bob" ELSE place
    /\ UNCHANGED <<linkVars, news, aliceVars>>

\* quinn refuses an Initial that does not authenticate, before it asks the config for a
\* session; run_bob returns the error, and with it ends for good.
AcceptFails ==
    /\ bobPc = "accept"
    /\ incoming # <<>> /\ ~Head(incoming).sound
    /\ bobPc' = "failed"
    /\ incoming' = Tail(incoming)
    /\ UNCHANGED <<linkVars, news, aliceVars, place, config, bobConn>>

AcceptTimeout ==
    /\ bobPc = "accept"
    /\ over
    /\ bobPc' = "done"
    /\ UNCHANGED <<linkVars, news, aliceVars, place, config, incoming, bobConn>>

\* accept_bi finds the stream: with the attempt, or retransmitted by an Alice that
\* is still there.
StreamOpens ==
    /\ bobPc = "stream"
    /\ bobConn[1].keyed
    /\ bobConn[1].hello \/ Live
    /\ bobPc' = "confirm"
    /\ UNCHANGED <<linkVars, news, aliceVars, place, config, incoming, bobConn>>

\* accept_bi fails, or times out: the connection is stale, and the next cycle begins.
Stale(guard) ==
    /\ bobPc = "stream"
    /\ guard
    /\ bobPc' = "loop"
    /\ BobLeaves
    /\ UNCHANGED <<linkVars, news, alicePc, first, keyed, config, incoming>>

StreamFails   == Stale(Closed)
StreamTimeout == Stale(TRUE)

\* Resolved by the end of the handshake, or by the end of the connection.
Confirmed ==
    /\ bobPc = "confirm"
    /\ Live \/ Closed
    /\ bobPc' = "report"
    /\ UNCHANGED <<linkVars, news, aliceVars, place, config, incoming, bobConn>>

\* The connection is gone: conn.closed() returns and the report task is aborted, or,
\* before the handshake was complete, zero_rtt_accepted and then conn.closed().
ConnEnds(guard) ==
    /\ bobPc \in {"confirm", "report"}
    /\ guard
    /\ bobPc' = IF Blackouts THEN "loop" ELSE "done"
    /\ BobLeaves
    /\ UNCHANGED <<linkVars, news, alicePc, first, keyed, config, incoming>>

\* Slips: Bob awaits the report task, which waits for an epoch, and not the connection;
\* his connections have no idle timeout.
AwaitsReports == ConnEnds(bobPc = "report" /\ FALSE)
ConnClosed == ConnEnds(bobPc = "report" /\ Closed)
NoIdleTimeout == ConnEnds(Closed)
BobIdle    == ConnEnds(~Live)

-----------------------------------------------------------------------------
(* The network.                                                            *)

\* Alice's Initial gets through, with her Hello or without.  A full queue refuses it.
InitialArrives ==
    /\ place = "flying" /\ link /\ bobPc \notin {"failed", "done"}
    /\ IF Len(incoming) < MaxIncoming
       THEN /\ \E hello \in BOOLEAN :
                  incoming' = Append(incoming, [current |-> TRUE, keyed |-> keyed,
                                                hello |-> hello, closed |-> FALSE,
                                                sound |-> TRUE])
            /\ place' = "queued"
            /\ UNCHANGED aliceConn
       ELSE /\ aliceConn' = "lost"
            /\ place' = "none"
            /\ UNCHANGED incoming
    /\ UNCHANGED <<linkVars, news, alicePc, first, keyed, bobVars, bobConn>>

\* Alice, who has not heard that Bob has closed it, retransmits, and it may count as
\* a new attempt.
Retransmit ==
    /\ alicePc = "await" /\ aliceConn = "open" /\ place = "none"
    /\ place' = "flying"
    /\ UNCHANGED <<linkVars, news, aliceVars, bobVars, incoming, bobConn>>

\* A copy of an old Initial turns up when its connection is long gone, or one that the
\* channel has damaged.
Stray ==
    /\ link /\ strays < MaxStrays /\ ~first
    /\ Len(incoming) < MaxIncoming
    /\ strays' = strays + 1
    /\ \E k, h, ok \in BOOLEAN :
          incoming' = Append(incoming, [current |-> FALSE, keyed |-> k, hello |-> h,
                                        closed |-> FALSE, sound |-> ok])
    /\ UNCHANGED <<link, outages, over, news, aliceVars, place, bobVars, bobConn>>

LinkFails ==
    /\ link /\ outages < MaxOutages
    /\ link' = FALSE /\ outages' = outages + 1
    /\ UNCHANGED <<strays, over, news, aliceVars, place, bobVars, incoming, bobConn>>

LinkReturns ==
    /\ ~link
    /\ link' = TRUE
    /\ UNCHANGED <<outages, strays, over, news, aliceVars, place, bobVars, incoming, bobConn>>

TimeIsUp ==
    /\ ~over
    /\ over' = TRUE
    /\ UNCHANGED <<link, outages, strays, news, aliceVars, place, bobVars, incoming, bobConn>>

-----------------------------------------------------------------------------
\* Steps that wait for no timer.
Instant ==
    \/ ReadReady \/ Connect \/ Answered \/ AliceStops
    \/ Begin \/ Accept \/ AcceptFails \/ StreamOpens \/ StreamFails \/ Confirmed \/ ConnClosed
    \/ InitialArrives

\* A timer goes off, if timers are patient only when nothing else can happen.
May == Patient => ~ENABLED Instant

Timer ==
    /\ May
    /\ \/ ReadyTimeout \/ AttemptTimeout \/ AliceIdle \/ EndContact \/ EndBlackout
       \/ AcceptTimeout \/ StreamTimeout \/ BobIdle

Outside == Retransmit \/ Stray \/ LinkFails \/ LinkReturns \/ TimeIsUp

Next == Instant \/ Timer \/ Outside

Spec == Init /\ [][Next]_vars

\* Tasks run, the link comes back, and a timer that is running goes off though other
\* steps are taken meanwhile.
FairSpec ==
    /\ Spec
    /\ WF_vars(ReadReady \/ Connect \/ Answered \/ AliceStops)
    /\ WF_vars(Begin \/ Accept \/ AcceptFails \/ StreamOpens \/ StreamFails \/ Confirmed \/ ConnClosed)
    /\ WF_vars(InitialArrives)
    /\ WF_vars(LinkReturns)
    /\ SF_vars(May /\ (ReadyTimeout \/ AttemptTimeout \/ EndContact \/ EndBlackout))
    /\ SF_vars(May /\ AliceIdle)
    /\ SF_vars(May /\ (AcceptTimeout \/ StreamTimeout \/ BobIdle))

-----------------------------------------------------------------------------
TypeOK ==
    /\ link \in BOOLEAN /\ outages \in 0..MaxOutages /\ strays \in 0..MaxStrays
    /\ over \in BOOLEAN /\ news \in BOOLEAN
    /\ alicePc \in {"ready", "connect", "await", "contact", "blackout", "done"}
    /\ first \in BOOLEAN /\ keyed \in BOOLEAN
    /\ aliceConn \in {"none", "open", "lost"}
    /\ place \in {"none", "flying", "queued", "bob"}
    /\ bobPc \in {"loop", "accept", "stream", "confirm", "report", "panicked", "failed", "done"}
    /\ config \in BOOLEAN
    /\ incoming \in Seq(Attempts) /\ Len(incoming) <= MaxIncoming
    /\ bobConn \in Seq(Attempts) /\ Len(bobConn) <= 1
    /\ (bobConn = <<>>) = (bobPc \in {"loop", "accept", "failed", "done"})

\* A server config is asked for one session only, whatever is abandoned, retried or
\* turns up again (config.rs:61-65 panics at the second).
OneSessionPerConfig == bobPc # "panicked"

\* Over a link that holds, with patient timers, no attempt of Alice's is in vain: none
\* times out, and none ends in a contact on a dead connection (main.rs:482-503).  Each
\* end of a contact finds both loops back in time for the next one.
CalmLink == outages = 0 /\ strays = 0 /\ ~over
NoAttemptInVain ==
    [][CalmLink /\ alicePc = "await" /\ alicePc' # "await"
           => alicePc' = "contact" /\ place = "bob"]_vars

\* In contact: both ends of one connection, and Bob reporting on it.
InContact == alicePc = "contact" /\ place = "bob" /\ bobPc = "report"

\* Contacts recur: whatever attempts failed, were left stale in Bob's queue, or were
\* cut by an outage, Alice and Bob come together again once the link stays up, and
\* go on doing so until the scenario's time is up.  Only a damaged Initial ends that
\* sooner (main.rs:360).
ContactRecurs == []<>(InContact \/ over \/ bobPc = "failed")

\* Bob gives every dead connection up and is back at accept in the end
\* (main.rs:365-372, 392).
BobComesBack ==
    bobConn # <<>> /\ ~bobConn[1].current ~> bobPc \in {"accept", "done"}
=============================================================================

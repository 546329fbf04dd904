# TLA+ models of QUIC-MLS for deep-space links

The repository puts QUIC on MLS: the keys of every packet come from the exporter secret of
an MLS group, and the committing party, Alice, gets her commits to Bob as raw datagrams
beside the QUIC connection, so that they can be replayed after a blackout. This directory
holds the specifications of that program, the TLC configurations that check them and the
theorems that TLAPS proves about them.

Source paths below are relative to `src/`; `main.rs` without a directory is
`space_Channel_Simulation_Test/MLS/testbed-runner/src/main.rs`, and other bare names are in
`quic-mls/src/`.

## 1. Inventory

| component | state | operations | who calls it |
|---|---|---|---|
| `CommitLog<G>` (group.rs) | wrapped group, `current_epoch`, `commit_log`, `checkpoint` | `create_commit`, `window_bytes`, `trim`, `export_secret` | Alice's task, her report task, her session, all through one mutex |
| `apply_commit_window` (group.rs) | none (the caller's group and epoch) | replay of a window, with `MlsError` and `ResyncNeeded` | Bob's sink |
| `bucket_window`, `send_preamble` (preamble.rs) | byte counter | cutting a window into datagrams, one awaited send each | Alice's task |
| `transcript.rs` | none | encoding and decoding a bucket | `send_preamble`, `poll_recv` |
| `PreambleSocket` receiving (preamble.rs) | tokio's readiness, buffers | `poll_recv`: telling preambles from QUIC packets, calling the sink | quinn's endpoint driver |
| `PreambleSocket` sending (preamble.rs) | tokio's readiness, one waker slot | `try_send`, `PreamblePoller`, `send_preamble` | quinn's connection drivers, Alice's task |
| `control.rs` | watched epoch, `should_report` | `run_report_sender`, `run_report_receiver`, `read_message`, `write_message` | tasks spawned per connection |
| `MlsSession` (session.rs) | `HsState`, pinned keys, `key_update_generation`, peer parameters | `write_handshake`, `read_handshake`, `early_crypto`, `next_1rtt_keys` | quinn-proto, under the connection's lock |
| `keys.rs` | none | `derive_mls_keys` (two exports, one per direction), `derive_initial_keys` | `MlsSession`, quinn-proto |
| `packet_key.rs`, `header_key.rs`, `hkdf.rs` | keys | sealing, opening, header protection | quinn-proto |
| `config.rs` | the group, until a session takes it | `start_session` | quinn |
| testbed (main.rs) | cycle, epoch, ready file, contacts | `run_alice`, `run_bob` | the two processes |
| TLS baseline (quic-tls/src/main.rs) | ticket cache, records | `run_client`, `run_server` | two processes |
| `retry.rs`, echo-server, echo-client, mls-demo, scripts | - | retry tag, demonstrations, evaluation | - |

How they interact. Alice's loop commits (the log's mutex), takes the window (the mutex
again), awaits one send per datagram, and calls `force_key_update`. Bob's endpoint driver
hands each datagram to the sink, which replays it under two mutexes, lets go of them and
publishes the epoch on a `watch` channel. Bob's report task borrows the value, awaits a
write of it on a QUIC stream, and waits for a change. Alice's report task reads it and trims
the log (the mutex). The sessions export their secrets from the same groups, whenever
quinn-proto asks. When the link goes, Alice keeps committing offline; at the next contact
she replays the window first and connects then, which works only if both groups are at one
MLS epoch, for the very first keys are exported from it. What tells her that Bob is ready is
a file he writes once per cycle.

What is hard here: three tasks and two mutexes on each side, with awaits between reading a
value and using it; datagrams that are lost, repeated and reordered; a checkpoint that only
moves by reports that need the connection, and a connection that needs the epochs; two ends
of a connection that go in their own time, while attempts already given up wait in a queue;
one socket on which two protocols arrive and for which several tasks register; secrets
exported one at a time from a group that is moving.

What makes each part correct:

* log: it holds exactly the commits after the checkpoint and they replay into the group,
  whatever is reported;
* replay: no order or repetition of datagrams makes the group refuse a commit;
* bucketing and encoding: what goes out is the longest front part of the window, in the
  fewest datagrams; what is counted is what is written; a datagram is decoded whole or not
  at all;
* socket: every datagram reaches its one reader, once, in order; nobody sleeps over work,
  also when writers overwrite each other's waker;
* propagation: no commit is let go before it is applied; in the end each one is applied, and
  reported;
* contacts: a config serves one session, no attempt is in vain while the link holds, and the
  parties find each other again after every failure;
* sessions: an established connection has the same keys on both sides;
* rekeying: updates never get two phases apart, never reuse a secret, and the first one
  always carries;
* packets: what one side seals the other opens and nobody else, under nonces that never
  repeat;
* baseline: a record says what happened, and a series of records is of one kind, so that the
  comparison is one.

`PROJECT.json` has the hazards behind these, each at its line.

## 2. Modules

| module | models | extends |
|---|---|---|
| `CustodyTransfer` | what propagation promises (DTN custody transfer, named in preamble.rs:16-20) | - |
| `CommitLog` | `CommitLog<G>` | - |
| `CommitWindow` | `bucket_window` (in entries) and `apply_commit_window`, as operators | `CommitLog` |
| `CommitSync` | `run_alice`, `run_bob`, the sink, the report tasks, the network | `CommitWindow`; refines `CustodyTransfer` |
| `BucketWindow` | `bucket_window` in bytes, one step per turn of its loop | - |
| `Bytes` | numbers as bytes, `to_be_bytes` and `from_be_bytes` | - |
| `Transcript` | `encode_transcript`, the way, `decode_transcript` | `Bytes` |
| `PreambleWire` | a window cut, encoded, carried and decoded | `BucketWindow`, `Transcript` |
| `PreambleSocket` | `poll_recv` between the network, tokio's driver and quinn's endpoint task | - |
| `PreambleSend` | `send_preamble` and the connections' drivers on one socket | - |
| `MessageChannel` | what the control stream promises | - |
| `ControlStream` | `read_message`, `write_message` and the stream, byte by byte | `Bytes`; refines `MessageChannel` |
| `ContactCycles` | the cycle loops of `run_alice` and `run_bob`, `start_session` | - |
| `Handshake` | `MlsSession` from `write_handshake` to an established connection | - |
| `KeyUpdate` | `next_1rtt_keys` and `force_key_update` on an established connection | - |
| `PacketProtection` | `MlsPacketKey`, `MlsHeaderKey`, Initial keys | - |
| `TlsBaseline` | `run_client`, `run_server` of quic-tls | - |
| `MCPreambleWire`, `MCPacketProtection` | values for TLC | the module named |
| `*_proofs` | theorems | the module named, TLAPS |

A definition marked "Slip:" is a plausible mistake in the code next to it; no specification
uses it. Replacing the code's definition by it violates a property of the run, which shows
that the property depends on that line.

**CommitLog.** A commit is the MLS epoch it was framed in, which decides who can process it;
a window is a function from the log's epochs to commits. `CreateCommit` and `Trim` are the
whole bodies of `create_commit` (with the inner group's) and `trim`.

**CommitWindow.** All commits have one size, so a budget of bytes is a number of entries.
Bare commits of the testbed's suite are in fact of one size but for a few bytes;
`PreambleWire` has the byte-level loop. Replay is stated in closed form: `ReplaysUpTo(w,
epoch, mls, last)` says that the loop leaves off having applied exactly up to `last`.
`Receive` moves both the log's count and the MLS epoch of Bob's group, which are kept apart
so that their agreement is a property.

**CommitSync.** `alicePc` is the place of `run_alice`; the commit, the snapshot and each
datagram are steps of their own, for each takes the mutex, or awaits, by itself. `outbox` is
what `send_preamble` still has to send. `aliceLink` and `bobLink` are the two ends of the
connection. `stream` is the report stream, with `write_all` blocking on flow control.
`watched`/`unseen` are the watch channel and its receiver's version, `senderPc`/`epoch` the
place and the local of `run_report_sender`. The initial states are those after bootstrap and
the first contact (the two groups at MLS epoch `Base`). An error of `send_to` or
`create_commit` ends `run_alice`, with its log in memory; nothing remains to be said after
it, so there is no such step. An attempt that fails either ends the contact or, where
`zero_rtt_accepted` answered false or the connection was lost behind it, lets `run_alice` go
through a whole contact on a dead connection (`ConnectFails` has both). Rekeying is not part
of this model; what it may do to a connection, namely break it, either end may do at any
time (`AliceLosesLink`, `BobLosesLink`).

**PreambleWire.** The loop of `bucket_window` (`Take`, `Stop`) runs on entries that have an
epoch and bytes; then one of its buckets goes through `encode_transcript` (`Include`,
`Write`), across (`Intact`, `Cut`, `Padded`, `Altered`) and through `decode_transcript`, one
entry per step. The two keep count of header lengths separately, as the code does
(`EntryHeaderLen` of one, `EPOCH + WORD` of the other), and `BucketsGoWhole` says that they
agree.

**PreambleSocket.** `task` is the place in `poll_recv`; each turn of its loop is a readiness
check and a read. `waker`, `ready`, `event` and `coop` are tokio's: the registered waker,
the cached readiness, an event its driver has not seen, the budget of one poll. Fixed are
the kinds of datagram that differ to the code. quinn drops an empty packet itself.

**PreambleSend.** A connection's driver asks its poller, which registers in the socket's one
slot for a writing task, and tries; a full buffer clears tokio's readiness. `send_to` waits
in tokio's list instead. With two connections on the socket the second to block takes the
slot from the first; that one is then polled by its own timers only. Any other error of
`try_send` ends the driver (`TrySendFails`), and of `send_to` the preamble.

**ControlStream.** Bytes in base `BASE`; the writer hands over as many as there is credit
for, the reader takes as many as have come. The connection may be lost at any byte; Bob
aborts his writer when it is (`WriterAborted`), and Alice her reader at the end of a
contact.

**ContactCycles.** An attempt is what Bob can know of a connection: whether it is the one
Alice has now, whether its packets open under his keys, whether the Hello came with it,
whether a close did, whether its Initial authenticates. `incoming` is quinn's queue behind
`accept`. An attempt whose Initial was damaged makes `incoming.accept()?` fail, which ends
`run_bob` for good (`AcceptFails`). Commits are left to `CommitSync`: an attempt begun over
a working link, behind its preamble, has Bob's epoch; any other may or may not. `over` is
the end of the scenario's duration. An idle timeout is silent: the other end learns nothing
of it. `Patient` makes timers go off only when nothing else can happen.

**Handshake.** A secret is its epoch and context (all levels share one label; directions are
kept apart by the pair). quinn-proto's calls come in its own order: the client pins its keys
and exports its early keys when it is created; the server, within `incoming.accept()`, reads
the first flight, makes all three calls of `write_handshake` and exports the early keys; a
side is connected by the first Handshake packet it can open. Every export is a step, so that
`Apply` (Bob's sink) may come between any two. That is more than quinn does: its endpoint's
lock is held over `poll_recv`, and so over the sink, as it is over `Incoming::accept`, and
of the exports made within one call of `accept` no commit comes in between. The lock is
another program's, and nothing in `keys.rs` or `session.rs` asks for it; the properties hold
without it, and what holds of the larger set of behaviours holds of the smaller. What is
lost is sent again, so messages are conditions on the sender's state. Timeouts are left out:
one attempt, which may come to nothing.

**KeyUpdate.** `current`, `next` and `prev` are quinn-proto's three generations,
`end_packet` the packet that tells old ones from new ones. `Commit` and `ForceKeyUpdate` are
the turn of Alice's loop; a side updates, too, on the first packet that opens under its next
keys, and exports the keys after these in two steps. Besides, quinn-proto makes one update
of its own (`RoutineUpdate`): it draws the size of the first key phase, 10 to 999 packets,
when a connection begins, and only from then on asks `confidentiality_limit`, whose
`u64::MAX` puts off all later ones. Either side may make it, or both at once, so that Bob
may lead Alice; the task that drives the connection makes it, so that the sink may move
Bob's group between its two exports. quinn-proto also refuses an update that comes before
its own was acknowledged; leaving this out only adds behaviours. `phases` keeps every pair a
side has exported, in order, and `orderly` records whether, so far, each commit waited until
the update before was over, every packet and preamble came, in order, and neither side
updated by itself; no action depends on either.

**PacketProtection.** Sealing is symbolic: a byte of a sealed payload is its place in it,
and only all of them, unchanged, under the key, nonce and header they were sealed with,
open. Header protection is real: a byte is the set of its bits, the mask is a function of
the sampled bytes, and both orders of unmasking are there. Packet numbers are cut and
expanded as quinn-proto does: `received` is the largest a side has opened, a sender uses
bytes enough for half a window behind what its peer may have acknowledged (`Within`), and
the receiver takes the number of that window which ends in the bytes it read (`Expands`).
One packet is under way at a time, which may come any number of times. `Iv` and `Mask` are
constants: the theorems hold for all of them.

**TlsBaseline.** Of rustls the tickets are modelled: two are sent after a handshake, each is
good once, the client uses the newest. A ticket resumes a session at any age, but the server
takes early data with it only if the age the client gives agrees with its own to 60 s
(`FRESHNESS`). The client counts from the ticket's arrival and its count travels for half a
round trip more, so the two are a round trip apart (`round_trip`, a constant of the
channel), and further when a packet had to be sent again. Below the limit by more than a
second the ticket of a calm link is fresh, above it by more than a second none is, in
between either may be (`Freshness`). The scripts give the client the one-way delay of the
channel as `rtt_ms`, so what `main.rs:181, 195` call two round trips is one, and 2 s; that
is when the tickets come over a link that holds, but one lost packet is enough for them to
come too late (`PacketLost`, `Settle`).

## 3. Runs

| run | configuration | shows | states |
|---|---|---|---|
| `commit_sync` | 4 commits, a budget of 3, 2 per datagram, 2 reports in flight, reports muted at will | `NoUnappliedCommitDropped`, `GroupNeverRefuses`, `ReportsInOrder`, `TruncationIsFatal`, refinement of `CustodyTransfer` | 306,204 |
| `catch_up` | 2 commits, 1 per datagram, reports muted at will, fair | `BobCatchesUp`, `LogDrains`, `LastingContactReports` | 6,004 |
| `resync_doc` | 2 commits in 2 datagrams | violates `ResyncMeansFellOff` (the finding below) | - |
| `preamble_wire` | windows of up to 3 entries of 5 lengths, 4 budgets, 3 sizes of buffer, every cut and every altered byte | `LongestPrefixGoesOut`, `FewestDatagrams`, `BucketsGoWhole`, `WholeOrNotAtAll`, `AcceptedIsThere` | 212,348 |
| `preamble_socket` | batches of 2, a budget of 3, 3 datagrams of any kinds, fair | `EachToItsReader`, `NoLostWakeup`, `EveryDatagramIsRead`, `ErrorSurfaces` | 199,648 |
| `preamble_send` | 2 connections, 2 packets each, 2 windows of 3, a buffer of 2, fair | `EveryPacketLeaves`, `EveryWindowGoesOut` | 24,169 |
| `control_stream` | 3 messages, 3 bytes each at most, credit for 4 | `ReaderInStep`, refinement of `MessageChannel` | 32,622 |
| `contact_cycles` | blackouts, 2 outages, a stray Initial, a queue of 2, patient timers, fair | `OneSessionPerConfig`, `NoAttemptInVain`, `ContactRecurs`, `BobComesBack` | 131,054 |
| `handshake` | epochs 0..3, fair | `ConnectedSidesShareKeys`, `BothCanConnect`, `CaughtUpConnects` | 2,918 |
| `key_update` | 2 commits, 3 packets each way, quinn's own update after 2 | `UpdatesInStep`, `PhasesAreFresh`, `InSyncAfterRekey`, `SplitIsFinal` | 1,256,614 |
| `packet_protection` | 8 payloads, masks of the first byte that differ in every bit, packets 255 and 256 each way, every cut, a damaged byte, reflection | `WholePacketOpens`, `OnlyThePeersOpens`, `NoncesAreFresh`, `FormStaysVisible`, `TagFits` | 209,736 |
| `tls_baseline` | 3 reconnections, round trips of 2 s and 480 s, an outage, a lost packet, with and without resumption, fair | `Comparable`, `AcceptedWasServed`, `TasksEnd` | 195,390 |

No run lists a type invariant: those of the modules with proofs are theorems (`TypeCorrect`,
`LogTypeCorrect`, `SendTypeCorrect`), and in the others TLC would meet an ill-typed value as
an evaluation error.

Bounds. In `commit_sync` four commits and a budget of three, two per datagram, give windows
of two datagrams of different sizes, every overlap of an old and a new window, and windows
that are truncated; the network is a set, so a datagram may be delivered as often as it
likes. Two reports in flight are enough for one to pass a trim by the other. Two commits are
the least with which a window has two datagrams in `catch_up`; three already take minutes.
In `preamble_wire`, lengths are those at which the loop can change its mind: pairs that fit
a datagram to the byte, pairs that are a byte too long, one that fills a datagram, one that
fits none; a damaged length can point past the end, to it, or inside. In `preamble_socket` a
batch of two and three datagrams have a window between packets, a full batch with more to
come, and a budget that runs out in the middle of one; the proofs do away with those bounds.
In `preamble_send` a window does not fit the buffer, so that both kinds of writer block. In
`control_stream` less is in flight than two messages take, and bytes of an epoch look like
tags. In `contact_cycles` two outages are the least with which the retry of a failed attempt
fails too, and a queue of two the least in which the live attempt waits behind a stale one.
In `handshake` one commit would do; in `key_update` the second update is the one that can go
wrong, and two packets instead of 10 to 999 let quinn's own update fall before, between and
behind the rekeys; the proofs do away with it. In `packet_protection` the numbers pass the
limit of a byte, so that a number sent in one byte is smaller than the one before; 255
packets before those are not played, and the proofs begin at any number. In `tls_baseline`
the third reconnection is the first for which the two tickets of the first handshake do not
suffice, and the first that resumes a resumed session after a loss; the round trips are
those of the scripts' channels, rounded (`lunar` and `mars`), on the two sides of the limit.

`CHECK_DEADLOCK FALSE` stands where the program stops: loops end, attempts and the bounded
packets are used up, or the scenario is over. `CommitSync` never stops, and deadlock is
checked there.

### Fairness

* `CommitSync!Fairness`: tasks are scheduled and blackouts are timed, so every loop of
  Alice's goes round (weak fairness); a dead connection runs into Bob's idle timeout. The
  rest is about the channel: a datagram sent again and again arrives some time (strong
  fairness of `Receive`), contacts are made again and again when they can be (`Connect`),
  and last for a report to be written and read. Without that there is nothing to be
  promised; nothing is assumed of commits, mutes or losses. That a contact ends is not
  assumed either, for with `blackout_off` zero none does: `BobCatchesUp` and `LogDrains`
  speak of behaviours in which contacts end (`ContactsEnd`), `LogDrains` of those in which
  reports are no longer muted, and `LastingContactReports` of those with a contact that
  lasts.
* `Handshake!FairSpec`: both sessions run and QUIC retransmits.
* `PreambleSocket!FairSpec`: the runtime polls its driver and a task that was woken.
* `PreambleSend!TimedSpec`: besides, the buffer drains, and a connection that has something
  to send has a timer running (loss detection, idle or close); with one connection no timer
  is needed (`NoneForgotten` below).
* `ControlStream!ControlSpec`: the two tasks run.
* `ContactCycles!FairSpec`: tasks run, the link comes back, and timers that are armed again
  and again go off. `Patient` stands for timeouts (seconds) that are long beside what tasks
  and a working link do; with timers that may win every race nothing is promised, for Alice
  could give up each attempt just before Bob takes it. `NoAttemptInVain` and the two
  liveness properties need it; the invariant is proved without. Idle timeouts are longer
  than `report_timeout`, from which they are computed (`main.rs:291, 419`), so that an
  attempt with a timeout never ends by idling.
* `TlsBaseline!FairSpec`: client and server run, the link comes back.

### What the runs found

`resync_doc`: `group.rs:138` says that a gap in the received epochs means that the peer fell
off the back of the sender's log. `apply_commit_window` also reports `ResyncNeeded` when a
datagram of a window comes before an earlier one of the same window, with every commit still
in the log. Nothing is lost by it (`NoUnappliedCommitDropped`, `BobCatchesUp`): the word is
what is wrong.

Other things worth knowing:

* `TruncationIsFatal` confirms what the test scripts call livelock: when a window exceeds
  the byte budget while out of contact, the same front part is sent for ever.
* `packet_key.rs:70` says that the limit it returns disables QUIC's automatic key rotation.
  It puts off every rotation but the first, whose moment quinn-proto has drawn before it
  asks. Over a connection of more than some hundred packets either side may update before or
  between Alice's rekeys (`RoutineUpdate`). Updates stay in step all the same and secrets
  stay fresh (`UpdatesInStep`, `PhasesAreFresh`), but the two ends may come apart as they do
  over a late preamble.
* `InSyncAfterRekey` is the comment of `tests/loopback.rs:218` under the discipline the test
  keeps (`orderly`). Without it the two sides do come apart: each derives the keys after the
  *next* update at its own moment, Alice at `force_key_update`, Bob at the first packet of
  the new phase. If the preamble is late, or is applied between Bob's two exports, or a
  second commit has come by then, their next keys differ though both have updated as often
  and all commits are applied. `SplitIsFinal` says that the connection cannot recover,
  `FirstUpdateCarries` (proved) that it shows at the second update at the earliest.
* `BothCanConnect` says that Bob is connected only if Alice can be: she may still have to
  read his Handshake packet, but it will open. The converse needs the endpoint's lock
  (section 2, **Handshake**).
* A damaged Initial ends `run_bob`, and with it every later contact (`AcceptFails`).
* `Comparable` says of the baseline that a channel of long delay has no 0-RTT at all: over
  that to Mars, 480 s there and back, the server refuses all early data, since the two ages
  of a ticket never agree to 60 s. The record then says `0rtt` with `zero_rtt_accepted`
  false, and its `handshake_ms` was taken before the answer. The recorded results fit the
  model: four of `tls-baseline-results/20260730-*`, two on `leo` and those of 14:15 on `geo`
  and `lunar`, say 0-RTT of the first two reconnections and `full-1rtt` from the third on,
  that is, they spend the two tickets of the first handshake and get no others, as a client
  does that closes before they come (`SettleAtOnce`; they were made before the wait at
  `main.rs:195`, or with one too short); those of the night before and `20260731-*` of the
  testbed's directory say 0-RTT of all. The one to Mars (`20260730-125719-mars`) has
  `full-1rtt` for its reconnection: no ticket had come; no record of the repository has a
  0-RTT to Mars.
* Two connections on one socket (a new one while an abandoned one is closing) share one
  waker slot, and the loser of it is woken by its timers only.

## 4. Proofs

Every theorem holds for every value of the constants, under the `ASSUME` of its module,
which states the types of the constants and that batches, datagrams, buffers and queues hold
at least one; further hypotheses are in the statement. The layout is the same everywhere: an
invariant `Inv` of named parts, `InvStarts`, a lemma per action or group of actions,
`InvKept`, `InvHolds`, and the theorems from it.

| module | theorem | says |
|---|---|---|
| `CommitSync_proofs` | `LogIsWhole`, `LogTypeCorrect`, `LogReplays` | the log is the window after the checkpoint and replays into the group, under any commits and any reports (of `CommitLog` alone) |
| | `TypeCorrect`, `NoCommitLost`, `GroupAccepts`, `ReportsOrdered`, `TruncationFatal`, `ImplementsCustody` | the safety properties of `commit_sync`, and the refinement |
| `PreambleSocket_proofs` | `TypeCorrect`, `NeverSleepsOverWork`, `EachIsDelivered` | `NoLostWakeup`, `EachToItsReader` |
| | `SendTypeCorrect`, `WholePreamblesCounted`, `SendToHearsOfRoom`, `NoneForgotten` | `CountsWholePreambles`, which no run checks; `send_preamble` never waits unheard; with one connection no writer does |
| `ContactCycles_proofs` | `TypeCorrect`, `ConfigsServeOnce` | `OneSessionPerConfig`, whatever timers do |
| `Handshake_proofs` | `TypeCorrect`, `KeysShared`, `AliceCanConnect` | `ConnectedSidesShareKeys`, `BothCanConnect` |
| `KeyUpdate_proofs` | `TypeCorrect`, `InStep`, `FirstCarries`, `FreshPhases`, `SplitsAreFinal`, `RekeysInSync` | `UpdatesInStep`, `FirstUpdateCarries`, `PhasesAreFresh`, `SplitIsFinal`, `InSyncAfterRekey` |
| `PacketProtection_proofs` | `NoncesDiffer`, `HeaderRoundTrip`, `NoncesStayFresh`, `FormAlwaysVisible`, `TagAlwaysFits`, `PeersPacketsOpen`, `OnlyPeersPacketsOpen` | nonces, header protection, `NoncesAreFresh`, `FormStaysVisible`, `TagFits`, `WholePacketOpens`, `OnlyThePeersOpens` |
| `TlsBaseline_proofs` | `RecordsCompare`, `NoSuccessUnserved` | `Comparable`, `AcceptedWasServed` |
| `Wire_proofs` | `DecodesWhatFits`, `ReaderKeepsStep`, `ChannelKept` | decoding a number gives back what was encoded; `ReaderInStep`; every step of the stream is one of `MessageChannel` or none |
| | `SendsLongestPrefix`, `NoneWasted`, `WholeBucketsGo`, `AcceptsWhatIsThere`, `AllOrNothing` | `LongestPrefixGoesOut`, `FewestDatagrams`, `BucketsGoWhole` if the two files agree on the lengths of the headers, `AcceptedIsThere`, `WholeOrNotAtAll` |

**CommitSync.** A commit is dropped only for a report, so the epochs must be ordered along
the chain by which they are copied: `checkpoint <= epoch <= watched <= local_epoch <=
current_epoch`, with every report under way between the first two and in order (`Progress`,
`Reports`). `NoUnappliedCommitDropped` alone is not inductive: it says nothing of a value on
its way. That a datagram never makes the group refuse needs `Numbering` (Bob's MLS epoch is
`Base` and his count) and `AllSent` (every entry of every datagram, out or still to be sent,
carries the commit its number gives), which `LogReplaysTheGroup` feeds. The last conjunct of
`Progress`, `local_epoch <= checkpoint + Budget`, holds because a window starts at a
checkpoint that can only move on; it is what `TruncationFatal` needs: Bob cannot reach
Alice's epoch, so no contact is made and no report comes. `Links` says that no report is
under way to an end that is gone.

**PreambleSocket.** `NoLostWakeup` speaks of the parked task only. `Announced` says it of
every state: if something is there to be read and tokio does not hold the socket ready, an
event is on its way; `Rests` says what the steps before parking have registered. `Delivered`
splits what has been taken into what is due to quinn and to the sink.

**PreambleSend.** `RoomAnnounced` and `Waits` say that room without readiness has an event
on its way and that `send_to` waits only without readiness. `Registered`, for
`NoneForgotten`, is true of one connection only: its hypothesis is that any two are the
same. The testbed has one but for the moments when an abandoned one is closing; for those
`preamble_send` checks liveness.

**ContactCycles.** The invariant is the types and `Fresh`: the config is whole whenever Bob
is at accept. Timers are taken with or without `Patient`, so the theorems cover timers that
go off at any moment.

**Handshake.** Bob's exports come in a fixed order while his group only moves on
(`Growing`), so epochs of his keys grow along it; what Alice has pinned is of one epoch
(`OneEpoch`); so if an export made late agrees with hers, those made earlier and in between
do too (`Settled`). `Stage` ties the keys a session has, and the exports it has still to
make, to its `HsState`.

**KeyUpdate.** `UpdatesInStep` depends on the packets on their way: an update of one's own
needs the previous keys discarded, which needs a packet of the other's new phase.
`SentBehind`, `MayUpdate`, `AwaitsAnswer` and `Paid` carry that through packets of both
sides, whichever leads; `BobLeadsOnce` says that it is Bob after the first update only, for
from then on nothing but a packet of Alice's makes him update. `FreshPhases` is about the
whole history (`phases`): `Numbered` gives the pair at each place of it a generation of its
own. `Consecutive` numbers the generations, `Prepared` the first of them. `SplitsAreFinal`
needs more than counting, and `Together` says it: a packet that opens shows its receiver one
direction of the keys it was sent under (`SentUnder`), so by the time Alice may rekey both
sides share their current keys (`FromAlice`, `Answered`) and a split, if there is one, lies
in the keys the update is about to make current (`Differ`, `SplitShows`). `RekeysInSync` is
about the opposite, an orderly course (`Ordered`): only Alice leads (`AliceLeads`), she has
rekeyed once for each commit (`PaidInFull`), every commit is applied or on its way
(`NoneLost`), all she sends in a new phase is of one epoch (`OfOneEpoch`), and the keys she
has, or has ahead of Bob, are his (`InSync`, and `HalfWay` when he has exported half of an
update).

**PacketProtection.** `NoncesDiffer` is injectivity of xor with an IV. `HeaderRoundTrip` is
that a receiver finds the sample, the mask and so the length of the packet number from the
masked header alone. `NoncesStayFresh` assumes what is true of HKDF and of eight bytes: an
IV is at least as long as a packet number, and the numbers in use differ in their bytes.
`PeersPacketsOpen` has no such hypothesis. `Counted` says that what a side has received is
behind what the other seals next, and what is under way within half a window of it; of all
numbers within a window around the one expected, only one ends in the bytes that were sent
(`WindowTells`, `NumberReadBack`), so the receiver finds it, whatever it is. For what opens,
every byte under seal remembers the key, nonce, header and place it was sealed with,
whatever was done to the packet since; opening compares them all.

**TlsBaseline.** A record is settled long before it is made: `SessionsHeld` says that every
ticket the client has, or that is on its way, still has its session at the server, `Outcome`
what the handshake under way will be recorded as, with the ticket's freshness, `AtHand` that
without outage or loss there is a ticket for every reconnection. `Serving` and `Connection`
relate the two programs, `Recorded` counts.

**ControlStream.** Numbers are computed by recursive functions. `UpTo`, an induction over
the natural numbers for a set of them, gives each its recursion equation, and with it the
decoding of what was encoded and the concatenation of encodings. The invariant names the
messages still to come and the bytes of theirs that are not in the stream yet (`Ahead`,
`OnTheWay`), and what of a report has been read (`MidReport`); so the reader always finds a
tag where a message begins.

**PreambleWire.** `WireConstants` says what the types say: bytes are bytes, an epoch fits
its field, and no datagram is longer than a count of bytes can tell. Of the buckets,
`Gathered` is that what has been taken is the front of the window and is what was counted,
`Sized` that every bucket holds. For `NoneWasted`, compare with any other cut that has come
as far (`CutsTo`): it has cut before the start of the bucket being filled at least as often
as the loop has (`NoBetter`). A bucket is closed because it and the next entry do not fit
one datagram, so that any other cut has an end among its entries too. Of the transcript,
`ReadSoFar` is that encoding what came out gives the bytes read, for any datagram at all;
`InStep` that for one that is not altered this is the front of the bucket; `Countable` that
every number written has bytes enough, which is what decoding needs. That preamble.rs and
transcript.rs have the same header lengths (`LengthsAgree`) is the hypothesis of
`WholeBucketsGo` alone; the run gives the two constants equal values, as the code does.

In tlapm 1.4.5 one of the facts about `Len` that go to the SMT solver is too strong (it lets
a length tell the domain of anything at all). Every leaf that is given it was also proved
with that fact restricted to sequences.

Only model-checked is

* liveness, which needs fairness and ENABLED: `BobCatchesUp`, `LogDrains`,
  `LastingContactReports`, `EveryDatagramIsRead`, `ErrorSurfaces`, `EveryPacketLeaves`,
  `EveryWindowGoesOut`, `ContactRecurs`, `BobComesBack`, `CaughtUpConnects`, `TasksEnd`, and
  of `ImplementsChannel` that each message is delivered;
* `NoAttemptInVain`, which rests on `Patient`, and so on ENABLED.

## 5. Not modelled

* Cryptographic primitives: AES, GCM, HKDF and the exporter are injective or opaque
  functions. `retry.rs` is one call of them, without state.
* quinn-proto, tokio and rustls beyond the steps above, which are marked external in
  `PROJECT.json`; the encoding of transport parameters.
* Telemetry, argument parsing and the bootstrap through files, whose outcome is the initial
  state of `CommitSync`. `app_ping` of the baseline, which nothing calls.
* `apply_commit` on a `CommitLog`, which nothing calls, and a `create_commit` that fails
  after the group has moved on: the testbed unwraps it.
* echo-server, echo-client and mls-demo are straight-line demonstrations; the channel
  scripts and `securityBudget.py` set up network emulation and evaluate results offline.
* `ContactCycles` and `CommitSync` are not composed: the one leaves commits out and the
  other timers, and each allows what the other may do to it (`keyed` free after an outage;
  `ConnectFails`, `AliceLosesLink`, `BobLosesLink` at any time).

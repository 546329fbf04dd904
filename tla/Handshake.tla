------------------------------ MODULE Handshake ------------------------------
(***************************************************************************)
(* One 0-RTT connection attempt of the testbed: two MlsSessions            *)
(* (quic-mls/src/session.rs), driven by quinn-proto in the order it asks   *)
(* for keys, over two MLS groups.  Alice, the client, does not commit      *)
(* while she connects; Bob's sink may apply commits between any two of his *)
(* export_secret calls, for each takes the group's lock by itself          *)
(* (group.rs:49-52).  In the testbed it cannot do so within one            *)
(* Incoming::accept, for quinn's endpoint has its lock both there and      *)
(* while it calls the sink; the sessions are shown not to depend on that.  *)
(*                                                                         *)
(* Every level of keys is exported under one label, "0-rtt": what tells    *)
(* secrets apart is their direction, the MLS epoch and the context.  QUIC  *)
(* repeats what is lost, so what was sent can be received from then on.    *)
(***************************************************************************)
EXTENDS Integers, Sequences

CONSTANTS MaxEpoch      \* bound on the commits created

ASSUME HandshakeConstants == MaxEpoch \in Nat

Sides      == {"Client", "Server"}
Peer(s)    == IF s = "Client" THEN "Server" ELSE "Client"
Directions == {"c2s", "s2c"}
Levels     == {"upgrade", "zero_rtt", "next", "early"}

Secrets == [epoch : 0..MaxEpoch, context : {"", "1"}]
None    == [epoch |-> -1, context |-> ""]

VARIABLES
    group,        \* MLS epoch of each side's group
    state,        \* HsState
    peer_params,  \* have the peer's transport parameters been read?
    keys,         \* secrets exported so far, by level and direction
    job,          \* exports the call under way has yet to make, in order
    connected     \* has quinn-proto reported the connection?

vars == <<group, state, peer_params, keys, job, connected>>

Idle(s)        == job[s] = <<>>
Has(s, level)  == Idle(s) /\ keys[s][level]["c2s"] # None

\* What is on its way: the first flight once early_crypto has been asked for, the
\* Handshake packets once the whole answer has been worked out.
InitialSent(s)   == Has(s, "early")
HandshakeSent(s) == Has(s, "early") /\ Has(s, "next")

-----------------------------------------------------------------------------
Init ==
    /\ \E a, b \in 0..MaxEpoch :
          b <= a /\ group = [s \in Sides |-> IF s = "Client" THEN a ELSE b]
    /\ state = [s \in Sides |-> "Initial"]
    /\ peer_params = [s \in Sides |-> FALSE]
    /\ keys = [s \in Sides |-> [l \in Levels |-> [d \in Directions |-> None]]]
    /\ job = [s \in Sides |-> <<>>]
    /\ connected = [s \in Sides |-> FALSE]

\* derive_mls_keys exports one direction after the other.
\* Slip: in the other order.
DeriveServerFirst(level) == <<<<level, "s2c">>, <<level, "c2s">>>>
Derive(level) == <<<<level, "c2s">>, <<level, "s2c">>>>

\* next_1rtt_keys counts its calls; the count is its context.
Context(level) == IF level = "next" THEN "1" ELSE ""

\* export_secret, under the group's lock.
ExportSecret(s) ==
    /\ ~Idle(s)
    /\ LET level == Head(job[s])[1]
           dir   == Head(job[s])[2]
       IN  keys' = [keys EXCEPT ![s][level][dir] =
                        [epoch |-> group[s], context |-> Context(level)]]
    /\ job' = [job EXCEPT ![s] = Tail(@)]
    /\ UNCHANGED <<group, state, peer_params, connected>>

\* A call of write_handshake in state `from`, which goes on to `to` and derives.
WriteHandshake(s, from, to, derive) ==
    /\ Idle(s)
    /\ state[s] = from
    /\ state' = [state EXCEPT ![s] = to]
    /\ job' = [job EXCEPT ![s] = derive]
    /\ UNCHANGED <<group, peer_params, keys, connected>>

\* The first call pins the keys of both levels.  The client makes it when it is
\* created, the server once it has read the client's first flight.
\* Slip: the keys of the later level are pinned first.
PinLaterFirst(s) ==
    /\ s = "Server" => peer_params[s]
    /\ WriteHandshake(s, "Initial", "AwaitingZeroRttKeys",
                      Derive("zero_rtt") \o Derive("upgrade"))
Pin(s) ==
    /\ s = "Server" => peer_params[s]
    /\ WriteHandshake(s, "Initial", "AwaitingZeroRttKeys",
                      Derive("upgrade") \o Derive("zero_rtt"))

\* The second call hands over the Handshake keys, not before the peer is known.
TakeUpgrade(s) ==
    /\ peer_params[s]
    /\ WriteHandshake(s, "AwaitingZeroRttKeys", "ConfirmingZeroRttKeys", <<>>)

\* The third hands over the Data keys, upon which quinn-proto has next_1rtt_keys
\* prepare the first key update.  Slip: the session is not done then.
TakeNotDone(s) ==
    WriteHandshake(s, "ConfirmingZeroRttKeys", "ConfirmingZeroRttKeys", Derive("next"))
TakeZeroRtt(s) ==
    WriteHandshake(s, "ConfirmingZeroRttKeys", "Done", Derive("next"))

\* early_crypto: asked for by the client when it is created, by the server after it
\* has written its answer.
EarlyCrypto(s) ==
    /\ Idle(s) /\ ~Has(s, "early")
    /\ IF s = "Client" THEN state[s] = "AwaitingZeroRttKeys" ELSE state[s] = "Done"
    /\ job' = [job EXCEPT ![s] = Derive("early")]
    /\ UNCHANGED <<group, state, peer_params, keys, connected>>

\* read_handshake of the peer's first flight, under keys that need no group.
ReadInitial(s) ==
    /\ InitialSent(Peer(s))
    /\ ~peer_params[s]
    /\ peer_params' = [peer_params EXCEPT ![s] = TRUE]
    /\ UNCHANGED <<group, state, keys, job, connected>>

Incoming(s) == IF s = "Client" THEN "s2c" ELSE "c2s"

Agree(level, d) == keys["Client"][level][d] = keys["Server"][level][d]

\* Both sides have sent Handshake packets, and those of the other open at s.
CanConnect(s) ==
    /\ HandshakeSent(Peer(s)) /\ HandshakeSent(s)
    /\ state[s] = "Done"
    /\ Agree("upgrade", Incoming(s))

\* quinn-proto reports the connection upon the first Handshake packet it can decrypt.
ReadHandshake(s) ==
    /\ CanConnect(s)
    /\ ~connected[s]
    /\ connected' = [connected EXCEPT ![s] = TRUE]
    /\ UNCHANGED <<group, state, peer_params, keys, job>>

\* run_alice commits once she is connected.
Commit ==
    /\ connected["Client"]
    /\ group["Client"] < MaxEpoch
    /\ group' = [group EXCEPT !["Client"] = @ + 1]
    /\ UNCHANGED <<state, peer_params, keys, job, connected>>

\* Bob's sink applies a window, of commits created before.
Apply ==
    /\ \E e \in (group["Server"] + 1)..group["Client"] :
          group' = [group EXCEPT !["Server"] = e]
    /\ UNCHANGED <<state, peer_params, keys, job, connected>>

SessionStep(s) ==
    \/ Pin(s) \/ TakeUpgrade(s) \/ TakeZeroRtt(s) \/ EarlyCrypto(s) \/ ExportSecret(s)
    \/ ReadInitial(s) \/ ReadHandshake(s)

Next == (\E s \in Sides : SessionStep(s)) \/ Commit \/ Apply

Spec == Init /\ [][Next]_vars

\* Both tasks run, and QUIC retransmits until the peer has answered.
FairSpec == Spec /\ \A s \in Sides : WF_vars(SessionStep(s))

-----------------------------------------------------------------------------
\* Types; and a session that is done has read its peer's parameters and, once the
\* call is over, prepared the first key update (session.rs:129-141).
TypeOK ==
    /\ group \in [Sides -> 0..MaxEpoch]
    /\ state \in [Sides -> {"Initial", "AwaitingZeroRttKeys", "ConfirmingZeroRttKeys", "Done"}]
    /\ peer_params \in [Sides -> BOOLEAN]
    /\ keys \in [Sides -> [Levels -> [Directions -> Secrets \cup {None}]]]
    /\ job \in [Sides -> Seq(Levels \X Directions)]
    /\ connected \in [Sides -> BOOLEAN]
    /\ group["Server"] <= group["Client"]
    /\ \A s \in Sides : state[s] = "Done" => peer_params[s] /\ (Idle(s) => Has(s, "next"))

\* Whoever takes the connection for established holds, for all that will go over it,
\* the keys its peer holds: those for the Hello that came with the first flight, for
\* the data, and for the first key update.  Bob exports them one by one and his group
\* may move on meanwhile; it is the order of the exports that makes the first to
\* agree vouch for the others (session.rs:120-143, 161-168).
ConnectedSidesShareKeys ==
    \A s \in Sides : connected[s] =>
        \A level \in {"zero_rtt", "next", "early"}, d \in Directions : Agree(level, d)

\* When Bob takes the connection for established nothing keeps Alice from doing so but
\* the arrival of his Handshake packets: they are sent, her session is done, and they
\* open under the s2c key she pinned, which he exported after the c2s key that opened
\* hers (keys.rs:59-60).
BothCanConnect == connected["Server"] => \A s \in Sides : CanConnect(s)

\* A group that has caught up before the first export connects, both ways.
CaughtUpConnects ==
    [](/\ group["Server"] = group["Client"]
       /\ state["Server"] = "Initial"
       => <>(connected["Client"] /\ connected["Server"]))
=============================================================================

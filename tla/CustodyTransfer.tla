-------------------------- MODULE CustodyTransfer --------------------------
(***************************************************************************)
(* What commit propagation promises, whatever the channel does: the DTN    *)
(* custody-transfer pattern that preamble.rs names as the design of the    *)
(* commit log.  One party commits MLS epochs, the other applies them in    *)
(* order, and the first lets go of a commit only when the second has       *)
(* applied it.  Epochs are numbered from 1, so three counters say it all.  *)
(***************************************************************************)
EXTENDS Naturals

VARIABLES
    committed,   \* epochs 1..committed exist
    applied,     \* epochs 1..applied are in the peer's group
    released     \* epochs 1..released are no longer kept for retransmission

vars == <<committed, applied, released>>

Init == committed = 0 /\ applied = 0 /\ released = 0

Commit ==
    /\ committed' = committed + 1
    /\ UNCHANGED <<applied, released>>

\* One datagram may bring several epochs at once.
Apply ==
    /\ \E e \in (applied + 1)..committed : applied' = e
    /\ UNCHANGED <<committed, released>>

\* A report covers every epoch up to the one it names.
Release ==
    /\ \E e \in (released + 1)..applied : released' = e
    /\ UNCHANGED <<committed, applied>>

Next == Commit \/ Apply \/ Release

Spec == Init /\ [][Next]_vars

\* Custody is never given up before the peer has taken it.
Custody == released <= applied /\ applied <= committed
=============================================================================

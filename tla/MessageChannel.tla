---------------------------- MODULE MessageChannel ----------------------------
(***************************************************************************)
(* What the control stream promises to run_report_receiver: the messages   *)
(* written, whole and in their order, until the connection ends, and       *)
(* nothing else.                                                           *)
(***************************************************************************)
EXTENDS Naturals, Sequences

CONSTANT Messages

VARIABLES
    sent,        \* messages given to the stream, in order
    received,    \* messages taken from it
    broken       \* the stream has ended, at either side or on its way

vars == <<sent, received, broken>>

Init == sent = <<>> /\ received = <<>> /\ broken = FALSE

\* Also when the stream has ended at the other side: the writer may not have heard.
Send(msg) ==
    /\ sent' = Append(sent, msg)
    /\ UNCHANGED <<received, broken>>

Receive ==
    /\ Len(received) < Len(sent)
    /\ received' = Append(received, sent[Len(received) + 1])
    /\ UNCHANGED <<sent, broken>>

Break ==
    /\ broken' = TRUE
    /\ UNCHANGED <<sent, received>>

Next == (\E msg \in Messages : Send(msg)) \/ Receive \/ Break

\* A stream that is not broken delivers.
Spec == Init /\ [][Next]_vars /\ WF_vars(Receive /\ ~broken)
=============================================================================

---------------------------- MODULE PacketStream ----------------------------
(***************************************************************************)
(* What one report promises to the transfer thread (the "agent") that      *)
(* fills it and to the reporter thread that prints it: a bounded FIFO of   *)
(* packets that is closed once, drained, ended by the agent, and only then *)
(* freed by the reporter.  Packets are counted, never stored: the k-th     *)
(* packet put in has packet ID k - 1, the closing one has ID -1, and a     *)
(* take must deliver exactly the packet that is next.                      *)
(***************************************************************************)
EXTENDS Integers

CONSTANT Capacity   \* the most packets put in and not yet taken out, at least one

VARIABLES
    put,        \* packets put in by the agent, the closing one included
    got,        \* packets taken out by the reporter
    last,       \* packet ID of the latest packet taken out
    status      \* life of the report

vars == <<put, got, last, status>>

NoPacket == -2      \* nothing has been taken out yet
ClosingID == -1     \* packet ID that "ends reporting"
Statuses == {"open", "closed", "ended", "freed"}

\* Packet ID of the k-th packet, when p packets were put in and s is the status.
PacketAt(k, p, s) == IF s # "open" /\ k = p THEN ClosingID ELSE k - 1

TypeOK ==
    /\ put \in Nat
    /\ got \in 0 .. put
    /\ last \in Nat \cup {NoPacket, ClosingID}
    /\ status \in Statuses

Init ==
    /\ put = 0
    /\ got = 0
    /\ last = NoPacket
    /\ status = "open"

Put ==
    /\ status = "open"
    /\ put - got < Capacity
    /\ put' = put + 1
    /\ UNCHANGED <<got, last, status>>

Close ==
    /\ status = "open"
    /\ put - got < Capacity
    /\ put' = put + 1
    /\ status' = "closed"
    /\ UNCHANGED <<got, last>>

Take ==
    /\ status \in {"open", "closed"}
    /\ got < put
    /\ got' = got + 1
    /\ last' = PacketAt(got + 1, put, status)
    /\ UNCHANGED <<put, status>>

\* The agent lets go of the report, but not before everything was taken out.
End ==
    /\ status = "closed"
    /\ got = put
    /\ status' = "ended"
    /\ UNCHANGED <<put, got, last>>

Free ==
    /\ status = "ended"
    /\ status' = "freed"
    /\ UNCHANGED <<put, got, last>>

Next == Put \/ Close \/ Take \/ End \/ Free

Spec == Init /\ [][Next]_vars
=============================================================================

------------------------------- MODULE UdpFin -------------------------------
(***************************************************************************)
(* The end of a UDP test.  The client numbers its datagrams 0, 1, ... and  *)
(* then sends a closing one with a negative number, every quarter of a     *)
(* second until an acknowledgement comes or it has tried FinTries times.   *)
(* The listener starts a server for the first datagram of a peer it does   *)
(* not know, without a word about that datagram to the statistics.  The    *)
(* server counts datagrams up to the closing one, acknowledges it, and     *)
(* acknowledges again whatever comes within a second.                      *)
(*                                                                         *)
(* The network loses, delays, reorders and duplicates datagrams.  Time     *)
(* goes in ticks of a quarter of a second; a datagram that is not lost     *)
(* arrives within Lifetime ticks, and threads react within a tick.  Equal  *)
(* acknowledgements of one tick are one: the client reads the first only.  *)
(* Statistics are complete when the server acknowledges, as ReportRing     *)
(* shows (StatisticsComplete).                                             *)
(***************************************************************************)
EXTENDS Integers, FiniteSets

CONSTANTS
    MaxData,        \* bound on the datagrams of the test
    FinTries,       \* tries of write_UDP_FIN, 10
    AckTries,       \* tries of write_UDP_AckFIN, 10
    AckWait,        \* ticks the server waits after an acknowledgement, a second
    Lifetime,       \* ticks a datagram may be on its way
    MaxLosses,      \* bound on the datagrams the network loses
    MaxCopies       \* bound on those it delivers twice

ASSUME BoundsAssumption ==
    /\ {MaxData, FinTries, AckTries, AckWait} \subseteq Nat \ {0}
    /\ {Lifetime, MaxLosses, MaxCopies} \subseteq Nat

VARIABLES
    toServer,       \* datagrams on their way to the server's port
    toClient,       \* ages of the acknowledgements on their way to the client
    losses, copies, \* what the network has done so far
    sent,           \* datagrams the client has sent, its packetID
    finID,          \* packet ID of the closing datagram, before it is negated
    tries,          \* how often the client has sent it
    cpc,            \* where the client is
    due,            \* its quarter of a second is over
    acked,          \* it has received an acknowledgement
    servers,        \* servers the listener has started
    spc,            \* where the server is, "none": the listener has the port
    waited,         \* ticks since the server's last acknowledgement
    acks,           \* acknowledgements it has sent
    stats,          \* its counters, see reporter_handle_packet
    info,           \* the result it reports
    heard, twice    \* numbers it has counted, and whether one came again

network == <<toServer, toClient, losses, copies>>
client == <<sent, finID, tries, cpc, due, acked>>
results == <<stats, info, heard, twice>>
server == <<servers, spc, waited, acks, results>>
vars == <<network, client, server>>

MaxServers == 2     \* bound on the servers started: the one expected and another

NoStats == [PacketID |-> 0, cntError |-> 0, cntOutofOrder |-> 0]

Init ==
    /\ toServer = {} /\ toClient = {}
    /\ losses = 0 /\ copies = 0
    /\ sent = 0 /\ finID = 0 /\ tries = 0
    /\ cpc = "data" /\ due = FALSE /\ acked = FALSE
    /\ servers = 0 /\ spc = "none" /\ waited = 0 /\ acks = 0
    /\ stats = NoStats /\ info = NoStats
    /\ heard = {} /\ twice = FALSE

-----------------------------------------------------------------------------
(* The client.                                                             *)

Datagram(id) == [id |-> id, age |-> 0]

SendData ==
    /\ cpc = "data"
    /\ sent < MaxData
    /\ sent' = sent + 1
    /\ toServer' = toServer \cup {Datagram(sent)}
    /\ UNCHANGED <<toClient, losses, copies, finID, tries, cpc, due, acked, server>>

\* CloseReport leaves the reporter's running count in packetID: anything from
\* nothing handled to all handled, the packet that ends the report included.
CloseReport ==
    /\ cpc = "data"
    /\ sent > 0
    /\ finID' \in 0 .. sent + 1
    /\ cpc' = "fin"
    /\ UNCHANGED <<network, sent, tries, due, acked, server>>

\* A turn of write_UDP_FIN's loop, or its end after the last one.
write_UDP_FIN ==
    /\ cpc = "fin" \/ (cpc = "wait" /\ due)
    /\ IF tries < FinTries
       THEN /\ toServer' = toServer \cup {Datagram(-finID)}
            /\ tries' = tries + 1
            /\ cpc' = "wait"
            /\ UNCHANGED toClient
       ELSE cpc' = "done" /\ toClient' = {} /\ UNCHANGED <<toServer, tries>>
    /\ due' = FALSE
    /\ UNCHANGED <<losses, copies, sent, finID, acked, server>>

\* The first acknowledgement will do; with the client's socket the others go.
ReadAck ==
    /\ cpc = "wait"
    /\ toClient # {}
    /\ toClient' = {}
    /\ acked' = TRUE
    /\ cpc' = "done"
    /\ due' = FALSE
    /\ UNCHANGED <<toServer, losses, copies, sent, finID, tries, server>>

Client == SendData \/ CloseReport \/ write_UDP_FIN \/ ReadAck

-----------------------------------------------------------------------------
(* The listener and the server.  m is the datagram that is read.           *)

\* A negative number starts no server.
Accept(m) ==
    /\ spc = "none"
    /\ IF m.id >= 0 /\ servers < MaxServers
       THEN /\ servers' = servers + 1
            /\ spc' = "recv"
            /\ stats' = NoStats /\ heard' = {} /\ twice' = FALSE
       ELSE UNCHANGED <<servers, spc, stats, heard, twice>>
    /\ UNCHANGED <<waited, acks, info>>

\* Mutant: a datagram out of order takes the number back.
CountDatagramBack(s, id) ==
    [PacketID |-> IF id # 0 THEN id ELSE s.PacketID,
     cntError |-> IF id > s.PacketID + 1 THEN s.cntError + id - s.PacketID - 1 ELSE s.cntError,
     cntOutofOrder |-> IF id # 0 /\ id <= s.PacketID THEN s.cntOutofOrder + 1
                       ELSE s.cntOutofOrder]

\* reporter_handle_packet: numbers passed over are losses, numbers that do not
\* go up are out of order; number 0 has no part in this.
CountDatagram(s, id) ==
    [PacketID |-> IF id > s.PacketID THEN id ELSE s.PacketID,
     cntError |-> IF id > s.PacketID + 1 THEN s.cntError + id - s.PacketID - 1 ELSE s.cntError,
     cntOutofOrder |-> IF id # 0 /\ id <= s.PacketID THEN s.cntOutofOrder + 1
                       ELSE s.cntOutofOrder]

\* reporter_condprintstats at the end of the test.
FinalStats(s) ==
    [s EXCEPT !.cntError = IF @ > s.cntOutofOrder THEN @ - s.cntOutofOrder ELSE @]

\* Mutant: the number's sign is looked at after it has been taken off.
RunUnsigned(m) ==
    /\ spc = "recv"
    /\ LET id == IF m.id < 0 THEN -m.id ELSE m.id
       IN  /\ stats' = CountDatagram(stats, id)
           /\ heard' = heard \cup {id}
           /\ twice' = (twice \/ id \in heard)
    /\ UNCHANGED <<servers, info, spc, waited, acks>>

\* Server::Run: the closing datagram counts with its number's sign taken off,
\* then CloseReport.
Run(m) ==
    /\ spc = "recv"
    /\ LET id == IF m.id < 0 THEN -m.id ELSE m.id
       IN  /\ stats' = CountDatagram(stats, id)
           /\ heard' = heard \cup {id}
           /\ twice' = (twice \/ id \in heard)
    /\ IF m.id < 0
       THEN spc' = "ack" /\ acks' = 0 /\ info' = FinalStats(stats')
       ELSE UNCHANGED <<spc, acks, info>>
    /\ UNCHANGED <<servers, waited>>

\* Mutant: what comes after the acknowledgement is read and forgotten.
ReadAgainSilently(m) ==
    /\ spc = "wait"
    /\ UNCHANGED server

\* Another datagram after the acknowledgement: once more.
ReadAgain(m) ==
    /\ spc = "wait"
    /\ spc' = "ack"
    /\ UNCHANGED <<servers, waited, acks, results>>

\* Whoever has the port reads a datagram; the network may keep a copy.
ReadDatagram ==
    \E m \in toServer :
        /\ Accept(m) \/ Run(m) \/ ReadAgain(m)
        /\ \/ toServer' = toServer \ {m} /\ UNCHANGED copies
           \/ copies < MaxCopies /\ copies' = copies + 1 /\ UNCHANGED toServer
        /\ UNCHANGED <<toClient, losses, client>>

\* A turn of write_UDP_AckFIN's loop, or its end after the last one; then the
\* peer is forgotten, EndReport, and the socket is closed.
write_UDP_AckFIN ==
    /\ spc = "ack"
    /\ IF acks < AckTries
       THEN /\ toClient' = IF cpc = "done" THEN toClient ELSE toClient \cup {0}
            /\ acks' = acks + 1
            /\ waited' = 0
            /\ spc' = "wait"
       ELSE spc' = "none" /\ UNCHANGED <<toClient, acks, waited>>
    /\ UNCHANGED <<toServer, losses, copies, client, servers, results>>

\* Mutant: the server goes at the client's pace, after a quarter of a second.
AckTimeoutEarly ==
    /\ spc = "wait"
    /\ waited > 0
    /\ spc' = "none"
    /\ UNCHANGED <<network, client, servers, waited, acks, results>>

\* select timed out
AckTimeout ==
    /\ spc = "wait"
    /\ waited = AckWait
    /\ spc' = "none"
    /\ UNCHANGED <<network, client, servers, waited, acks, results>>

Server == write_UDP_AckFIN \/ AckTimeout

-----------------------------------------------------------------------------
(* The network and time.                                                   *)

Lose ==
    /\ losses < MaxLosses
    /\ losses' = losses + 1
    /\ \/ \E m \in toServer : toServer' = toServer \ {m} /\ UNCHANGED toClient
       \/ \E age \in toClient : toClient' = toClient \ {age} /\ UNCHANGED toServer
    /\ UNCHANGED <<copies, client, server>>

\* Nothing is overdue: no thread has a step to make, no datagram to arrive.
Quiet ==
    /\ cpc # "fin" /\ ~due
    /\ spc # "ack" /\ ~(spc = "wait" /\ waited = AckWait)
    /\ \A m \in toServer : m.age < Lifetime
    /\ \A age \in toClient : age < Lifetime

Tick ==
    /\ Quiet
    /\ toServer' = {[m EXCEPT !.age = @ + 1] : m \in toServer}
    /\ toClient' = {age + 1 : age \in toClient}
    /\ due' = (cpc = "wait")
    /\ waited' = IF spc = "wait" THEN waited + 1 ELSE waited
    /\ UNCHANGED <<losses, copies, sent, finID, tries, cpc, acked, servers, spc, acks, results>>

-----------------------------------------------------------------------------
Over == cpc = "done" /\ spc \in {"none", "recv"} /\ toServer = {}

Next ==
    \/ Client \/ ReadDatagram \/ Server \/ Lose
    \/ Tick
    \/ Over /\ UNCHANGED vars

Spec == Init /\ [][Next]_vars

\* Time passes, threads run, and datagrams that are not lost arrive.
Fairness ==
    /\ WF_vars(SendData \/ CloseReport) /\ WF_vars(write_UDP_FIN)
    /\ WF_vars(ReadAck) /\ WF_vars(ReadDatagram) /\ WF_vars(Server)
    /\ WF_vars(Tick)

FairSpec == Spec /\ Fairness

-----------------------------------------------------------------------------
(* Properties.                                                             *)

Stats == [PacketID : Nat, cntError : Nat, cntOutofOrder : Nat]

TypeOK ==
    /\ toServer \subseteq [id : -(MaxData + 1) .. MaxData, age : 0 .. Lifetime]
    /\ toClient \subseteq 0 .. Lifetime
    /\ losses \in 0 .. MaxLosses /\ copies \in 0 .. MaxCopies
    /\ sent \in 0 .. MaxData
    /\ finID \in 0 .. MaxData + 1
    /\ tries \in 0 .. FinTries
    /\ cpc \in {"data", "fin", "wait", "done"}
    /\ due \in BOOLEAN /\ acked \in BOOLEAN
    /\ servers \in 0 .. MaxServers
    /\ spc \in {"none", "recv", "ack", "wait"}
    /\ waited \in 0 .. AckWait
    /\ acks \in 0 .. AckTries
    /\ stats \in Stats /\ info \in Stats
    /\ heard \subseteq 0 .. MaxData + 1 /\ twice \in BOOLEAN

\* "Keep re-transmitting until an acknowledgement datagram is received"
\* (Client.cpp:416): the ten tries, against a server that waits a second, suffice
\* over the network of the run (two losses, nothing takes half a second), once
\* there was a server at all and the closing number is a negative one.
ResultArrives == cpc = "done" /\ finID > 0 /\ servers > 0 => acked

\* The server waits long enough at the end: no late datagram of the test starts
\* another server, which nobody would ever tell to stop.  (AckTries late ones at
\* once would end the wait early; the run has fewer.)
NoGhostServer == servers <= 1

\* Losses without the datagrams out of order are the numbers passed over and
\* never made up for, as long as no number comes twice.
LossesAddUp ==
    /\ TypeOK
    /\ ~twice => stats.cntError - stats.cntOutofOrder = Cardinality((1 .. stats.PacketID) \ heard)

\* Why: the highest number is that of some datagram counted, or 0.
HeardInv == LossesAddUp /\ \A id \in heard : id <= stats.PacketID

\* Client and server both come to an end.
EveryoneEnds == <>(cpc = "done" /\ (finID = 0 \/ spc = "none"))

\* "The negative datagram ID signifies termination to the server"
\* (Client.cpp:328): when nothing is lost the server hears of the end, and the
\* client of that.
EndIsHeard == cpc = "done" /\ losses = 0 => acked

\* "out-of-order packets are not duplicate packets, so conditionally subtract
\* them from the lost packets" (Reporter.c:808): a server that has heard all
\* numbers, each once, reports no losses.
NothingLostNoneReported ==
    spc \in {"ack", "wait"} /\ ~twice /\ heard \ {0} = 1 .. sent => info.cntError = 0
=============================================================================

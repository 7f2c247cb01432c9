----------------------------- MODULE ReportRing -----------------------------
(***************************************************************************)
(* One ReportHeader of Reporter.c: the ring of NUM_REPORT_STRUCTS packets  *)
(* through which a transfer thread (the agent) passes what it sent or      *)
(* received to the reporter thread, with no lock.  The two threads share   *)
(* reporterindex and agentindex; the agent runs ReportPacket, CloseReport, *)
(* GetReport and EndReport, the reporter visits the report over and over   *)
(* with reporter_process_report.  Each action is one access to an index    *)
(* that the other thread writes, with the thread-local work up to the next *)
(* such access.  Signals to ReportCond only cut the reporter's sleep short *)
(* (it wakes up each second anyway) and are modelled in ReportList.        *)
(* Each thread's stores are seen by the other in program order;            *)
(* ReportRingWeak drops that assumption.                                   *)
(***************************************************************************)
EXTENDS Integers

CONSTANTS
    N,              \* NUM_REPORT_STRUCTS
    MaxPackets      \* bound on the data packets the agent reports

ASSUME NAssumption == N \in Nat /\ N >= 3
ASSUME MaxPacketsAssumption == MaxPackets \in Nat

VARIABLES
    reporterindex,  \* slot the reporter handled last or handles now, -1: drained
    agentindex,     \* slot the agent fills next, N: about to wrap, -1: let go
    data,           \* packet ID held by each slot
    cntDatagrams,   \* report.cntDatagrams: packets handled by the reporter
    handled,        \* packet ID the reporter handled last
    sent,           \* packets published by the agent, the closing one included
    packetID,       \* the agent's packet->packetID
    index,          \* the agent's local copy of reporterindex
    apc,            \* where the agent is
    rpc             \* where the reporter is

shared == <<reporterindex, agentindex, data>>
agent == <<sent, packetID, index, apc>>
reporter == <<cntDatagrams, handled, rpc>>
vars == <<shared, agent, reporter>>

Slots == 0 .. N - 1
NoPacket == -2      \* content of malloc'ed memory nobody wrote
ClosingID == -1

AgentPCs == {"idle", "wrap", "lap", "copy", "publish",
             "closing", "closed", "stats", "done"}
ReporterPCs == {"away", "test", "advance", "handle", "finish", "endtest", "freed"}

\* InitReport: the report is linked into ReportRoot with empty slots.
Init ==
    /\ reporterindex = N - 1
    /\ agentindex = 0
    /\ data = [i \in Slots |-> NoPacket]
    /\ cntDatagrams = 0
    /\ handled = NoPacket
    /\ sent = 0
    /\ packetID = 0
    /\ index = N - 1
    /\ apc = "idle"
    /\ rpc = "away"

-----------------------------------------------------------------------------
(* The agent.                                                              *)

\* ReportPacket of a data packet: entry, the first read of reporterindex.
ReportPacket ==
    /\ apc = "idle"
    /\ sent < MaxPackets
    /\ packetID' = sent
    /\ index' = reporterindex
    /\ apc' = "wrap"
    /\ UNCHANGED <<shared, sent, reporter>>

\* CloseReport: ReportPacket of the packet that ends reporting.
CloseReport ==
    /\ apc = "idle"
    /\ packetID' = ClosingID
    /\ index' = reporterindex
    /\ apc' = "wrap"
    /\ UNCHANGED <<shared, sent, reporter>>

\* At the end of the ring the agent goes back to slot 0, unless the reporter
\* is on it: then it rests and reads reporterindex again.
AgentWrap ==
    /\ apc = "wrap"
    /\ IF agentindex = N /\ index = 0
       THEN /\ index' = reporterindex
            /\ UNCHANGED <<agentindex, apc>>
       ELSE /\ agentindex' = IF agentindex = N THEN 0 ELSE agentindex
            /\ apc' = "lap"
            /\ UNCHANGED index
    /\ UNCHANGED <<reporterindex, data, sent, packetID, reporter>>

\* Mutant: the agent laps the reporter.
AgentLapNoWait ==
    /\ apc = "lap"
    /\ apc' = "copy"
    /\ UNCHANGED <<shared, index, sent, packetID, reporter>>

\* The agent rests while the reporter is about to be lapped.
AgentLap ==
    /\ apc = "lap"
    /\ IF index - 1 = agentindex
       THEN index' = reporterindex /\ apc' = apc
       ELSE apc' = "copy" /\ index' = index
    /\ UNCHANGED <<shared, sent, packetID, reporter>>

\* Mutant: the packet is copied one slot off.
AgentCopyOffByOne ==
    /\ apc = "copy"
    /\ data' = [data EXCEPT ![(agentindex + 1) % N] = packetID]
    /\ apc' = "publish"
    /\ UNCHANGED <<reporterindex, agentindex, sent, packetID, index, reporter>>

\* The memcpy of the packet into its slot.
AgentCopy ==
    /\ apc = "copy"
    /\ data' = [data EXCEPT ![agentindex] = packetID]
    /\ apc' = "publish"
    /\ UNCHANGED <<reporterindex, agentindex, sent, packetID, index, reporter>>

AfterPacket == IF packetID = ClosingID THEN "closing" ELSE "idle"

\* agentindex++ makes the slot visible to the reporter.
AgentPublish ==
    /\ apc = "publish"
    /\ agentindex' = agentindex + 1
    /\ sent' = sent + 1
    /\ apc' = AfterPacket
    /\ UNCHANGED <<reporterindex, data, packetID, index, reporter>>

\* The end of CloseReport: the packet takes the reporter's running count.
CloseReportID ==
    /\ apc = "closing"
    /\ packetID' = cntDatagrams
    /\ apc' = "closed"
    /\ UNCHANGED <<shared, sent, index, reporter>>

\* Mutant: the statistics are handed out without waiting for the reporter.
GetReportNoWait ==
    /\ apc = "closed"
    /\ index' = reporterindex
    /\ apc' = "stats"
    /\ UNCHANGED <<shared, sent, packetID, reporter>>

\* GetReport (the UDP server, for its acknowledgement) waits for the reporter
\* to be done with the packets.
GetReport ==
    /\ apc = "closed"
    /\ reporterindex = -1
    /\ index' = reporterindex
    /\ apc' = "stats"
    /\ UNCHANGED <<shared, sent, packetID, reporter>>

\* Mutant: the agent leaves without letting go of the report.
EndReportKeeps ==
    /\ apc \in {"closed", "stats"}
    /\ reporterindex = -1
    /\ index' = reporterindex
    /\ apc' = "done"
    /\ UNCHANGED <<shared, sent, packetID, reporter>>

\* EndReport waits likewise, then lets go of the report.
EndReport ==
    /\ apc \in {"closed", "stats"}
    /\ reporterindex = -1
    /\ index' = reporterindex
    /\ agentindex' = -1
    /\ apc' = "done"
    /\ UNCHANGED <<reporterindex, data, sent, packetID, reporter>>

Agent ==
    \/ ReportPacket \/ CloseReport \/ AgentWrap \/ AgentLap
    \/ AgentCopy \/ AgentPublish
    \/ CloseReportID \/ GetReport \/ EndReport

-----------------------------------------------------------------------------
(* The reporter.                                                           *)

\* Mutant: a report whose reporter stands at slot 0 is taken for a drained one.
ReporterVisitPositive ==
    /\ rpc = "away"
    /\ rpc' = IF reporterindex > 0 THEN "test" ELSE "endtest"
    /\ UNCHANGED <<shared, agent, cntDatagrams, handled>>

\* reporter_process_report reaches this report.
ReporterVisit ==
    /\ rpc = "away"
    /\ rpc' = IF reporterindex >= 0 THEN "test" ELSE "endtest"
    /\ UNCHANGED <<shared, agent, cntDatagrams, handled>>

\* while ( reporterindex != agentindex - 1 )
ReporterTest ==
    /\ rpc = "test"
    /\ rpc' = IF reporterindex # agentindex - 1 THEN "advance" ELSE "endtest"
    /\ UNCHANGED <<shared, agent, cntDatagrams, handled>>

\* Mutant: the reporter wraps although the agent stands at slot 0.
ReporterAdvanceUnchecked ==
    /\ rpc = "advance"
    /\ reporterindex' = IF reporterindex = N - 1 THEN 0 ELSE reporterindex + 1
    /\ rpc' = "handle"
    /\ UNCHANGED <<agentindex, data, agent, cntDatagrams, handled>>

\* The next slot, or none when the agent is back at slot 0 itself.
ReporterAdvance ==
    /\ rpc = "advance"
    /\ IF reporterindex = N - 1 /\ agentindex = 0
       THEN rpc' = "endtest" /\ UNCHANGED reporterindex
       ELSE /\ reporterindex' = IF reporterindex = N - 1 THEN 0 ELSE reporterindex + 1
            /\ rpc' = "handle"
    /\ UNCHANGED <<agentindex, data, agent, cntDatagrams, handled>>

\* reporter_handle_packet, as far as the ring sees it.
ReporterHandle ==
    /\ rpc = "handle"
    /\ cntDatagrams' = cntDatagrams + 1
    /\ handled' = data[reporterindex]
    /\ rpc' = IF data[reporterindex] < 0 THEN "finish" ELSE "test"
    /\ UNCHANGED <<shared, agent>>

\* No more packets to process.
ReporterFinish ==
    /\ rpc = "finish"
    /\ reporterindex' = -1
    /\ rpc' = "endtest"
    /\ UNCHANGED <<agentindex, data, agent, cntDatagrams, handled>>

\* Mutant: the report is freed as soon as its packets are handled.
ReporterFreesDrained ==
    /\ rpc = "endtest"
    /\ rpc' = IF reporterindex = -1 THEN "freed" ELSE "away"
    /\ UNCHANGED <<shared, agent, cntDatagrams, handled>>

\* need_free: the caller unlinks and frees the report the agent let go of.
ReporterEndTest ==
    /\ rpc = "endtest"
    /\ rpc' = IF agentindex = -1 THEN "freed" ELSE "away"
    /\ UNCHANGED <<shared, agent, cntDatagrams, handled>>

Reporter ==
    \/ ReporterVisit \/ ReporterTest \/ ReporterAdvance
    \/ ReporterHandle \/ ReporterFinish \/ ReporterEndTest

-----------------------------------------------------------------------------
Terminated == rpc = "freed" /\ UNCHANGED vars

Next == Agent \/ Reporter \/ Terminated

Spec == Init /\ [][Next]_vars

\* Both are ordinary running threads; the agent of a transfer ends it in the
\* end (bound MaxPackets, then CloseReport), its spins re-read for ever.
Fairness == WF_vars(Agent) /\ WF_vars(Reporter)

FairSpec == Spec /\ Fairness

-----------------------------------------------------------------------------
(* Properties.                                                             *)

TypeOK ==
    /\ reporterindex \in -1 .. N - 1
    /\ agentindex \in -1 .. N
    /\ data \in [Slots -> Nat \cup {NoPacket, ClosingID}]
    /\ cntDatagrams \in Nat
    /\ handled \in Nat \cup {NoPacket, ClosingID}
    /\ sent \in Nat
    /\ packetID \in Nat \cup {ClosingID}
    /\ index \in -1 .. N - 1
    /\ apc \in AgentPCs
    /\ rpc \in ReporterPCs

\* Slots the agent published and the reporter has not advanced to yet.
Pending ==
    IF reporterindex = -1 THEN 0
    ELSE IF agentindex > reporterindex THEN agentindex - reporterindex - 1
    ELSE agentindex - reporterindex - 1 + N

\* The slot k places after the reporter's.
SlotAfter(k) ==
    IF reporterindex + k < N THEN reporterindex + k ELSE reporterindex + k - N

Handling == rpc = "handle"

\* The closing packet is among the published ones.
Closed == apc \in {"closing", "closed", "stats", "done"}

\* The packet ID of the k-th packet published.
IDOf(k) == IF Closed /\ k = sent THEN ClosingID ELSE k - 1

\* The agent never copies into the slot the reporter is reading, nor into one
\* it published and the reporter has still to read (ReportPacket's two waits).
NoOverwrite ==
    apc = "copy" =>
        /\ agentindex \in Slots
        /\ agentindex # reporterindex
        /\ \A k \in 1 .. Pending : agentindex # SlotAfter(k)

\* "Updating agentindex MUST be the last thing done" (Reporter.c:360): whatever
\* slot agentindex has made visible already holds the packet published for it.
PublishedSlotsHoldTheirPackets ==
    \A k \in 1 .. Pending :
        data[SlotAfter(k)] = IDOf(cntDatagrams + k + (IF Handling THEN 1 ELSE 0))

\* Once GetReport or EndReport has returned, every packet, the closing one
\* included, is in the statistics.
StatisticsComplete ==
    apc \in {"stats", "done"} => cntDatagrams = sent /\ handled = ClosingID

\* The reporter frees the report only when the agent has let go of it.
NoUseAfterFree == rpc = "freed" => apc = "done"

(* The inductive invariant behind the three above: IndexInv.               *)

\* Packets published so far: those handled, the one in hand, those pending.
CountInv ==
    /\ reporterindex # -1 =>
         sent = cntDatagrams + Pending + (IF Handling THEN 1 ELSE 0)
    /\ Closed /\ reporterindex # -1 /\ rpc # "finish" => cntDatagrams < sent
    /\ Handling => data[reporterindex] = IDOf(cntDatagrams + 1)

\* reporterindex becomes -1 behind the closing packet and stays so.
DrainInv ==
    /\ rpc \in {"test", "advance", "handle", "finish"} => reporterindex # -1
    /\ rpc = "finish" \/ reporterindex = -1 =>
         Closed /\ cntDatagrams = sent /\ handled = ClosingID
    /\ apc \in {"stats", "done"} => reporterindex = -1
    /\ agentindex = -1 <=> apc = "done"
    /\ rpc = "advance" => Pending > 0 \/ (reporterindex = N - 1 /\ agentindex = 0)

\* The reporter is never on the agent's slot, and it has not left the stretch
\* that begins at the agent's stale copy of its position.
PositionInv ==
    /\ agentindex # reporterindex \/ agentindex = -1
    /\ apc \in {"wrap", "lap"} =>
         /\ index # -1
         /\ index # agentindex
         /\ index < agentindex => index <= reporterindex /\ reporterindex < agentindex
         /\ index > agentindex => index <= reporterindex \/ reporterindex < agentindex
    /\ apc \in {"lap", "copy", "publish"} => agentindex # N
    /\ apc \in {"copy", "publish"} => reporterindex # agentindex + 1
    /\ apc \in {"wrap", "lap", "copy", "publish"} => packetID \in {sent, ClosingID}
    /\ apc = "publish" => data[agentindex] = packetID

IndexInv ==
    /\ TypeOK
    /\ CountInv
    /\ DrainInv
    /\ PositionInv
    /\ PublishedSlotsHoldTheirPackets
    /\ NoUseAfterFree

\* The ring implements the bounded FIFO of PacketStream.
StreamStatus ==
    IF rpc = "freed" THEN "freed"
    ELSE IF apc = "done" THEN "ended"
    ELSE IF Closed THEN "closed" ELSE "open"

Stream == INSTANCE PacketStream WITH
    Capacity <- N, put <- sent, got <- cntDatagrams, last <- handled,
    status <- StreamStatus

StreamSpec == Stream!Spec

\* Every published packet is handled, and a report is freed in the end: neither
\* of the agent's two waits, nor EndReport's, lasts for ever.
EveryPacketHandled == \A k \in 1 .. MaxPackets + 1 : sent >= k ~> cntDatagrams >= k
ReportFreed == <>(rpc = "freed")
=============================================================================

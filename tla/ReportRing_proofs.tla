-------------------------- MODULE ReportRing_proofs --------------------------
(***************************************************************************)
(* Proofs about ReportRing, for a ring of any size N >= 3 and any number   *)
(* of packets.                                                             *)
(***************************************************************************)
EXTENDS ReportRing, TLAPS

USE NAssumption

\* InitReport leaves the ring in a state of the inductive invariant.
LEMMA InitIndexInv == Init => IndexInv
  BY DEF Init, IndexInv, TypeOK, CountInv, DrainInv, PositionInv,
     PublishedSlotsHoldTheirPackets, NoUseAfterFree, Pending, Handling, Closed,
     SlotAfter, IDOf, Slots, NoPacket, ClosingID, AgentPCs, ReporterPCs

\* As long as the agent is filling packets the reporter has not drained the
\* ring, and the slot the agent fills is the one after the pending ones.
LEMMA NextSlot ==
    ASSUME IndexInv, apc \in {"idle", "wrap", "lap", "copy", "publish"}
    PROVE  /\ reporterindex \in Slots
           /\ agentindex \in 0 .. N
           /\ Pending \in 0 .. N - 1
           /\ agentindex # N => SlotAfter(Pending + 1) = agentindex
           /\ agentindex # N => Pending + 1 < N
  BY DEF IndexInv, TypeOK, DrainInv, PositionInv, Pending, SlotAfter, Slots, Closed

\* Every step of either thread keeps the inductive invariant.
LEMMA StepIndexInv == IndexInv /\ [Next]_vars => IndexInv'
  <1> SUFFICES ASSUME IndexInv, [Next]_vars
               PROVE  IndexInv'
    OBVIOUS
  <1> USE DEF IndexInv
  <1>1. CASE ReportPacket
    BY <1>1 DEF ReportPacket, shared, agent, reporter, TypeOK, CountInv, DrainInv,
         PositionInv, PublishedSlotsHoldTheirPackets, NoUseAfterFree, Pending, Handling,
         Closed, SlotAfter, IDOf, Slots, NoPacket, ClosingID, AgentPCs, ReporterPCs
  <1>2. CASE CloseReport
    BY <1>2 DEF CloseReport, shared, agent, reporter, TypeOK, CountInv, DrainInv,
         PositionInv, PublishedSlotsHoldTheirPackets, NoUseAfterFree, Pending, Handling,
         Closed, SlotAfter, IDOf, Slots, NoPacket, ClosingID, AgentPCs, ReporterPCs
  <1>3. CASE AgentWrap
    <2>1. reporterindex \in Slots /\ Pending' = Pending
      BY <1>3, NextSlot DEF AgentWrap, reporter, TypeOK, Slots, NoPacket, ClosingID, Pending, PositionInv
    <2>2. TypeOK'
      BY <1>3, <2>1 DEF AgentWrap, shared, agent, reporter, TypeOK, Slots, AgentPCs
    <2>3. CountInv'
      BY <1>3, <2>1 DEF AgentWrap, shared, agent, reporter, TypeOK, CountInv, Handling, Closed, IDOf
    <2>4. DrainInv'
      BY <1>3, <2>1 DEF AgentWrap, shared, agent, reporter, TypeOK, Slots, DrainInv, Closed
    <2>5. PositionInv'
      BY <1>3, <2>1 DEF AgentWrap, shared, agent, reporter, TypeOK, Slots, PositionInv
    <2>6. PublishedSlotsHoldTheirPackets'
      BY <1>3, <2>1 DEF AgentWrap, shared, agent, reporter, PublishedSlotsHoldTheirPackets,
         SlotAfter, Handling, Closed, IDOf
    <2>7. QED
      BY <1>3, <2>2, <2>3, <2>4, <2>5, <2>6 DEF AgentWrap, reporter, NoUseAfterFree
  <1>4. CASE AgentLap
    <2>1. TypeOK'
      BY <1>4, NextSlot DEF AgentLap, shared, agent, reporter, TypeOK, Slots, AgentPCs
    <2>2. CountInv' /\ PublishedSlotsHoldTheirPackets'
      BY <1>4 DEF AgentLap, shared, agent, reporter, CountInv,
         PublishedSlotsHoldTheirPackets, SlotAfter, Pending, Handling, Closed, IDOf
    <2>3. DrainInv'
      BY <1>4 DEF AgentLap, shared, agent, reporter, DrainInv, Closed, Pending
    <2>4. PositionInv'
      BY <1>4, NextSlot DEF AgentLap, shared, agent, reporter, TypeOK, Slots, PositionInv
    <2>5. QED
      BY <1>4, <2>1, <2>2, <2>3, <2>4 DEF AgentLap, reporter, NoUseAfterFree
  <1>5. CASE AgentCopy
    <2>1. agentindex \in Slots /\ agentindex # reporterindex
      BY <1>5, NextSlot DEF AgentCopy, PositionInv, Slots
    <2>2. \A k \in 1 .. Pending : SlotAfter(k) \in Slots \ {agentindex}
      BY <1>5, <2>1, NextSlot DEF AgentCopy, SlotAfter, Slots
    <2>3. TypeOK'
      BY <1>5, <2>1 DEF AgentCopy, shared, agent, reporter, TypeOK, Slots, NoPacket, ClosingID, PositionInv, AgentPCs
    <2>4. Pending' = Pending /\ Closed' = Closed /\ Handling' = Handling
      BY <1>5 DEF AgentCopy, reporter, Pending, Closed, Handling
    <2>5. CountInv'
      BY <1>5, <2>1, <2>4, NextSlot DEF AgentCopy, shared, agent, reporter, TypeOK, CountInv, IDOf, Slots, Handling
    <2>6. DrainInv'
      BY <1>5, <2>4 DEF AgentCopy, shared, agent, reporter, DrainInv
    <2>7. PositionInv'
      BY <1>5, <2>1 DEF AgentCopy, shared, agent, reporter, TypeOK, Slots, NoPacket, ClosingID, PositionInv
    <2>8. PublishedSlotsHoldTheirPackets'
      BY <1>5, <2>2, <2>4 DEF AgentCopy, shared, agent, reporter, TypeOK,
         PublishedSlotsHoldTheirPackets, SlotAfter, IDOf
    <2>9. QED
      BY <1>5, <2>3, <2>5, <2>6, <2>7, <2>8 DEF AgentCopy, reporter, NoUseAfterFree
  <1>6. CASE AgentPublish
    <2>1. /\ agentindex \in Slots /\ reporterindex \in Slots
         /\ agentindex # reporterindex /\ agentindex + 1 # reporterindex
         /\ ~Closed /\ rpc # "finish"
      BY <1>6, NextSlot DEF AgentPublish, PositionInv, DrainInv, Slots, Closed
    <2>2. Pending' = Pending + 1
      BY <1>6, <2>1 DEF AgentPublish, reporter, Pending, Slots
    <2>3. TypeOK'
      BY <1>6, <2>1 DEF AgentPublish, AfterPacket, shared, agent, reporter, TypeOK, Slots, AgentPCs
    <2>4. cntDatagrams \in Nat /\ Pending \in Nat
         /\ sent = cntDatagrams + Pending + (IF Handling THEN 1 ELSE 0)
      BY <1>6, <2>1, NextSlot DEF AgentPublish, TypeOK, CountInv, Slots
    <2>5. \A k \in 1 .. sent : IDOf(k)' = IDOf(k)
      BY <1>6, <2>1 DEF AgentPublish, AfterPacket, TypeOK, IDOf, Closed
    <2>6. packetID = IDOf(sent)'
      BY <1>6, <2>1 DEF AgentPublish, AfterPacket, TypeOK, PositionInv, IDOf, Closed, ClosingID
    <2>7. CountInv'
      BY <1>6, <2>1, <2>2, <2>4, <2>5 DEF AgentPublish, shared, agent, reporter, CountInv, Handling
    <2>8. DrainInv'
      BY <1>6, <2>1, <2>2, NextSlot DEF AgentPublish, AfterPacket, shared, agent, reporter, Slots, DrainInv
    <2>9. PositionInv'
      BY <1>6, <2>1 DEF AgentPublish, AfterPacket, shared, agent, reporter, Slots, PositionInv
    <2>10. PublishedSlotsHoldTheirPackets'
      <3> DEFINE ahead == cntDatagrams + (IF Handling THEN 1 ELSE 0)
      <3>1. UNCHANGED <<data, reporterindex, cntDatagrams, Handling>> /\ sent' = sent + 1
        BY <1>6 DEF AgentPublish, reporter, Handling
      <3>2. SUFFICES ASSUME NEW k \in 1 .. Pending + 1
                     PROVE  data[SlotAfter(k)] = IDOf(ahead + k)'
        BY <2>2, <2>4, <3>1 DEF PublishedSlotsHoldTheirPackets, SlotAfter
      <3>3. CASE k \in 1 .. Pending
        <4>1. data[SlotAfter(k)] = IDOf(ahead + k) /\ ahead + k \in 1 .. sent
          BY <2>4, <3>3 DEF PublishedSlotsHoldTheirPackets
        <4> QED
          BY <2>5, <3>1, <4>1 DEF IDOf
      <3>4. CASE k = Pending + 1
        <4>1. data[SlotAfter(k)] = packetID
          BY <1>6, <2>1, <3>4, NextSlot DEF AgentPublish, PositionInv, Slots
        <4>2. ahead + k = sent + 1
          BY <2>4, <3>4
        <4> QED
          BY <2>6, <3>1, <4>1, <4>2 DEF IDOf
      <3> QED
        BY <2>4, <3>2, <3>3, <3>4
    <2>11. QED
      BY <1>6, <2>3, <2>7, <2>8, <2>9, <2>10 DEF AgentPublish, AfterPacket, reporter, NoUseAfterFree
  <1>7. CASE CloseReportID
    BY <1>7 DEF CloseReportID, shared, agent, reporter, TypeOK, CountInv, DrainInv,
         PositionInv, PublishedSlotsHoldTheirPackets, NoUseAfterFree, Pending, Handling,
         Closed, SlotAfter, IDOf, Slots, NoPacket, ClosingID, AgentPCs, ReporterPCs
  <1>8. CASE GetReport
    BY <1>8 DEF GetReport, shared, agent, reporter, TypeOK, CountInv, DrainInv,
         PositionInv, PublishedSlotsHoldTheirPackets, NoUseAfterFree, Pending, Handling,
         Closed, SlotAfter, IDOf, Slots, NoPacket, ClosingID, AgentPCs, ReporterPCs
  <1>9. CASE EndReport
    BY <1>9 DEF EndReport, shared, agent, reporter, TypeOK, CountInv, DrainInv,
         PositionInv, PublishedSlotsHoldTheirPackets, NoUseAfterFree, Pending, Handling,
         Closed, SlotAfter, IDOf, Slots, NoPacket, ClosingID, AgentPCs, ReporterPCs
  <1>10. CASE ReporterVisit
    BY <1>10 DEF ReporterVisit, shared, agent, reporter, TypeOK, CountInv, DrainInv,
         PositionInv, PublishedSlotsHoldTheirPackets, NoUseAfterFree, Pending, Handling,
         Closed, SlotAfter, IDOf, Slots, NoPacket, ClosingID, AgentPCs, ReporterPCs
  <1>11. CASE ReporterTest
    BY <1>11 DEF ReporterTest, shared, agent, reporter, TypeOK, CountInv, DrainInv,
         PositionInv, PublishedSlotsHoldTheirPackets, NoUseAfterFree, Pending, Handling,
         Closed, SlotAfter, IDOf, Slots, NoPacket, ClosingID, AgentPCs, ReporterPCs
  <1>12. CASE ReporterAdvance
    <2>1. CASE reporterindex = N - 1 /\ agentindex = 0
      BY <1>12, <2>1 DEF ReporterAdvance, shared, agent, TypeOK, CountInv, DrainInv, PositionInv,
         PublishedSlotsHoldTheirPackets, NoUseAfterFree, Pending, Handling, Closed,
         SlotAfter, IDOf, ReporterPCs
    <2>2. CASE ~(reporterindex = N - 1 /\ agentindex = 0)
      <3>1. Pending \in 1 .. N - 1 /\ reporterindex \in Slots /\ cntDatagrams \in Nat /\ sent \in Nat
        BY <1>12, <2>2 DEF ReporterAdvance, TypeOK, DrainInv, PositionInv, Pending, Slots
      <3>2. reporterindex' = SlotAfter(1) /\ Pending' = Pending - 1 /\ Closed' = Closed
        BY <1>12, <2>2, <3>1 DEF ReporterAdvance, agent, TypeOK, DrainInv, PositionInv, Pending, SlotAfter, Slots, Closed
      <3>3. \A k \in 1 .. Pending - 1 : SlotAfter(k)' = SlotAfter(k + 1)
        BY <1>12, <3>1, <3>2 DEF SlotAfter, Slots
      <3>4. TypeOK'
        BY <1>12, <3>1, <3>2 DEF ReporterAdvance, agent, TypeOK, SlotAfter, Slots, ReporterPCs
      <3>5. UNCHANGED <<data, sent, cntDatagrams>> /\ ~Handling /\ Handling'
        BY <1>12, <2>2 DEF ReporterAdvance, agent, Handling
      <3>9. \A k \in 1 .. Pending : data[SlotAfter(k)] = IDOf(cntDatagrams + k)
        BY <3>1, <3>5 DEF PublishedSlotsHoldTheirPackets
      <3>10. CountInv'
        <4>1. data[SlotAfter(1)] = IDOf(cntDatagrams + 1)
          BY <3>1, <3>9
        <4> QED
          BY <1>12, <3>1, <3>2, <3>5, <4>1 DEF ReporterAdvance, agent, CountInv, IDOf, Slots
      <3>6. DrainInv'
        BY <1>12, <3>1, <3>2 DEF ReporterAdvance, agent, DrainInv, SlotAfter, Slots
      <3>7. PositionInv'
        BY <1>12, <2>2, <3>1 DEF ReporterAdvance, agent, TypeOK, DrainInv, PositionInv, Pending, Slots
      <3>8. PublishedSlotsHoldTheirPackets'
        <4>1. SUFFICES ASSUME NEW k \in 1 .. Pending - 1
                       PROVE  data[SlotAfter(k + 1)] = IDOf(cntDatagrams + k + 1)
          BY <3>1, <3>2, <3>3, <3>5 DEF PublishedSlotsHoldTheirPackets, IDOf
        <4> QED
          BY <3>1, <3>9
      <3> QED
        BY <1>12, <3>4, <3>10, <3>6, <3>7, <3>8 DEF ReporterAdvance, agent, NoUseAfterFree
    <2> QED
      BY <2>1, <2>2
  <1>13. CASE ReporterHandle
    BY <1>13 DEF ReporterHandle, shared, agent, reporter, TypeOK, CountInv, DrainInv,
         PositionInv, PublishedSlotsHoldTheirPackets, NoUseAfterFree, Pending, Handling,
         Closed, SlotAfter, IDOf, Slots, NoPacket, ClosingID, AgentPCs, ReporterPCs
  <1>14. CASE ReporterFinish
    BY <1>14 DEF ReporterFinish, shared, agent, reporter, TypeOK, CountInv, DrainInv,
         PositionInv, PublishedSlotsHoldTheirPackets, NoUseAfterFree, Pending, Handling,
         Closed, SlotAfter, IDOf, Slots, NoPacket, ClosingID, AgentPCs, ReporterPCs
  <1>15. CASE ReporterEndTest
    BY <1>15 DEF ReporterEndTest, shared, agent, reporter, TypeOK, CountInv, DrainInv,
         PositionInv, PublishedSlotsHoldTheirPackets, NoUseAfterFree, Pending, Handling,
         Closed, SlotAfter, IDOf, Slots, NoPacket, ClosingID, AgentPCs, ReporterPCs
  <1>16. CASE UNCHANGED vars
    BY <1>16 DEF vars, shared, agent, reporter, TypeOK, CountInv, DrainInv,
         PositionInv, PublishedSlotsHoldTheirPackets, NoUseAfterFree, Pending, Handling,
         Closed, SlotAfter, IDOf, Slots, NoPacket, ClosingID, AgentPCs, ReporterPCs
  <1> QED
    BY <1>1, <1>2, <1>3, <1>4, <1>5, <1>6, <1>7, <1>8, <1>9, <1>10, <1>11, <1>12,
       <1>13, <1>14, <1>15, <1>16 DEF Next, Agent, Reporter, Terminated

\* The inductive invariant holds throughout.
LEMMA IndexInvHolds == Spec => []IndexInv
  BY InitIndexInv, StepIndexInv, PTL DEF Spec

-----------------------------------------------------------------------------

\* The agent never writes a slot the reporter is reading or has still to read,
\* however the two threads interleave and however large the ring is.
THEOREM NoSlotOverwritten == Spec => []NoOverwrite
  <1>1. IndexInv => NoOverwrite
    <2> SUFFICES ASSUME IndexInv, apc = "copy"
                 PROVE  /\ agentindex \in Slots
                        /\ agentindex # reporterindex
                        /\ \A k \in 1 .. Pending : agentindex # SlotAfter(k)
      BY DEF NoOverwrite
    <2>1. agentindex \in Slots /\ agentindex # reporterindex
      BY NextSlot DEF IndexInv, PositionInv, Slots
    <2>2. \A k \in 1 .. Pending : agentindex # SlotAfter(k)
      BY <2>1, NextSlot DEF SlotAfter, Slots
    <2> QED
      BY <2>1, <2>2
  <1> QED
    BY <1>1, IndexInvHolds, PTL

\* Whatever agentindex makes visible to the reporter is the packet published.
THEOREM PublishedPacketsIntact == Spec => []PublishedSlotsHoldTheirPackets
  <1>1. IndexInv => PublishedSlotsHoldTheirPackets
    BY DEF IndexInv
  <1> QED
    BY <1>1, IndexInvHolds, PTL

\* GetReport and EndReport return only when every packet has been counted.
THEOREM ReportsComplete == Spec => []StatisticsComplete
  <1>1. IndexInv => StatisticsComplete
    BY DEF IndexInv, DrainInv, StatisticsComplete
  <1> QED
    BY <1>1, IndexInvHolds, PTL

\* The reporter frees no report that its agent may still touch.
THEOREM NoReportFreedEarly == Spec => []NoUseAfterFree
  <1>1. IndexInv => NoUseAfterFree
    BY DEF IndexInv
  <1> QED
    BY <1>1, IndexInvHolds, PTL

\* The indices and program counters keep their ranges.
THEOREM TypeCorrect == Spec => []TypeOK
  <1>1. IndexInv => TypeOK
    BY DEF IndexInv
  <1> QED
    BY <1>1, IndexInvHolds, PTL

-----------------------------------------------------------------------------
(* ReportRing implements PacketStream: no packet is lost, repeated or      *)
(* reordered between the agent and the reporter.                           *)

\* A step of the agent publishes a packet, lets go of the report, or is
\* invisible in the stream.
LEMMA AgentStepRefines ==
    ASSUME IndexInv, Agent
    PROVE  Stream!Next \/ UNCHANGED Stream!vars
  <1> USE DEF Stream!vars, StreamStatus, Closed
  <1>1. rpc = "freed" => apc = "done"
    BY DEF IndexInv, NoUseAfterFree
  <1>2. CASE ReportPacket \/ CloseReport \/ AgentWrap \/ AgentLap \/ AgentCopy
             \/ CloseReportID \/ GetReport
    BY <1>1, <1>2 DEF ReportPacket, CloseReport, AgentWrap, AgentLap, AgentCopy,
       CloseReportID, GetReport, reporter
  <1>3. CASE AgentPublish
    <2>1. sent - cntDatagrams < N
      BY <1>3, NextSlot DEF AgentPublish, IndexInv, TypeOK, CountInv, PositionInv, Slots
    <2>2. apc' \in {"closing", "idle"}
      BY <1>3 DEF AgentPublish, AfterPacket
    <2>3. CASE apc' = "closing"
      BY <1>1, <1>3, <2>1, <2>3 DEF AgentPublish, reporter, Stream!Next, Stream!Close
    <2>4. CASE apc' = "idle"
      BY <1>1, <1>3, <2>1, <2>4 DEF AgentPublish, reporter, Stream!Next, Stream!Put
    <2> QED
      BY <2>2, <2>3, <2>4
  <1>4. CASE EndReport
    BY <1>1, <1>4 DEF EndReport, reporter, IndexInv, DrainInv, Stream!Next, Stream!End
  <1> QED
    BY <1>2, <1>3, <1>4 DEF Agent

\* A step of the reporter takes the next packet, frees the report, or is
\* invisible in the stream.
LEMMA ReporterStepRefines ==
    ASSUME IndexInv, Reporter
    PROVE  Stream!Next \/ UNCHANGED Stream!vars
  <1> USE DEF Stream!vars, StreamStatus, Closed
  <1>1. CASE ReporterVisit \/ ReporterTest \/ ReporterAdvance \/ ReporterFinish
    BY <1>1 DEF ReporterVisit, ReporterTest, ReporterAdvance, ReporterFinish, agent
  <1>2. CASE ReporterHandle
    <2>1. handled' = IDOf(cntDatagrams + 1) /\ reporterindex # -1 /\ apc # "done"
      BY <1>2 DEF ReporterHandle, IndexInv, CountInv, DrainInv, Handling
    <2>2. cntDatagrams < sent
      BY <1>2, <2>1 DEF ReporterHandle, IndexInv, TypeOK, CountInv, DrainInv, PositionInv,
         Handling, Pending
    <2>3. IDOf(cntDatagrams + 1) = Stream!PacketAt(cntDatagrams + 1, sent, StreamStatus)
      BY <1>2, <2>1 DEF ReporterHandle, IDOf, Stream!PacketAt, ClosingID, Stream!ClosingID
    <2> QED
      BY <1>2, <2>1, <2>2, <2>3 DEF ReporterHandle, agent, Stream!Next, Stream!Take
  <1>3. CASE ReporterEndTest
    <2>1. agentindex = -1 => apc = "done"
      BY DEF IndexInv, DrainInv
    <2>2. CASE agentindex = -1
      BY <1>3, <2>1, <2>2 DEF ReporterEndTest, agent, Stream!Next, Stream!Free
    <2>3. CASE agentindex # -1
      BY <1>3, <2>3 DEF ReporterEndTest, agent
    <2> QED
      BY <2>2, <2>3
  <1> QED
    BY <1>1, <1>2, <1>3 DEF Reporter

\* The ring implements the stream.
THEOREM RingImplementsStream == Spec => StreamSpec
  <1>1. Init => Stream!Init
    BY DEF Init, Stream!Init, StreamStatus, Closed, NoPacket, Stream!NoPacket
  <1>2. IndexInv /\ [Next]_vars => [Stream!Next]_(Stream!vars)
    <2>1. UNCHANGED vars => UNCHANGED Stream!vars
      BY DEF vars, agent, reporter, Stream!vars, StreamStatus, Closed
    <2> QED
      BY <2>1, AgentStepRefines, ReporterStepRefines DEF Next, Terminated
  <1> QED
    BY <1>1, <1>2, IndexInvHolds, PTL DEF Spec, StreamSpec, Stream!Spec
=============================================================================

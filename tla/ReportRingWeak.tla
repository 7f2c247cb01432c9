--------------------------- MODULE ReportRingWeak ---------------------------
(***************************************************************************)
(* ReportRing on a weakly ordered processor (the Android builds are for    *)
(* ARM): ReportPacket's memcpy of the packet and its agentindex++ are      *)
(* plain stores with no barrier between them, so the reporter may see the  *)
(* second before the first.                                                *)
(***************************************************************************)
EXTENDS ReportRing

\* agentindex++ is seen while the slot's content is still on its way.
AgentPublishEarly ==
    /\ apc = "copy"
    /\ agentindex' = agentindex + 1
    /\ sent' = sent + 1
    /\ apc' = "late"
    /\ UNCHANGED <<reporterindex, data, packetID, index, reporter>>

AgentCopyLate ==
    /\ apc = "late"
    /\ data' = [data EXCEPT ![agentindex - 1] = packetID]
    /\ apc' = AfterPacket
    /\ UNCHANGED <<reporterindex, agentindex, sent, packetID, index, reporter>>

WeakNext == Next \/ AgentPublishEarly \/ AgentCopyLate

WeakSpec == Init /\ [][WeakNext]_vars
=============================================================================

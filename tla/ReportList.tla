----------------------------- MODULE ReportList -----------------------------
(***************************************************************************)
(* The list of reports (ReportRoot) and the two sides that share it:       *)
(* transfer threads and listeners (the agents) link reports in at the head *)
(* under ReportCond; the reporter thread (reporter_spawn) walks the list   *)
(* from its tail to the head it started from, prints what is ready, and    *)
(* unlinks and frees what is finished: the inner reports without the lock, *)
(* the one it started from under it.                                       *)
(*                                                                         *)
(* The ring of a data report is here the FIFO that ReportRing implements,  *)
(* reduced to its counters.  A critical section of ReportCond in which     *)
(* nothing waits is one action.                                            *)
(***************************************************************************)
EXTENDS Naturals, Sequences, FiniteSets, SequencesExt, Functions

CONSTANTS
    Agents,         \* threads that report
    Wants,          \* per agent, the parts of its reports that -x leaves in
    Capacity,       \* packets a ring holds
    MaxPackets      \* bound on the packets of a transfer, the closing one included

Parts == {"settings", "connection", "transfer", "relay"}

ASSUME WantsAssumption == Wants \in [Agents -> SUBSET Parts]
ASSUME CapacityAssumption == Capacity \in Nat \ {0}
ASSUME MaxPacketsAssumption == MaxPackets \in Nat \ {0}

\* A settings report, a data report (connection and transfer) and a report
\* relayed from the server are a ReportHeader each.
Kinds == {"settings", "data", "relay"}
Reports == Agents \X Kinds
ReportOf(t, kind) == <<t, kind>>
AgentOf(r) == r[1]

\* report.type when the report is linked in
TypeOfReport(r) ==
    Wants[AgentOf(r)] \cap
        (IF r[2] = "data" THEN {"connection", "transfer"} ELSE {r[2]})

VARIABLES
    list,       \* the chain from ReportRoot
    type,       \* report.type: parts of a report not printed yet
    mem,        \* "unborn", "linked" or "freed"
    put,        \* packets the agent put into its ring
    got,        \* packets the reporter took out of it
    apc,        \* where an agent is
    rpc,        \* where the reporter is
    visit,      \* reports of the current walk still to be visited, root first
    signalled,  \* ReportCond was signalled since the reporter began to wait
    log         \* parts printed, in order

agentVars == <<put, apc>>
reporterVars == <<type, got, rpc, visit, log>>
vars == <<list, mem, signalled, agentVars, reporterVars>>

AgentPCs == {"new", "ready", "running", "closed", "relayed", "done"}
ReporterPCs == {"loop", "wait", "pick", "visit", "drain", "unlink", "nap"}

Init ==
    /\ list = <<>>
    /\ type = [r \in Reports |-> TypeOfReport(r)]
    /\ mem = [r \in Reports |-> "unborn"]
    /\ put = [t \in Agents |-> 0]
    /\ got = [t \in Agents |-> 0]
    /\ apc = [t \in Agents |-> "new"]
    /\ rpc = "loop"
    /\ visit = <<>>
    /\ signalled = FALSE
    /\ log = <<>>

-----------------------------------------------------------------------------
(* The agents.                                                             *)

HasData(t) == "transfer" \in Wants[t]

\* Mutant: new reports are linked in behind the older ones.
PushBack(r) ==
    /\ list' = Append(list, r)
    /\ mem' = [mem EXCEPT ![r] = "linked"]
    /\ signalled' = TRUE

\* Link a report in at ReportRoot and signal, under ReportCond.
Push(r) ==
    /\ list' = <<r>> \o list
    /\ mem' = [mem EXCEPT ![r] = "linked"]
    /\ signalled' = TRUE

PushIf(condition, r) ==
    IF condition THEN Push(r) ELSE UNCHANGED <<list, mem, signalled>>

ReportSettings(t) ==
    /\ apc[t] = "new"
    /\ apc' = [apc EXCEPT ![t] = "ready"]
    /\ PushIf("settings" \in Wants[t], ReportOf(t, "settings"))
    /\ UNCHANGED <<put, reporterVars>>

\* Without a transfer report InitReport returns NULL to the agent.
InitReport(t) ==
    /\ apc[t] = "ready"
    /\ apc' = [apc EXCEPT ![t] = "running"]
    /\ LET r == ReportOf(t, "data") IN PushIf(TypeOfReport(r) # {}, r)
    /\ UNCHANGED <<put, reporterVars>>

\* ReportPacket: a full ring makes the agent signal, rest and try again.
ReportPacket(t) ==
    /\ apc[t] = "running"
    /\ HasData(t)
    /\ put[t] < MaxPackets - 1
    /\ IF put[t] - got[t] < Capacity
       THEN put' = [put EXCEPT ![t] = @ + 1] /\ UNCHANGED signalled
       ELSE signalled' = TRUE /\ UNCHANGED put
    /\ UNCHANGED <<list, mem, apc, reporterVars>>

CloseReport(t) ==
    /\ apc[t] = "running"
    /\ HasData(t) => put[t] - got[t] < Capacity
    /\ apc' = [apc EXCEPT ![t] = "closed"]
    /\ put' = IF HasData(t) THEN [put EXCEPT ![t] = @ + 1] ELSE put
    /\ UNCHANGED <<list, mem, signalled, reporterVars>>

\* ReportServerUDP: the UDP server's own statistics came back, or no
\* acknowledgement did, or the agent is no UDP client.
ReportServerUDP(t) ==
    /\ apc[t] = "closed"
    /\ apc' = [apc EXCEPT ![t] = "relayed"]
    /\ "relay" \in Wants[t]
    /\ Push(ReportOf(t, "relay"))
    /\ UNCHANGED <<put, reporterVars>>

\* The closing packet has been handled (reporterindex = -1).
Drained(t) == apc[t] \in {"closed", "relayed", "done"} /\ got[t] = put[t]

EndReport(t) ==
    /\ apc[t] \in {"closed", "relayed"}
    /\ HasData(t) => Drained(t)
    /\ apc' = [apc EXCEPT ![t] = "done"]
    /\ UNCHANGED <<list, mem, put, signalled, reporterVars>>

Agent(t) ==
    \/ ReportSettings(t) \/ InitReport(t) \/ ReportPacket(t)
    \/ CloseReport(t) \/ ReportServerUDP(t) \/ EndReport(t)

-----------------------------------------------------------------------------
(* The reporter.                                                           *)

\* The test of ReportRoot and the beginning of the wait hold ReportCond.
LoopTest ==
    /\ rpc = "loop"
    /\ rpc' = IF list = <<>> THEN "wait" ELSE "pick"
    /\ signalled' = FALSE
    /\ UNCHANGED <<list, mem, agentVars, type, got, visit, log>>

\* Condition_Wait returns after a signal, or for no reason.
Wake ==
    /\ rpc = "wait"
    /\ signalled
    /\ rpc' = "pick"
    /\ UNCHANGED <<list, mem, signalled, agentVars, type, got, visit, log>>

WakeSpuriously ==
    /\ rpc = "wait"
    /\ ~signalled
    /\ rpc' = "pick"
    /\ UNCHANGED <<list, mem, signalled, agentVars, type, got, visit, log>>

\* temp = ReportRoot; the recursion goes down to the tail before it handles
\* anything, and only the reporter changes the chain behind temp.
Pick ==
    /\ rpc = "pick"
    /\ rpc' = IF list = <<>> THEN "loop" ELSE "visit"
    /\ visit' = list
    /\ UNCHANGED <<list, mem, signalled, agentVars, type, got, log>>

Current == Last(visit)

PositionOf(r) == CHOOSE i \in DOMAIN list : list[i] = r
Unlink(r) == list' = RemoveAt(list, PositionOf(r))

\* Mutant: a finished inner report is freed but stays linked.
LeaveFinishedLinked ==
    IF Len(visit) > 1
    THEN /\ mem' = [mem EXCEPT ![Current] = "freed"]
         /\ visit' = Front(visit)
         /\ rpc' = "visit"
         /\ UNCHANGED list
    ELSE rpc' = "unlink" /\ UNCHANGED <<list, mem, visit>>

\* Done with Current: its caller in the recursion unlinks and frees it at
\* once; the one the walk started from is left to reporter_spawn.
LeaveFinished ==
    IF Len(visit) > 1
    THEN /\ Unlink(Current)
         /\ mem' = [mem EXCEPT ![Current] = "freed"]
         /\ visit' = Front(visit)
         /\ rpc' = "visit"
    ELSE rpc' = "unlink" /\ UNCHANGED <<list, mem, visit>>

\* Current stays linked; after the root of the walk the reporter may sleep.
LeaveLinked ==
    /\ visit' = Front(visit)
    /\ rpc' = IF Len(visit) > 1 THEN "visit" ELSE "nap"
    /\ UNCHANGED <<list, mem>>

PrintPart(part) ==
    /\ type' = [type EXCEPT ![Current] = @ \ {part}]
    /\ log' = Append(log, <<AgentOf(Current), part>>)

\* Settings reports and relayed reports are printed and done with.
VisitWhole ==
    /\ rpc = "visit"
    /\ \E part \in {"settings", "relay"} \cap type[Current] : PrintPart(part)
    /\ LeaveFinished
    /\ UNCHANGED <<signalled, agentVars, got>>

\* A data report announces its connection first; then its packets follow, if
\* it is to print a transfer.
VisitConnection ==
    /\ rpc = "visit"
    /\ "connection" \in type[Current]
    /\ PrintPart("connection")
    /\ IF "transfer" \in type[Current]
       THEN rpc' = "drain" /\ UNCHANGED <<list, mem, visit>>
       ELSE LeaveLinked
    /\ UNCHANGED <<signalled, agentVars, got>>

VisitTransfer ==
    /\ rpc = "visit"
    /\ type[Current] \subseteq {"transfer"}
    /\ Current[2] = "data"
    /\ IF HasData(AgentOf(Current))
       THEN rpc' = "drain" /\ UNCHANGED <<list, mem, visit>>
       ELSE LeaveLinked
    /\ UNCHANGED <<signalled, agentVars, type, got, log>>

\* One packet; the closing one prints the final statistics.
DrainPacket ==
    /\ rpc = "drain"
    /\ LET t == AgentOf(Current)
           closing == apc[t] \in {"closed", "relayed"} /\ got[t] + 1 = put[t]
       IN  /\ got[t] < put[t]
           /\ got' = [got EXCEPT ![t] = @ + 1]
           /\ log' = IF closing THEN Append(log, <<t, "transfer">>) ELSE log
    /\ UNCHANGED <<list, mem, signalled, agentVars, type, rpc, visit>>

\* Mutant: a report whose agent let go of it is kept.
DrainEndKeeps ==
    /\ rpc = "drain"
    /\ got[AgentOf(Current)] = put[AgentOf(Current)]
    /\ LeaveLinked
    /\ UNCHANGED <<signalled, agentVars, type, got, log>>

\* The ring is empty: the report is freed when the agent let go of it.
DrainEnd ==
    /\ rpc = "drain"
    /\ LET t == AgentOf(Current)
       IN  /\ got[t] = put[t]
           /\ IF apc[t] = "done" THEN LeaveFinished ELSE LeaveLinked
    /\ UNCHANGED <<signalled, agentVars, type, got, log>>

\* Mutant: new reports in front of the root are forgotten with it.
UnlinkRootOnly ==
    /\ rpc = "unlink"
    /\ list' = SubSeq(list, 1 + PositionOf(Current), Len(list))
    /\ mem' = [mem EXCEPT ![Current] = "freed"]
    /\ visit' = <<>>
    /\ rpc' = "nap"
    /\ UNCHANGED <<signalled, agentVars, type, got, log>>

\* reporter_spawn unlinks the root of the walk, wherever new reports have put
\* it by now, and frees it.
UnlinkRoot ==
    /\ rpc = "unlink"
    /\ Unlink(Current)
    /\ mem' = [mem EXCEPT ![Current] = "freed"]
    /\ visit' = <<>>
    /\ rpc' = "nap"
    /\ UNCHANGED <<signalled, agentVars, type, got, log>>

\* Condition_TimedWait for at most a second, or no wait at all.
NapEnds ==
    /\ rpc = "nap"
    /\ rpc' = "loop"
    /\ UNCHANGED <<list, mem, signalled, agentVars, type, got, visit, log>>

Reporter ==
    \/ LoopTest \/ Wake \/ Pick
    \/ VisitWhole \/ VisitConnection \/ VisitTransfer
    \/ DrainPacket \/ DrainEnd \/ UnlinkRoot \/ NapEnds

-----------------------------------------------------------------------------
Next == (\E t \in Agents : Agent(t)) \/ Reporter \/ WakeSpuriously

Spec == Init /\ [][Next]_vars

\* All threads are scheduled; a test has a time or an amount, so its agent
\* comes to an end (bound MaxPackets); nobody owes the reporter a spurious
\* wake-up.
Fairness == (\A t \in Agents : WF_vars(Agent(t))) /\ WF_vars(Reporter)

FairSpec == Spec /\ Fairness

-----------------------------------------------------------------------------
(* Properties.                                                             *)

TypeOK ==
    /\ list \in Seq(Reports)
    /\ type \in [Reports -> SUBSET Parts]
    /\ mem \in [Reports -> {"unborn", "linked", "freed"}]
    /\ put \in [Agents -> 0 .. MaxPackets]
    /\ got \in [Agents -> 0 .. MaxPackets]
    /\ apc \in [Agents -> AgentPCs]
    /\ rpc \in ReporterPCs
    /\ visit \in Seq(Reports)
    /\ signalled \in BOOLEAN
    /\ log \in Seq(Agents \X Parts)

\* A report that still gets packets, or whose agent still waits on it
\* (EndReport), is not freed.
NoFreeUnderAgent ==
    \A t \in Agents : mem[ReportOf(t, "data")] = "freed" => apc[t] = "done"

\* The chain from ReportRoot holds every report that was linked in and not
\* freed, once, although agents link new ones in while the reporter, without
\* the lock, unlinks old ones; and what the walk still has to visit is a
\* stretch of the chain, in its order: the recursion never follows a pointer
\* out of a freed or unlinked report, and no agent one into a freed report.
ChainIsSound ==
    /\ TypeOK
    /\ NoFreeUnderAgent
    /\ IsInjective(list)
    /\ Range(list) = {r \in Reports : mem[r] = "linked"}
    /\ \E i \in 0 .. Len(list) : \E j \in i .. Len(list) : visit = SubSeq(list, i + 1, j)

Before(x, y) ==
    \A j \in DOMAIN log : log[j] = y => \E i \in 1 .. j - 1 : log[i] = x

\* No part of a report is printed twice, none is freed unprinted, and an
\* agent's reports come out in the order it made them: the settings and the
\* connection before the final statistics, and those before the statistics the
\* server sent, which the client receives while its own are still being made.
PrintedInOrder ==
    /\ IsInjective(log)
    /\ \A r \in Reports : mem[r] = "freed" =>
         \A part \in TypeOfReport(r) : <<AgentOf(r), part>> \in Range(log)
    /\ \A t \in Agents :
        /\ "settings" \in Wants[t] =>
             /\ Before(<<t, "settings">>, <<t, "connection">>)
             /\ Before(<<t, "settings">>, <<t, "transfer">>)
        /\ "connection" \in Wants[t] =>
             /\ Before(<<t, "connection">>, <<t, "transfer">>)
             /\ Before(<<t, "connection">>, <<t, "relay">>)
        /\ HasData(t) => Before(<<t, "transfer">>, <<t, "relay">>)

\* Every agent gets through, and what it linked in is printed.
EverythingPrinted ==
    /\ \A t \in Agents : <>(apc[t] = "done")
    /\ \A r \in Reports : mem[r] = "linked" ~>
         \A part \in TypeOfReport(r) : <<AgentOf(r), part>> \in Range(log)

\* "the reporter thread which knows when it is ok to quit (aka no pending
\* reports)" (Thread.c:325): when all agents are done and all is printed, the
\* reporter comes to its ignorable wait.
ReporterBecomesIgnorable == <>(rpc = "wait" /\ \A t \in Agents : apc[t] = "done")
=============================================================================

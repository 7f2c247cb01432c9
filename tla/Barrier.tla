------------------------------ MODULE Barrier ------------------------------
(***************************************************************************)
(* BarrierClient: the client threads of one test with parallel streams     *)
(* wait for each other in InitReport, so that all their reports carry the  *)
(* same start time.  The MultiHeader counts the threads still to come down *)
(* to zero; whoever brings it there sets the time and wakes the others,    *)
(* and every thread that leaves counts itself back in, because the         *)
(* reporter later compares the number of contributions to a sum with       *)
(* multihdr->threads.                                                      *)
(***************************************************************************)
EXTENDS Integers, FiniteSets

CONSTANTS
    Clients,    \* the client threads of one test
    MaxTime     \* bound on the clock

ASSUME ClientsAssumption == IsFiniteSet(Clients) /\ Cardinality(Clients) \in Nat \ {0}
ASSUME MaxTimeAssumption == MaxTime \in Nat \ {0}

VARIABLES
    threads,        \* multihdr->threads
    groupStart,     \* multihdr->startTime, Unset until somebody sets it
    startTime,      \* report.startTime of each client
    pc,             \* where each client is
    clock           \* gettimeofday

barrierVars == <<threads, groupStart, startTime, pc, clock>>

Unset == 0

\* "waiting" is the condition wait, "woken" its end, before the mutex is taken
\* again; "past" is behind the mutex, "linked" is the end of InitReport.
PCs == {"coming", "waiting", "woken", "past", "linked"}

\* InitMulti
BarrierInit ==
    /\ threads = Cardinality(Clients)
    /\ groupStart = Unset
    /\ startTime = [c \in Clients |-> Unset]
    /\ pc = [c \in Clients |-> "coming"]
    /\ clock = 1

Tick ==
    /\ clock < MaxTime
    /\ clock' = clock + 1
    /\ UNCHANGED <<threads, groupStart, startTime, pc>>

\* Not the last one: wait.
ArriveAndWait(c) ==
    /\ pc[c] = "coming"
    /\ threads - 1 # 0
    /\ threads' = threads - 1
    /\ pc' = [pc EXCEPT ![c] = "waiting"]
    /\ UNCHANGED <<groupStart, startTime, clock>>

\* Mutant: only one of the waiting threads is woken.
WakeOne ==
    LET asleep == {d \in Clients : pc[d] = "waiting"} IN
    IF asleep = {} THEN pc ELSE [pc EXCEPT ![CHOOSE d \in asleep : TRUE] = "woken"]

\* Condition_Broadcast
WakeAll == [d \in Clients |-> IF pc[d] = "waiting" THEN "woken" ELSE pc[d]]

\* Mutant: the last one sets the time after it has woken the others.
ArriveLastLateTime(c) ==
    /\ pc[c] = "coming"
    /\ threads - 1 = 0
    /\ pc' = [d \in Clients |->
                IF d = c THEN "past" ELSE IF pc[d] = "waiting" THEN "woken" ELSE pc[d]]
    /\ UNCHANGED <<threads, groupStart, startTime, clock>>

\* Mutant: the test comes before the thread has counted itself.
ArriveLastEarly(c) ==
    /\ pc[c] = "coming"
    /\ threads - 1 \in {0, 1}
    /\ groupStart' = clock
    /\ pc' = [d \in Clients |->
                IF d = c THEN "past" ELSE IF pc[d] = "waiting" THEN "woken" ELSE pc[d]]
    /\ UNCHANGED <<threads, startTime, clock>>

\* The last one: set the time, wake everyone and count back in, all under the
\* barrier's mutex.
ArriveLast(c) ==
    /\ pc[c] = "coming"
    /\ threads - 1 = 0
    /\ groupStart' = clock
    /\ pc' = [WakeAll EXCEPT ![c] = "past"]
    /\ UNCHANGED <<threads, startTime, clock>>

\* Mutant: a woken thread does not count itself back in.
LeaveUncounted(c) ==
    /\ pc[c] = "woken"
    /\ pc' = [pc EXCEPT ![c] = "past"]
    /\ UNCHANGED <<threads, groupStart, startTime, clock>>

\* A woken thread gets the mutex back and counts itself in again.
Leave(c) ==
    /\ pc[c] = "woken"
    /\ threads' = threads + 1
    /\ pc' = [pc EXCEPT ![c] = "past"]
    /\ UNCHANGED <<groupStart, startTime, clock>>

\* Behind the barrier the report takes the group's time, without the mutex,
\* and is linked into the list of reports.
LinkReport(c) ==
    /\ pc[c] = "past"
    /\ startTime' = [startTime EXCEPT ![c] = groupStart]
    /\ pc' = [pc EXCEPT ![c] = "linked"]
    /\ UNCHANGED <<threads, groupStart, clock>>

Client(c) == ArriveAndWait(c) \/ ArriveLast(c) \/ Leave(c) \/ LinkReport(c)

Terminated == (\A c \in Clients : pc[c] = "linked") /\ UNCHANGED barrierVars

BarrierNext == (\E c \in Clients : Client(c)) \/ Tick \/ Terminated

BarrierSpec == BarrierInit /\ [][BarrierNext]_barrierVars

\* Every thread of the test was started and is scheduled.
BarrierFairness == \A c \in Clients : WF_barrierVars(Client(c))

BarrierFairSpec == BarrierSpec /\ BarrierFairness

-----------------------------------------------------------------------------
(* Properties.                                                             *)

BarrierTypeOK ==
    /\ threads \in 0 .. Cardinality(Clients)
    /\ groupStart \in 0 .. MaxTime
    /\ startTime \in [Clients -> 0 .. MaxTime]
    /\ pc \in [Clients -> PCs]
    /\ clock \in 1 .. MaxTime

At(places) == {c \in Clients : pc[c] \in places}

\* "BarrierClient allows for multiple stream clients to be syncronized"
\* (Reporter.c:187): nobody gets past it while somebody is still to come.
NobodyStartsEarly == At({"past", "linked"}) # {} => At({"coming"}) = {}

\* Every report of the test carries one and the same start time, a real one.
OneStartTime == \A c \in At({"linked"}) : startTime[c] = groupStart /\ groupStart # Unset

\* The inductive invariant behind them.  The barrier is closed, and threads
\* counts those still to come; or it is open, and threads counts those that
\* have counted themselves back in.
ClosedInv ==
    /\ At({"woken", "past", "linked"}) = {}
    /\ threads = Cardinality(At({"coming"}))

OpenInv ==
    /\ At({"coming", "waiting"}) = {}
    /\ threads = Cardinality(At({"past", "linked"}))
    /\ groupStart # Unset

BarrierInv ==
    /\ BarrierTypeOK
    /\ ClosedInv \/ OpenInv
    /\ OneStartTime

\* When all reports are linked in, multihdr->threads is again the number of
\* threads whose contributions make a complete sum.
CountRestored == At({"linked"}) = Clients => threads = Cardinality(Clients)

\* The barrier opens: nobody waits for ever.
AllStart == <>(At({"linked"}) = Clients)
=============================================================================

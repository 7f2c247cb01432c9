---------------------------- MODULE ThreadCount ----------------------------
(***************************************************************************)
(* The life of one iperf process: Thread.c counts the threads that main    *)
(* still has to wait for (thread_joinall), and the process ends as soon as *)
(* that count is down to zero.  Main starts the reporter, which has the    *)
(* client or the listener started before it; the listener starts a server  *)
(* for each stream, and a server brings a client of its own for a two-way  *)
(* test (runNow: before it, runNext: after it).  The reporter leaves the   *)
(* count while it has nothing to print, and the listener leaves it when a  *)
(* signal has released the non-terminating threads.                        *)
(*                                                                         *)
(* Every critical section of thread_sNum_cond is one action.  A transfer's *)
(* report is here either linked in or not: ReportList has the details.     *)
(***************************************************************************)
EXTENDS Integers, Sequences, FiniteSets

CONSTANTS
    Threads,        \* thread_Settings objects of the process
    Reporter,       \* the one whose mode is "reporter"
    None,           \* NULL, no thread
    Main,           \* the main thread
    Processes,      \* the ways the process can be set up, see ProcessType
    Faulty,         \* threads that pthread_create or a FAIL may cost
    MaxInterrupts   \* bound on the user's signals

Modes == {"reporter", "listener", "client", "server"}

\* runNow and runNext of each thread; the listener's mThreads, 0: no limit;
\* the TCP clients that run for a time.
ProcessType ==
    [mode : [Threads -> Modes],
     runNow : [Threads -> Threads \cup {None}],
     runNext : [Threads -> Threads \cup {None}],
     mThreads : Nat,
     timed : SUBSET Threads]

ASSUME ThreadsAssumption ==
    /\ IsFiniteSet(Threads)
    /\ Reporter \in Threads
    /\ None \notin Threads /\ Main \notin Threads /\ Main # None
ASSUME ProcessesAssumption ==
    /\ Processes \subseteq ProcessType
    /\ \A p \in Processes : \A t \in Threads : p.mode[t] = "reporter" <=> t = Reporter
ASSUME FaultyAssumption == Faulty \subseteq Threads \ {Reporter}
\* One listener: that of -s, or the client's own for -d and -r.
ASSUME ListenerAssumption ==
    \A p \in Processes : \A t, u \in Threads :
        p.mode[t] = "listener" => t \notin Faulty /\ (p.mode[u] = "listener" => u = t)
ASSUME MaxInterruptsAssumption == MaxInterrupts \in Nat

VARIABLES
    process,            \* the set-up chosen, never changed
    thread_sNum,        \* threads to wait for
    nonterminating_num, \* non-terminating ones among them
    life,               \* where each thread is
    starting,           \* per thread, the thread_start calls it is in, innermost first
    mClients,           \* streams the listener still accepts
    reporting,          \* where the reporter is
    reports,            \* threads with a report linked in at ReportRoot
    main,               \* where main is
    sInterupted,        \* "global flag to signal a user interrupt"
    sThread,            \* thread that received the first signal
    timer,              \* an interval timer of RunTCP is armed
    interrupts          \* signals the user has sent

counters == <<thread_sNum, nonterminating_num>>
signals == <<sInterupted, sThread, timer, interrupts>>
vars == <<process, counters, life, starting, mClients, reporting, reports, main, signals>>

Starters == Threads \cup {Main}
Modal(m) == {t \in Threads : process.mode[t] = m}
Transfers == Modal("client") \cup Modal("server")
Listeners == Modal("listener")

Lives == {"unborn", "counted", "running", "registered", "accepting", "serving",
          "closing", "transfer", "returned", "leaving", "gone", "failed", "stopped"}

\* Threads whose own increment of thread_sNum has not been taken back.
CountedLives == Lives \ {"unborn", "leaving", "gone", "failed", "stopped"}

Init ==
    /\ process \in Processes
    /\ thread_sNum = 0
    /\ nonterminating_num = 0
    /\ life = [t \in Threads |-> "unborn"]
    /\ starting = [s \in Starters |-> IF s = Main THEN <<Reporter>> ELSE <<>>]
    /\ mClients = process.mThreads
    /\ reporting = "off"
    /\ reports = {}
    /\ main = "starting"
    /\ sInterupted = FALSE
    /\ sThread = None
    /\ timer = FALSE
    /\ interrupts = 0

Running == main \notin {"exited", "killed"}

Become(t, l) == life' = [life EXCEPT ![t] = l]

\* Condition_Signal of thread_sNum_cond: only main waits on it.
SignalMain == main' = IF main = "asleep" THEN "testing" ELSE main

\* A report is linked in and ReportCond signalled.
PushReport(t) ==
    /\ reports' = reports \cup {t}
    /\ reporting' = IF reporting = "ignored" THEN "woken" ELSE reporting

-----------------------------------------------------------------------------
(* thread_start, called by main, a listener, or a thread about to end.     *)

StartRunNow(s) ==
    /\ starting[s] # <<>>
    /\ LET t == Head(starting[s])
       IN  /\ life[t] = "unborn"
           /\ process.runNow[t] # None
           /\ life[process.runNow[t]] = "unborn"
           /\ starting' = [starting EXCEPT ![s] = <<process.runNow[t]>> \o @]
    /\ UNCHANGED <<process, counters, life, mClients, reporting, reports, main, signals>>

\* Mutant: a thread is started without being counted.
CountThreadNot(s) ==
    /\ starting[s] # <<>>
    /\ LET t == Head(starting[s])
       IN  /\ life[t] = "unborn"
           /\ process.runNow[t] # None => life[process.runNow[t]] # "unborn"
           /\ Become(t, "counted")
    /\ UNCHANGED <<process, counters, starting, mClients, reporting, reports, main, signals>>

CountThread(s) ==
    /\ starting[s] # <<>>
    /\ LET t == Head(starting[s])
       IN  /\ life[t] = "unborn"
           /\ process.runNow[t] # None => life[process.runNow[t]] # "unborn"
           /\ Become(t, "counted")
    /\ thread_sNum' = thread_sNum + 1
    /\ UNCHANGED <<process, nonterminating_num, starting, mClients, reporting,
                   reports, main, signals>>

CreateThread(s) ==
    /\ starting[s] # <<>>
    /\ LET t == Head(starting[s])
       IN  /\ life[t] = "counted"
           /\ Become(t, "running")
           /\ reporting' = IF t = Reporter THEN "busy" ELSE reporting
    /\ starting' = [starting EXCEPT ![s] = Tail(@)]
    /\ UNCHANGED <<process, counters, mClients, reports, main, signals>>

\* Mutant: a thread that could not be created stays in the count.
CreateThreadFailsCounted(s) ==
    /\ starting[s] # <<>>
    /\ LET t == Head(starting[s])
       IN  life[t] = "counted" /\ t \in Faulty /\ Become(t, "failed")
    /\ starting' = [starting EXCEPT ![s] = Tail(@)]
    /\ UNCHANGED <<process, counters, mClients, reporting, reports, main, signals>>

\* pthread_create fails: a warning, and the count is taken back.
CreateThreadFails(s) ==
    /\ starting[s] # <<>>
    /\ LET t == Head(starting[s])
       IN  life[t] = "counted" /\ t \in Faulty /\ Become(t, "failed")
    /\ thread_sNum' = thread_sNum - 1
    /\ starting' = [starting EXCEPT ![s] = Tail(@)]
    /\ UNCHANGED <<process, nonterminating_num, mClients, reporting, reports, main, signals>>

ThreadStart(s) ==
    StartRunNow(s) \/ CountThread(s) \/ CreateThread(s) \/ CreateThreadFails(s)

-----------------------------------------------------------------------------
(* thread_run_wrapper and what it spawns.                                  *)

\* A client's or server's InitReport; RunTCP arms the timer behind it.
BeginTransfer(t) ==
    /\ t \in Transfers /\ life[t] = "running"
    /\ Become(t, "transfer")
    /\ PushReport(t)
    /\ timer' = (timer \/ t \in process.timed)
    /\ UNCHANGED <<process, counters, starting, mClients, main,
                   sInterupted, sThread, interrupts>>

\* Mutant: the transfer's end does not wait for the reporter.
EndTransferNoWait(t) ==
    /\ life[t] = "transfer"
    /\ Become(t, "returned")
    /\ UNCHANGED <<process, counters, starting, mClients, reporting, reports, main, signals>>

\* The test's time, amount or stream is over; EndReport waits until the
\* reporter has handled the packets.
EndTransfer(t) ==
    /\ life[t] = "transfer"
    /\ reporting = "busy"
    /\ Become(t, "returned")
    /\ UNCHANGED <<process, counters, starting, mClients, reporting, reports, main, signals>>

\* Mutant: a non-terminating thread leaves the count at once.
thread_register_nontermUncounts(t) ==
    /\ t \in Listeners /\ life[t] = "running"
    /\ Become(t, "registered")
    /\ thread_sNum' = thread_sNum - 1
    /\ UNCHANGED <<process, nonterminating_num, starting, mClients, reporting, reports,
                   main, signals>>

thread_register_nonterm(t) ==
    /\ t \in Listeners /\ life[t] = "running"
    /\ Become(t, "registered")
    /\ nonterminating_num' = nonterminating_num + 1
    /\ UNCHANGED <<process, thread_sNum, starting, mClients, reporting, reports,
                   main, signals>>

\* The listener's constructor reports its settings.
ReportSettings(t) ==
    /\ life[t] = "registered"
    /\ Become(t, "accepting")
    /\ PushReport(t)
    /\ UNCHANGED <<process, counters, starting, mClients, main, signals>>

\* A stream comes in.  After an interrupt the listener turns it away and ends.
Accept(t) ==
    /\ life[t] = "accepting"
    /\ \E s \in Modal("server") :
         /\ life[s] = "unborn"
         /\ IF sInterupted
            THEN Become(t, "closing") /\ UNCHANGED starting
            ELSE /\ Become(t, "serving")
                 /\ starting' = [starting EXCEPT ![t] = <<s>>]
    /\ UNCHANGED <<process, counters, mClients, reporting, reports, main, signals>>

\* The end of the listener's loop: another stream?
NextClient(t) ==
    /\ life[t] = "serving"
    /\ starting[t] = <<>>
    /\ mClients' = mClients - 1
    /\ Become(t, IF ~sInterupted /\ (process.mThreads = 0 \/ mClients' > 0)
                 THEN "accepting" ELSE "closing")
    /\ UNCHANGED <<process, counters, starting, reporting, reports, main, signals>>

\* A listener that was released meanwhile is added back to the threads to
\* wait on.
thread_unregister_nonterm(t) ==
    /\ life[t] = "closing"
    /\ Become(t, "returned")
    /\ IF nonterminating_num = 0
       THEN thread_sNum' = thread_sNum + 1 /\ UNCHANGED nonterminating_num
       ELSE nonterminating_num' = nonterminating_num - 1 /\ UNCHANGED thread_sNum
    /\ UNCHANGED <<process, starting, mClients, reporting, reports, main, signals>>

\* The wrapper takes the thread out of the count ...
Uncount(t) ==
    /\ life[t] = "returned"
    /\ Become(t, "leaving")
    /\ thread_sNum' = thread_sNum - 1
    /\ SignalMain
    /\ UNCHANGED <<process, nonterminating_num, starting, mClients, reporting,
                   reports, signals>>

\* ... and only then starts the thread that is to run next.
StartRunNext(t) ==
    /\ life[t] = "leaving"
    /\ Become(t, "gone")
    /\ starting' = [starting EXCEPT ![t] =
                      IF process.runNext[t] = None THEN <<>> ELSE <<process.runNext[t]>>]
    /\ UNCHANGED <<process, counters, mClients, reporting, reports, main, signals>>

\* FAIL: the thread ends itself, and neither unregisters nor starts another.
thread_stop(t) ==
    /\ t \in Faulty
    /\ life[t] \in {"running", "accepting"}
    /\ Become(t, "stopped")
    /\ thread_sNum' = thread_sNum - 1
    /\ SignalMain
    /\ UNCHANGED <<process, nonterminating_num, starting, mClients, reporting,
                   reports, signals>>

-----------------------------------------------------------------------------
(* reporter_spawn, as far as the count is concerned.                       *)

\* Nothing linked in: leave the count and wait, both under ReportCond.
thread_setignore ==
    /\ reporting = "busy"
    /\ reports = {}
    /\ reporting' = "ignored"
    /\ thread_sNum' = thread_sNum - 1
    /\ SignalMain
    /\ UNCHANGED <<process, nonterminating_num, life, starting, mClients, reports, signals>>

\* Woken, the reporter has to take ReportCond before it is counted again.
thread_unsetignore ==
    /\ reporting = "woken"
    /\ reporting' = "busy"
    /\ thread_sNum' = thread_sNum + 1
    /\ SignalMain
    /\ UNCHANGED <<process, nonterminating_num, life, starting, mClients, reports, signals>>

\* A settings report, or a transfer's after EndReport, is unlinked and freed.
FreeReport ==
    /\ reporting = "busy"
    /\ \E t \in reports : life[t] # "transfer" /\ reports' = reports \ {t}
    /\ UNCHANGED <<process, counters, life, starting, mClients, reporting, main, signals>>

-----------------------------------------------------------------------------
(* Signals, handled on any thread.                                         *)

Receivers ==
    {Main} \cup {t \in Threads : life[t] \in
                   {"running", "registered", "accepting", "serving", "closing",
                    "transfer", "returned", "leaving"}}

\* Mutant: main is not told that the count has gone down.
thread_release_nontermSilent ==
    /\ thread_sNum' = thread_sNum - nonterminating_num
    /\ nonterminating_num' = 0
    /\ UNCHANGED main

thread_release_nonterm ==
    /\ thread_sNum' = thread_sNum - nonterminating_num
    /\ nonterminating_num' = 0
    /\ SignalMain

\* A thread that gets a second signal exits; the first one, and any on other
\* threads, release the listener.
Sig_Interupt ==
    /\ \E x \in Receivers :
         IF sThread = x
         THEN /\ main' = "killed"
              /\ UNCHANGED <<counters, sInterupted, sThread>>
         ELSE /\ sThread' = IF sThread = None THEN x ELSE sThread
              /\ sInterupted' = TRUE
              /\ thread_release_nonterm
    /\ UNCHANGED <<process, life, starting, mClients, reporting, reports>>

\* Ctrl-C
Interrupt ==
    /\ interrupts < MaxInterrupts
    /\ interrupts' = interrupts + 1
    /\ Sig_Interupt
    /\ UNCHANGED timer

\* SIGALRM has the same handler.
TimerFires ==
    /\ timer
    /\ timer' = FALSE
    /\ Sig_Interupt
    /\ UNCHANGED interrupts

-----------------------------------------------------------------------------
(* main                                                                    *)

BeginJoin ==
    /\ main = "starting"
    /\ starting[Main] = <<>>
    /\ main' = "testing"
    /\ UNCHANGED <<process, counters, life, starting, mClients, reporting, reports, signals>>

\* The test of thread_joinall's loop; Condition_Wait begins under the lock.
thread_joinall ==
    /\ main = "testing"
    /\ main' = IF thread_sNum > 0 THEN "asleep" ELSE "exited"
    /\ UNCHANGED <<process, counters, life, starting, mClients, reporting, reports, signals>>

-----------------------------------------------------------------------------
ListenerStep(t) ==
    \/ thread_register_nonterm(t) \/ ReportSettings(t)
    \/ NextClient(t) \/ thread_unregister_nonterm(t)

\* What a thread does without waiting for anyone outside the process.
ThreadStep(t) ==
    \/ ThreadStart(t) \/ BeginTransfer(t) \/ EndTransfer(t) \/ ListenerStep(t)
    \/ Uncount(t) \/ StartRunNext(t)

ReporterStep == thread_setignore \/ thread_unsetignore \/ FreeReport

MainStep == ThreadStart(Main) \/ BeginJoin \/ thread_joinall

Next ==
    \/ Running /\
         \/ \E t \in Threads : ThreadStep(t) \/ Accept(t) \/ thread_stop(t)
         \/ ReporterStep
         \/ MainStep
         \/ Interrupt
         \/ TimerFires
    \/ ~Running /\ UNCHANGED vars

Spec == Init /\ [][Next]_vars

\* All threads are scheduled and every transfer ends; nobody has to connect,
\* to interrupt or to fail.
Fairness ==
    /\ \A t \in Threads : WF_vars(Running /\ ThreadStep(t))
    /\ WF_vars(Running /\ ReporterStep)
    /\ WF_vars(Running /\ MainStep)
    /\ WF_vars(Running /\ TimerFires)

FairSpec == Spec /\ Fairness

-----------------------------------------------------------------------------
(* Properties.                                                             *)

TypeOK ==
    /\ process \in Processes
    /\ thread_sNum \in Int
    /\ nonterminating_num \in Nat
    /\ life \in [Threads -> Lives]
    /\ starting \in [Starters -> Seq(Threads)]
    /\ mClients \in Int
    /\ reporting \in {"off", "busy", "ignored", "woken"}
    /\ reports \subseteq Threads
    /\ main \in {"starting", "testing", "asleep", "exited", "killed"}
    /\ sInterupted \in BOOLEAN
    /\ sThread \in Starters \cup {None}
    /\ timer \in BOOLEAN
    /\ interrupts \in 0 .. MaxInterrupts

\* Listeners between thread_register_nonterm and thread_unregister_nonterm.
RegisteredLives == {"registered", "accepting", "serving", "closing"}
Registered == {t \in Listeners : life[t] \in RegisteredLives}

Released == IF nonterminating_num = 0 THEN Registered ELSE {}

\* The threads that main has to wait for.
Awaited ==
    {t \in Threads : /\ life[t] \in CountedLives
                     /\ t = Reporter => reporting \notin {"ignored", "woken"}
                     /\ t \notin Released}

\* "Depends on the thread count being accurate" (Thread.c:289): through starts,
\* failed starts, releases by signals at any moment, and the reporter's leaves,
\* thread_sNum is the number of threads to wait for.
CountAccurate == TypeOK /\ thread_sNum = Cardinality(Awaited)

\* Why: a listener that is registered and not released is the one in
\* nonterminating_num, and the reporter lives as long as the process.
ListenerInv ==
    /\ nonterminating_num \in {0, 1}
    /\ nonterminating_num = 1 => Registered # {}
    /\ \A t \in Threads : life[t] \in RegisteredLives => t \in Listeners
ReporterInv ==
    /\ life[Reporter] \in {"unborn", "counted", "running"}
    /\ reporting = "off" <=> life[Reporter] # "running"
CountInv == CountAccurate /\ ListenerInv /\ ReporterInv

\* "Wait for all thread object's execution to complete" (Thread.c:288): unless
\* the user interrupts, main ends only when every thread of the process that
\* is to run has been started and has ended.
AllJoined ==
    main = "exited" /\ interrupts = 0 =>
        /\ \A t \in Threads \ {Reporter} :
             /\ life[t] \notin CountedLives
             /\ life[t] = "leaving" => process.runNext[t] = None
        /\ \A s \in Starters : starting[s] = <<>>

\* "Stop main thread from exiting until done with all reports" (Reporter.c:568):
\* even after an interrupt no transfer's report is left unprinted.
TransfersReported == main = "exited" => reports \cap Transfers = {}

\* Why: while the reporter is out of the count, or not there yet, the thread of
\* each such report waits in EndReport and is counted itself.
ReportsInv ==
    \A t \in reports \cap Transfers : reporting # "busy" => life[t] = "transfer"

\* Unless the user interrupts, a listener with a limit ("-P", or the client's
\* own for "-d" and "-r") has served that many streams when the process ends.
ListenerServed ==
    main = "exited" /\ interrupts = 0 /\ process.mThreads > 0 =>
        Cardinality({s \in Modal("server") : life[s] # "unborn"}) >= process.mThreads

\* The command lines for which main joins everybody, and the listener serves:
\* none that has a client's timer release a listener, and none that ends its
\* listener before a thread that is to run next.  Servers come from streams only.
JoinWiring(p) ==
    /\ \A t, u \in Threads : p.mode[u] = "listener" /\ u \in {p.runNow[t], p.runNext[t]} => p.timed = {}
    /\ \A t \in Threads : p.runNext[t] # None => p.mode[t] = "server" /\ p.mThreads = 0
    /\ \A t, u \in Threads : u \in {p.runNow[t], p.runNext[t]} => p.mode[u] # "server"

\* A listener with a limit is brought by the reporter, or by clients that are.
ListenerWiring(p) ==
    p.mThreads > 0 =>
        \E chain \in SUBSET Threads :
            /\ Reporter \in chain
            /\ \E l \in chain : p.mode[l] = "listener"
            /\ \A t \in chain : p.mode[t] = "listener" \/ p.runNow[t] \in chain

\* main does not sleep on when nobody is left to wait for: the signals to
\* thread_sNum_cond suffice.
JoinReturns == <>[](main # "starting" /\ Awaited = {}) => <>(~Running)
=============================================================================

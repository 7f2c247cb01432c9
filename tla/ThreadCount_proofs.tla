------------------------- MODULE ThreadCount_proofs -------------------------
(***************************************************************************)
(* Proofs about ThreadCount, for any finite set of threads, any ways they  *)
(* start each other, any threads that fail and any number of signals:      *)
(* thread_sNum is the number of threads that main has to wait for, main    *)
(* does not end before the reports are printed and, if the threads are     *)
(* wired as they are but for two findings, not before all threads have.    *)
(***************************************************************************)
EXTENDS ThreadCount, FiniteSetTheorems, SequenceTheorems, TLAPS

USE ThreadsAssumption, FaultyAssumption, MaxInterruptsAssumption

\* The modes of a process: one reporter, one listener, which does not fail.
LEMMA OneOfEach ==
    ASSUME process \in Processes
    PROVE  /\ Reporter \notin Listeners /\ Reporter \notin Transfers
           /\ Transfers \subseteq Threads /\ Listeners \subseteq Threads
           /\ \A t, u \in Listeners : t = u
           /\ \A t \in Listeners : t \notin Faulty /\ t \notin Transfers
BY ProcessesAssumption, ListenerAssumption DEF Listeners, Transfers, Modal

LEMMA AwaitedFinite == IsFiniteSet(Awaited) /\ Cardinality(Awaited) \in Nat
  <1>1. Awaited \subseteq Threads
    BY DEF Awaited
  <1> QED
    BY <1>1, FS_Subset, FS_CardinalityType

-----------------------------------------------------------------------------
(* A step keeps the count if the counter moves with the set.               *)

LEMMA SameAwaited ==
    ASSUME CountAccurate, Awaited' = Awaited, thread_sNum' = thread_sNum
    PROVE  thread_sNum' = Cardinality(Awaited)'
BY DEF CountAccurate

LEMMA OneMore ==
    ASSUME CountAccurate, NEW t, t \notin Awaited, Awaited' = Awaited \cup {t},
           thread_sNum' = thread_sNum + 1
    PROVE  thread_sNum' = Cardinality(Awaited)'
  <1>1. Cardinality(Awaited \cup {t}) = Cardinality(Awaited) + 1
    BY AwaitedFinite, FS_AddElement
  <1> QED
    BY <1>1 DEF CountAccurate

LEMMA OneLess ==
    ASSUME CountAccurate, NEW t \in Awaited, Awaited' = Awaited \ {t},
           thread_sNum' = thread_sNum - 1
    PROVE  thread_sNum' = Cardinality(Awaited)'
  <1>1. Cardinality(Awaited \ {t}) = Cardinality(Awaited) - 1
    BY AwaitedFinite, FS_RemoveElement
  <1> QED
    BY <1>1 DEF CountAccurate

\* What Become does to the others.
LEMMA BecomeMoves ==
    ASSUME TypeOK, NEW t \in Threads, NEW l \in Lives, Become(t, l)
    PROVE  /\ life' \in [Threads -> Lives]
           /\ \A u \in Threads : life'[u] = IF u = t THEN l ELSE life[u]
BY DEF TypeOK, Become

-----------------------------------------------------------------------------
(* Types.                                                                  *)

\* The listener's part and the reporter's part of the count, of which most
\* steps change neither.
LEMMA SameThreads ==
    ASSUME CountInv, TypeOK', UNCHANGED <<process, thread_sNum, nonterminating_num, life, reporting>>
    PROVE  CountInv'
  <1>1. Awaited' = Awaited /\ Registered' = Registered /\ Listeners' = Listeners
    BY DEF Awaited, Released, Registered, Listeners, Modal
  <1> QED
    BY <1>1 DEF CountInv, CountAccurate, ListenerInv, ReporterInv

LEMMA InitCount == Init => CountInv
  <1> SUFFICES ASSUME Init
               PROVE  CountInv
    OBVIOUS
  <1>1. TypeOK
    <2>1. starting \in [Starters -> Seq(Threads)]
      BY DEF Init
    <2>2. mClients \in Int
      BY ProcessesAssumption DEF Init, ProcessType
    <2>3. life \in [Threads -> Lives]
      BY DEF Init, Lives
    <2>4. thread_sNum \in Int /\ nonterminating_num \in Nat /\ interrupts \in 0 .. MaxInterrupts
      BY DEF Init
    <2> QED
      BY <2>1, <2>2, <2>3, <2>4, Zenon DEF Init, TypeOK
  <1>2. \A t \in Threads : life[t] = "unborn"
    BY DEF Init
  <1>3. Awaited = {}
    BY <1>2 DEF Awaited, CountedLives
  <1>4. ListenerInv /\ ReporterInv
    BY <1>2 DEF Init, ListenerInv, ReporterInv, RegisteredLives
  <1> QED
    BY <1>1, <1>3, <1>4, FS_EmptySet DEF Init, CountInv, CountAccurate

-----------------------------------------------------------------------------
(* thread_start.                                                           *)

LEMMA HeadIsThread ==
    ASSUME TypeOK, NEW s \in Starters, starting[s] # <<>>
    PROVE  /\ Head(starting[s]) \in Threads
           /\ Tail(starting[s]) \in Seq(Threads)
           /\ \A u \in Threads : <<u>> \o starting[s] \in Seq(Threads)
  <1>1. starting[s] \in Seq(Threads)
    BY DEF TypeOK
  <1> QED
    BY <1>1

LEMMA ThreadStartKeepsCount ==
    ASSUME CountInv, NEW s \in Starters, ThreadStart(s)
    PROVE  CountInv'
  <1>1. TypeOK /\ CountAccurate /\ ListenerInv /\ ReporterInv
    BY DEF CountInv, CountAccurate
  <1> DEFINE t == Head(starting[s])
  <1>2. /\ starting[s] # <<>> /\ t \in Threads
        /\ Tail(starting[s]) \in Seq(Threads)
        /\ \A u \in Threads : <<u>> \o starting[s] \in Seq(Threads)
    BY <1>1, HeadIsThread DEF ThreadStart, StartRunNow, CountThread, CreateThread, CreateThreadFails
  <1>3. process.runNow[t] \in Threads \cup {None}
    BY <1>1, <1>2, ProcessesAssumption DEF TypeOK, ProcessType
  <1>4. CASE StartRunNow(s)
    <2>1. starting' \in [Starters -> Seq(Threads)]
      BY <1>1, <1>2, <1>3, <1>4 DEF StartRunNow, TypeOK
    <2>2. UNCHANGED <<process, counters, life, mClients, reporting, reports, main, signals>>
      BY <1>4 DEF StartRunNow
    <2>3. TypeOK'
      BY <1>1, <2>1, <2>2 DEF TypeOK, counters, signals
    <2> QED
      BY <2>2, <2>3, SameThreads DEF counters
  <1>5. CASE CountThread(s)
    <2>1. /\ Become(t, "counted") /\ life[t] = "unborn" /\ thread_sNum' = thread_sNum + 1
          /\ UNCHANGED <<process, nonterminating_num, starting, mClients, reporting, reports, main, signals>>
      BY <1>5 DEF CountThread
    <2> HIDE DEF t
    <2>2. life' \in [Threads -> Lives] /\ \A u \in Threads : life'[u] = IF u = t THEN "counted" ELSE life[u]
      BY <1>1, <1>2, <2>1, BecomeMoves DEF Lives
    <2>3. TypeOK'
      BY <1>1, <2>1, <2>2 DEF TypeOK, signals
    <2>4. Listeners' = Listeners
      BY <2>1 DEF Listeners, Modal
    <2>5. Registered' = Registered
      BY <2>1, <2>2, <2>4 DEF Registered, RegisteredLives, Listeners, Modal
    <2>6. t \notin Registered /\ t \notin Awaited
      BY <2>1 DEF Registered, RegisteredLives, Awaited, CountedLives
    <2>7. Awaited' = Awaited \cup {t}
      <3>1. Released' = Released /\ t \notin Released
        BY <2>1, <2>5, <2>6 DEF Released
      <3>2. t = Reporter => reporting = "off"
        BY <1>1, <2>1 DEF ReporterInv
      <3> QED
        BY <1>2, <2>1, <2>2, <3>1, <3>2 DEF Awaited, CountedLives, Lives
    <2>8. thread_sNum' = Cardinality(Awaited)'
      BY <1>1, <2>1, <2>6, <2>7, OneMore
    <2>9. ListenerInv' /\ ReporterInv'
      BY <1>1, <1>2, <2>1, <2>2, <2>4, <2>5 DEF ListenerInv, ReporterInv, RegisteredLives
    <2> QED
      BY <2>3, <2>8, <2>9 DEF CountInv, CountAccurate
  <1>6. CASE CreateThread(s)
    <2>1. /\ Become(t, "running") /\ life[t] = "counted"
          /\ reporting' = IF t = Reporter THEN "busy" ELSE reporting
          /\ starting' = [starting EXCEPT ![s] = Tail(@)]
          /\ UNCHANGED <<process, counters, mClients, reports, main, signals>>
      BY <1>6 DEF CreateThread
    <2>2. starting' \in [Starters -> Seq(Threads)]
      BY <1>1, <1>2, <2>1 DEF TypeOK
    <2> HIDE DEF t
    <2>3. life' \in [Threads -> Lives] /\ \A u \in Threads : life'[u] = IF u = t THEN "running" ELSE life[u]
      BY <1>1, <1>2, <2>1, BecomeMoves DEF Lives
    <2>4. TypeOK'
      BY <1>1, <2>1, <2>2, <2>3 DEF TypeOK, counters, signals
    <2>5. Listeners' = Listeners
      BY <2>1 DEF Listeners, Modal
    <2>6. Registered' = Registered
      BY <2>1, <2>3, <2>5 DEF Registered, RegisteredLives, Listeners, Modal
    <2>7. Awaited' = Awaited
      <3>1. Released' = Released
        BY <2>1, <2>6 DEF Released, counters
      <3>2. t = Reporter => reporting = "off"
        BY <1>1, <2>1 DEF ReporterInv
      <3> QED
        BY <1>2, <2>1, <2>3, <3>1, <3>2 DEF Awaited, CountedLives, Lives
    <2>8. thread_sNum' = Cardinality(Awaited)'
      BY <1>1, <2>1, <2>7, SameAwaited DEF counters
    <2>9. ListenerInv'
      BY <1>1, <1>2, <2>1, <2>3, <2>5, <2>6 DEF ListenerInv, RegisteredLives, counters
    <2>10. ReporterInv'
      BY <1>1, <1>2, <2>1, <2>3 DEF ReporterInv
    <2> QED
      BY <2>4, <2>8, <2>9, <2>10 DEF CountInv, CountAccurate
  <1>7. CASE CreateThreadFails(s)
    <2>1. /\ Become(t, "failed") /\ life[t] = "counted" /\ t \in Faulty
          /\ thread_sNum' = thread_sNum - 1
          /\ starting' = [starting EXCEPT ![s] = Tail(@)]
          /\ UNCHANGED <<process, nonterminating_num, mClients, reporting, reports, main, signals>>
      BY <1>7 DEF CreateThreadFails
    <2>2. starting' \in [Starters -> Seq(Threads)]
      BY <1>1, <1>2, <2>1 DEF TypeOK
    <2> HIDE DEF t
    <2>3. life' \in [Threads -> Lives] /\ \A u \in Threads : life'[u] = IF u = t THEN "failed" ELSE life[u]
      BY <1>1, <1>2, <2>1, BecomeMoves DEF Lives
    <2>4. TypeOK'
      BY <1>1, <2>1, <2>2, <2>3 DEF TypeOK, signals
    <2>5. Listeners' = Listeners
      BY <2>1 DEF Listeners, Modal
    <2>6. Registered' = Registered /\ t \notin Registered
      BY <2>1, <2>3, <2>5 DEF Registered, RegisteredLives, Listeners, Modal
    <2>7. t \in Awaited /\ Awaited' = Awaited \ {t}
      <3>1. Released' = Released /\ t \notin Released
        BY <2>1, <2>6 DEF Released
      <3> QED
        BY <1>2, <2>1, <2>3, <3>1 DEF Awaited, CountedLives, Lives
    <2>8. thread_sNum' = Cardinality(Awaited)'
      BY <1>1, <2>1, <2>7, OneLess
    <2>9. ListenerInv' /\ ReporterInv'
      BY <1>1, <1>2, <2>1, <2>3, <2>5, <2>6 DEF ListenerInv, ReporterInv, RegisteredLives
    <2> QED
      BY <2>4, <2>8, <2>9 DEF CountInv, CountAccurate
  <1> QED
    BY <1>4, <1>5, <1>6, <1>7 DEF ThreadStart

-----------------------------------------------------------------------------
(* A thread other than the reporter moves on.                              *)

\* A step within the counted threads, or outside them, that keeps a listener
\* registered or not; a report may wake the reporter.
LEMMA MoveKeepsCount ==
    ASSUME CountInv, TypeOK', NEW t \in Threads, t # Reporter, NEW l \in Lives, Become(t, l),
           UNCHANGED <<process, thread_sNum, nonterminating_num>>,
           life[t] \in CountedLives <=> l \in CountedLives,
           life[t] \in RegisteredLives <=> l \in RegisteredLives,
           reporting' = reporting \/ (reporting = "ignored" /\ reporting' = "woken")
    PROVE  CountInv'
  <1>1. TypeOK /\ CountAccurate /\ ListenerInv /\ ReporterInv
    BY DEF CountInv, CountAccurate
  <1>2. \A u \in Threads : life'[u] = IF u = t THEN l ELSE life[u]
    BY <1>1, BecomeMoves
  <1>3. Listeners' = Listeners
    BY DEF Listeners, Modal
  <1>4. Registered' = Registered
    BY <1>2, <1>3 DEF Registered, Listeners, Modal
  <1>5. Released' = Released
    BY <1>4 DEF Released
  <1>6. Awaited' = Awaited
    BY <1>2, <1>5 DEF Awaited
  <1>7. thread_sNum' = Cardinality(Awaited)'
    BY <1>1, <1>6, SameAwaited
  <1>8. ListenerInv'
    BY <1>1, <1>2, <1>3, <1>4 DEF ListenerInv
  <1>9. ReporterInv'
    BY <1>1, <1>2 DEF ReporterInv
  <1> QED
    BY <1>7, <1>8, <1>9 DEF CountInv, CountAccurate

\* A counted thread that is not registered leaves the count.
LEMMA LeaveKeepsCount ==
    ASSUME CountInv, TypeOK', NEW t \in Threads, t # Reporter, NEW l \in Lives, Become(t, l),
           UNCHANGED <<process, nonterminating_num, reporting>>,
           thread_sNum' = thread_sNum - 1,
           life[t] \in CountedLives, t \notin Registered,
           l \notin CountedLives
    PROVE  CountInv'
  <1>1. TypeOK /\ CountAccurate /\ ListenerInv /\ ReporterInv
    BY DEF CountInv, CountAccurate
  <1>2. \A u \in Threads : life'[u] = IF u = t THEN l ELSE life[u]
    BY <1>1, BecomeMoves
  <1>3. Listeners' = Listeners
    BY DEF Listeners, Modal
  <1>4. l \notin RegisteredLives
    BY DEF RegisteredLives, CountedLives, Lives
  <1>5. Registered' = Registered
    BY <1>2, <1>3, <1>4 DEF Registered, Listeners, Modal
  <1>6. Released' = Released /\ t \notin Released
    BY <1>5 DEF Released
  <1>7. t \in Awaited /\ Awaited' = Awaited \ {t}
    BY <1>2, <1>6 DEF Awaited
  <1>8. thread_sNum' = Cardinality(Awaited)'
    BY <1>1, <1>7, OneLess
  <1>9. ListenerInv'
    BY <1>1, <1>2, <1>3, <1>4, <1>5 DEF ListenerInv
  <1>10. ReporterInv'
    BY <1>1, <1>2 DEF ReporterInv
  <1> QED
    BY <1>8, <1>9, <1>10 DEF CountInv, CountAccurate

-----------------------------------------------------------------------------
(* Clients and servers.                                                    *)

LEMMA TransferKeepsCount ==
    ASSUME CountInv, NEW t \in Threads,
           BeginTransfer(t) \/ EndTransfer(t) \/ Uncount(t) \/ StartRunNext(t)
    PROVE  CountInv'
  <1>1. TypeOK /\ ReporterInv /\ ListenerInv /\ process \in Processes
    BY DEF CountInv, CountAccurate, TypeOK
  <1>2. t # Reporter
    BY <1>1, OneOfEach DEF ReporterInv, BeginTransfer, EndTransfer, Uncount, StartRunNext
  <1>3. CASE BeginTransfer(t)
    <2>1. /\ Become(t, "transfer") /\ life[t] = "running"
          /\ reports' = reports \cup {t} /\ timer' \in BOOLEAN
          /\ reporting' = IF reporting = "ignored" THEN "woken" ELSE reporting
          /\ UNCHANGED <<process, counters, starting, mClients, main, sInterupted, sThread, interrupts>>
      BY <1>3 DEF BeginTransfer, PushReport
    <2>2. life' \in [Threads -> Lives]
      BY <1>1, <2>1, BecomeMoves DEF Lives
    <2>3. TypeOK'
      BY <1>1, <2>1, <2>2 DEF TypeOK, counters
    <2> QED
      BY <1>2, <2>1, <2>3, MoveKeepsCount DEF Lives, CountedLives, RegisteredLives, counters
  <1>4. CASE EndTransfer(t)
    <2>1. /\ Become(t, "returned") /\ life[t] = "transfer"
          /\ UNCHANGED <<process, counters, starting, mClients, reporting, reports, main, signals>>
      BY <1>4 DEF EndTransfer
    <2>2. life' \in [Threads -> Lives]
      BY <1>1, <2>1, BecomeMoves DEF Lives
    <2>3. TypeOK'
      BY <1>1, <2>1, <2>2 DEF TypeOK, counters, signals
    <2> QED
      BY <1>2, <2>1, <2>3, MoveKeepsCount DEF Lives, CountedLives, RegisteredLives, counters
  <1>5. CASE Uncount(t)
    <2>1. /\ Become(t, "leaving") /\ life[t] = "returned"
          /\ thread_sNum' = thread_sNum - 1
          /\ main' = IF main = "asleep" THEN "testing" ELSE main
          /\ UNCHANGED <<process, nonterminating_num, starting, mClients, reporting, reports, signals>>
      BY <1>5 DEF Uncount, SignalMain
    <2>2. life' \in [Threads -> Lives]
      BY <1>1, <2>1, BecomeMoves DEF Lives
    <2>3. TypeOK'
      BY <1>1, <2>1, <2>2 DEF TypeOK, signals
    <2>4. t \notin Registered
      BY <2>1 DEF Registered, RegisteredLives
    <2> QED
      BY <1>2, <2>1, <2>3, <2>4, LeaveKeepsCount DEF Lives, CountedLives
  <1>6. CASE StartRunNext(t)
    <2>1. /\ Become(t, "gone") /\ life[t] = "leaving"
          /\ starting' = [starting EXCEPT ![t] =
               IF process.runNext[t] = None THEN <<>> ELSE <<process.runNext[t]>>]
          /\ UNCHANGED <<process, counters, mClients, reporting, reports, main, signals>>
      BY <1>6 DEF StartRunNext
    <2>2. life' \in [Threads -> Lives]
      BY <1>1, <2>1, BecomeMoves DEF Lives
    <2>3. process.runNext[t] \in Threads \cup {None}
      BY <1>1, ProcessesAssumption DEF ProcessType
    <2>4. starting' \in [Starters -> Seq(Threads)]
      BY <1>1, <2>1, <2>3 DEF TypeOK, Starters
    <2>5. TypeOK'
      BY <1>1, <2>1, <2>2, <2>4 DEF TypeOK, counters, signals
    <2> QED
      BY <1>2, <2>1, <2>5, MoveKeepsCount DEF Lives, CountedLives, RegisteredLives, counters
  <1> QED
    BY <1>3, <1>4, <1>5, <1>6

\* A thread that fails is no listener.
LEMMA StopKeepsCount ==
    ASSUME CountInv, NEW t \in Threads, thread_stop(t)
    PROVE  CountInv'
  <1>1. TypeOK /\ process \in Processes
    BY DEF CountInv, CountAccurate, TypeOK
  <1>2. /\ Become(t, "stopped") /\ life[t] \in {"running", "accepting"} /\ t \in Faulty
        /\ thread_sNum' = thread_sNum - 1
        /\ main' = IF main = "asleep" THEN "testing" ELSE main
        /\ UNCHANGED <<process, nonterminating_num, starting, mClients, reporting, reports, signals>>
    BY DEF thread_stop, SignalMain
  <1>3. life' \in [Threads -> Lives]
    BY <1>1, <1>2, BecomeMoves DEF Lives
  <1>4. TypeOK'
    BY <1>1, <1>2, <1>3 DEF TypeOK, signals
  <1>5. t # Reporter /\ t \notin Registered
    BY <1>1, <1>2, OneOfEach DEF Registered
  <1> QED
    BY <1>2, <1>4, <1>5, LeaveKeepsCount DEF Lives, CountedLives

-----------------------------------------------------------------------------
(* The listener: while it runs unregistered, nonterminating_num is zero.   *)

LEMMA OnlyListener ==
    ASSUME TypeOK, NEW t \in Threads, life[t] \in RegisteredLives, ListenerInv
    PROVE  t \in Listeners /\ t # Reporter /\ Registered = {t}
  <1>1. t \in Listeners
    BY DEF ListenerInv
  <1> QED
    BY <1>1, OneOfEach DEF TypeOK, Registered

LEMMA RegisterKeepsCount ==
    ASSUME CountInv, NEW t \in Threads, thread_register_nonterm(t)
    PROVE  CountInv'
  <1>1. TypeOK /\ CountAccurate /\ ListenerInv /\ ReporterInv /\ process \in Processes
    BY DEF CountInv, CountAccurate, TypeOK
  <1>2. /\ Become(t, "registered") /\ life[t] = "running" /\ t \in Listeners
        /\ nonterminating_num' = nonterminating_num + 1
        /\ UNCHANGED <<process, thread_sNum, starting, mClients, reporting, reports, main, signals>>
    BY DEF thread_register_nonterm
  <1>3. /\ life' \in [Threads -> Lives]
        /\ \A u \in Threads : life'[u] = IF u = t THEN "registered" ELSE life[u]
    BY <1>1, <1>2, BecomeMoves DEF Lives
  <1>4. TypeOK'
    BY <1>1, <1>2, <1>3 DEF TypeOK, signals
  <1>5. Listeners' = Listeners
    BY <1>2 DEF Listeners, Modal
  <1>6. t # Reporter /\ \A u \in Listeners : u = t
    BY <1>1, <1>2, OneOfEach
  <1>7. Registered = {} /\ Registered' = {t}
    BY <1>2, <1>3, <1>5, <1>6 DEF Registered, RegisteredLives
  <1>8. nonterminating_num = 0 /\ nonterminating_num' = 1
    BY <1>1, <1>2, <1>7 DEF ListenerInv
  <1>9. Released = {} /\ Released' = {}
    BY <1>7, <1>8 DEF Released
  <1>10. Awaited' = Awaited
    BY <1>2, <1>3, <1>6, <1>9 DEF Awaited, CountedLives, Lives
  <1>11. thread_sNum' = Cardinality(Awaited)'
    BY <1>1, <1>2, <1>10, SameAwaited
  <1>12. ListenerInv'
    BY <1>1, <1>2, <1>3, <1>5, <1>7, <1>8 DEF ListenerInv
  <1>13. ReporterInv'
    BY <1>1, <1>2, <1>3, <1>6 DEF ReporterInv
  <1> QED
    BY <1>4, <1>11, <1>12, <1>13 DEF CountInv, CountAccurate

\* A released listener comes back into the count, any other stays in it.
LEMMA UnregisterKeepsCount ==
    ASSUME CountInv, NEW t \in Threads, thread_unregister_nonterm(t)
    PROVE  CountInv'
  <1>1. TypeOK /\ CountAccurate /\ ListenerInv /\ ReporterInv
    BY DEF CountInv, CountAccurate
  <1>2. /\ Become(t, "returned") /\ life[t] = "closing"
        /\ UNCHANGED <<process, starting, mClients, reporting, reports, main, signals>>
    BY DEF thread_unregister_nonterm
  <1>3. \/ /\ nonterminating_num = 0
           /\ thread_sNum' = thread_sNum + 1 /\ nonterminating_num' = nonterminating_num
        \/ /\ nonterminating_num = 1
           /\ nonterminating_num' = 0 /\ thread_sNum' = thread_sNum
    BY <1>1 DEF thread_unregister_nonterm, ListenerInv
  <1>4. /\ life' \in [Threads -> Lives]
        /\ \A u \in Threads : life'[u] = IF u = t THEN "returned" ELSE life[u]
    BY <1>1, <1>2, BecomeMoves DEF Lives
  <1>5. TypeOK'
    BY <1>1, <1>2, <1>3, <1>4 DEF TypeOK, signals
  <1>6. t # Reporter /\ Registered = {t}
    BY <1>1, <1>2, OnlyListener DEF RegisteredLives
  <1>7. Listeners' = Listeners
    BY <1>2 DEF Listeners, Modal
  <1>8. Registered' = {}
    BY <1>4, <1>6, <1>7 DEF Registered, RegisteredLives, Listeners, Modal
  <1>9. Released' = {} /\ nonterminating_num' = 0
    BY <1>3, <1>8 DEF Released
  <1>10. thread_sNum' = Cardinality(Awaited)'
    <2>1. CASE nonterminating_num = 0
      <3>1. t \notin Awaited /\ Released = {t}
        BY <1>6, <2>1 DEF Awaited, Released
      <3>2. Awaited' = Awaited \cup {t}
        BY <1>2, <1>4, <1>6, <1>9, <3>1 DEF Awaited, CountedLives, Lives
      <3> QED
        BY <1>1, <1>3, <2>1, <3>1, <3>2, OneMore
    <2>2. CASE nonterminating_num = 1
      <3>1. Released = {}
        BY <2>2 DEF Released
      <3>2. Awaited' = Awaited
        BY <1>2, <1>4, <1>6, <1>9, <3>1 DEF Awaited, CountedLives, Lives
      <3> QED
        BY <1>1, <1>3, <2>2, <3>2, SameAwaited
    <2> QED
      BY <1>3, <2>1, <2>2
  <1>11. ListenerInv'
    BY <1>1, <1>4, <1>7, <1>9 DEF ListenerInv, RegisteredLives
  <1>12. ReporterInv'
    BY <1>1, <1>2, <1>4, <1>6 DEF ReporterInv
  <1> QED
    BY <1>5, <1>10, <1>11, <1>12 DEF CountInv, CountAccurate

LEMMA AcceptKeepsCount ==
    ASSUME CountInv, NEW t \in Threads, ReportSettings(t) \/ Accept(t) \/ NextClient(t)
    PROVE  CountInv'
  <1>1. TypeOK /\ ListenerInv
    BY DEF CountInv, CountAccurate
  <1>2. life[t] \in RegisteredLives
    BY DEF ReportSettings, Accept, NextClient, RegisteredLives
  <1>3. t # Reporter
    BY <1>1, <1>2, OnlyListener
  <1>4. CASE ReportSettings(t)
    <2>1. /\ Become(t, "accepting") /\ life[t] = "registered"
          /\ reports' = reports \cup {t}
          /\ reporting' = IF reporting = "ignored" THEN "woken" ELSE reporting
          /\ UNCHANGED <<process, counters, starting, mClients, main, signals>>
      BY <1>4 DEF ReportSettings, PushReport
    <2>2. life' \in [Threads -> Lives]
      BY <1>1, <2>1, BecomeMoves DEF Lives
    <2>3. TypeOK'
      BY <1>1, <2>1, <2>2 DEF TypeOK, counters, signals
    <2> QED
      BY <1>3, <2>1, <2>3, MoveKeepsCount DEF Lives, CountedLives, RegisteredLives, counters
  <1>5. CASE Accept(t)
    <2>1. PICK l \in {"serving", "closing"} :
            /\ Become(t, l) /\ life[t] = "accepting"
            /\ \/ UNCHANGED starting
               \/ \E s \in Threads : starting' = [starting EXCEPT ![t] = <<s>>]
            /\ UNCHANGED <<process, counters, mClients, reporting, reports, main, signals>>
      BY <1>5 DEF Accept, Modal
    <2>2. life' \in [Threads -> Lives] /\ l \in Lives
      BY <1>1, <2>1, BecomeMoves DEF Lives
    <2>3. starting' \in [Starters -> Seq(Threads)]
      <3>1. \A s \in Threads : <<s>> \in Seq(Threads)
        OBVIOUS
      <3> QED
        BY <1>1, <2>1, <3>1 DEF TypeOK, Starters
    <2>4. TypeOK'
      BY <1>1, <2>1, <2>2, <2>3 DEF TypeOK, counters, signals
    <2> QED
      BY <1>3, <2>1, <2>2, <2>4, MoveKeepsCount DEF Lives, CountedLives, RegisteredLives, counters
  <1>6. CASE NextClient(t)
    <2>1. PICK l \in {"accepting", "closing"} :
            /\ Become(t, l) /\ life[t] = "serving"
            /\ mClients' = mClients - 1
            /\ UNCHANGED <<process, counters, starting, reporting, reports, main, signals>>
      BY <1>6 DEF NextClient
    <2>2. life' \in [Threads -> Lives] /\ l \in Lives
      BY <1>1, <2>1, BecomeMoves DEF Lives
    <2>3. TypeOK'
      BY <1>1, <2>1, <2>2 DEF TypeOK, counters, signals
    <2> QED
      BY <1>3, <2>1, <2>2, <2>3, MoveKeepsCount DEF Lives, CountedLives, RegisteredLives, counters
  <1> QED
    BY <1>4, <1>5, <1>6

-----------------------------------------------------------------------------
(* The reporter, the signals and main.                                     *)

LEMMA ReporterKeepsCount ==
    ASSUME CountInv, ReporterStep
    PROVE  CountInv'
  <1>1. TypeOK /\ CountAccurate /\ ListenerInv /\ ReporterInv /\ process \in Processes
    BY DEF CountInv, CountAccurate, TypeOK
  <1>2. Reporter \in Threads /\ Reporter \notin Released
    BY <1>1, OneOfEach DEF Released, Registered
  <1>3. CASE thread_setignore
    <2>1. /\ reporting = "busy" /\ reporting' = "ignored"
          /\ thread_sNum' = thread_sNum - 1
          /\ main' = IF main = "asleep" THEN "testing" ELSE main
          /\ UNCHANGED <<process, nonterminating_num, life, starting, mClients, reports, signals>>
      BY <1>3 DEF thread_setignore, SignalMain
    <2>2. TypeOK'
      BY <1>1, <2>1 DEF TypeOK, signals
    <2>3. Registered' = Registered /\ Released' = Released /\ Listeners' = Listeners
      BY <2>1 DEF Released, Registered, Listeners, Modal
    <2>4. life[Reporter] = "running"
      BY <1>1, <2>1 DEF ReporterInv
    <2>5. Reporter \in Awaited /\ Awaited' = Awaited \ {Reporter}
      BY <1>2, <2>1, <2>3, <2>4 DEF Awaited, CountedLives, Lives
    <2>6. thread_sNum' = Cardinality(Awaited)'
      BY <1>1, <2>1, <2>5, OneLess
    <2>7. ListenerInv' /\ ReporterInv'
      BY <1>1, <2>1, <2>3, <2>4 DEF ListenerInv, ReporterInv
    <2> QED
      BY <2>2, <2>6, <2>7 DEF CountInv, CountAccurate
  <1>4. CASE thread_unsetignore
    <2>1. /\ reporting = "woken" /\ reporting' = "busy"
          /\ thread_sNum' = thread_sNum + 1
          /\ main' = IF main = "asleep" THEN "testing" ELSE main
          /\ UNCHANGED <<process, nonterminating_num, life, starting, mClients, reports, signals>>
      BY <1>4 DEF thread_unsetignore, SignalMain
    <2>2. TypeOK'
      BY <1>1, <2>1 DEF TypeOK, signals
    <2>3. Registered' = Registered /\ Released' = Released /\ Listeners' = Listeners
      BY <2>1 DEF Released, Registered, Listeners, Modal
    <2>4. life[Reporter] = "running"
      BY <1>1, <2>1 DEF ReporterInv
    <2>5. Reporter \notin Awaited /\ Awaited' = Awaited \cup {Reporter}
      BY <1>2, <2>1, <2>3, <2>4 DEF Awaited, CountedLives, Lives
    <2>6. thread_sNum' = Cardinality(Awaited)'
      BY <1>1, <2>1, <2>5, OneMore
    <2>7. ListenerInv' /\ ReporterInv'
      BY <1>1, <2>1, <2>3, <2>4 DEF ListenerInv, ReporterInv
    <2> QED
      BY <2>2, <2>6, <2>7 DEF CountInv, CountAccurate
  <1>5. CASE FreeReport
    <2>1. /\ reports' \subseteq reports
          /\ UNCHANGED <<process, counters, life, starting, mClients, reporting, main, signals>>
      BY <1>5 DEF FreeReport
    <2>2. TypeOK'
      BY <1>1, <2>1 DEF TypeOK, counters, signals
    <2> QED
      BY <2>1, <2>2, SameThreads DEF counters
  <1> QED
    BY <1>3, <1>4, <1>5 DEF ReporterStep

\* A release takes the one registered listener, if any, out of the count.
LEMMA SignalKeepsCount ==
    ASSUME CountInv, Interrupt \/ TimerFires
    PROVE  CountInv'
  <1>1. TypeOK /\ CountAccurate /\ ListenerInv /\ ReporterInv /\ process \in Processes
    BY DEF CountInv, CountAccurate, TypeOK
  <1>2. Sig_Interupt
    BY DEF Interrupt, TimerFires
  <1>3. UNCHANGED <<process, life, starting, mClients, reporting, reports>>
    BY <1>2 DEF Sig_Interupt
  <1>4. timer' \in BOOLEAN /\ interrupts' \in 0 .. MaxInterrupts
    <2>1. CASE Interrupt
      <3>1. timer' = timer
        BY <2>1 DEF Interrupt
      <3>2. interrupts < MaxInterrupts /\ interrupts' = interrupts + 1
        BY <2>1 DEF Interrupt
      <3>3. interrupts' \in 0 .. MaxInterrupts
        BY <1>1, <3>2 DEF TypeOK
      <3> QED
        BY <1>1, <3>1, <3>3, Zenon DEF TypeOK
    <2>2. CASE TimerFires
      <3>1. timer' = FALSE /\ interrupts' = interrupts
        BY <2>2 DEF TimerFires
      <3> QED
        BY <1>1, <3>1, Zenon DEF TypeOK
    <2> QED
      BY <2>1, <2>2
  <1>5. Receivers \subseteq Starters
    BY DEF Receivers, Starters
  <1>6. \/ main' = "killed" /\ UNCHANGED <<counters, sInterupted, sThread>>
        \/ /\ sInterupted' = TRUE /\ sThread' \in Starters \cup {None}
           /\ thread_release_nonterm
    BY <1>1, <1>2, <1>5 DEF Sig_Interupt, TypeOK
  <1>7. Registered' = Registered /\ Listeners' = Listeners
    BY <1>3 DEF Registered, Listeners, Modal
  <1>8. CASE UNCHANGED counters /\ main' = "killed" /\ UNCHANGED <<sInterupted, sThread>>
    <2>1. TypeOK'
      BY <1>1, <1>3, <1>4, <1>8 DEF TypeOK, counters
    <2> QED
      BY <1>3, <1>8, <2>1, SameThreads DEF counters
  <1>9. CASE /\ sInterupted' = TRUE /\ sThread' \in Starters \cup {None}
             /\ thread_release_nonterm
    <2>1. /\ thread_sNum' = thread_sNum - nonterminating_num
          /\ nonterminating_num' = 0
          /\ main' = IF main = "asleep" THEN "testing" ELSE main
      BY <1>9 DEF thread_release_nonterm, SignalMain
    <2>2. TypeOK'
      BY <1>1, <1>3, <1>4, <1>9, <2>1 DEF TypeOK
    <2>3. Released' = Registered
      BY <1>7, <2>1 DEF Released
    <2>4. thread_sNum' = Cardinality(Awaited)'
      <3>1. CASE nonterminating_num = 0
        <4>1. Released' = Released /\ thread_sNum' = thread_sNum
          BY <1>1, <2>1, <2>3, <3>1 DEF Released, TypeOK
        <4>2. Awaited' = Awaited
          BY <1>3, <4>1 DEF Awaited
        <4> QED
          BY <1>1, <4>1, <4>2, SameAwaited
      <3>2. CASE nonterminating_num = 1
        <4>1. PICK t \in Threads : t \in Listeners /\ life[t] \in RegisteredLives
          BY <1>1, <3>2 DEF ListenerInv, Registered, Listeners, Modal
        <4>2. t # Reporter /\ Registered = {t}
          BY <1>1, <4>1, OnlyListener
        <4>3. Released = {} /\ Released' = {t}
          BY <2>3, <3>2, <4>2 DEF Released
        <4>4. life[t] \in CountedLives
          BY <4>1 DEF RegisteredLives, CountedLives, Lives
        <4>5. t \in Awaited /\ Awaited' = Awaited \ {t}
          BY <1>3, <4>1, <4>2, <4>3, <4>4 DEF Awaited
        <4>6. thread_sNum' = thread_sNum - 1
          BY <2>1, <3>2
        <4> QED
          BY <1>1, <4>5, <4>6, OneLess
      <3> QED
        BY <1>1, <3>1, <3>2 DEF ListenerInv
    <2>5. ListenerInv' /\ ReporterInv'
      BY <1>1, <1>3, <1>7, <2>1 DEF ListenerInv, ReporterInv
    <2> QED
      BY <2>2, <2>4, <2>5 DEF CountInv, CountAccurate
  <1> QED
    BY <1>6, <1>8, <1>9

LEMMA MainKeepsCount ==
    ASSUME CountInv, BeginJoin \/ thread_joinall \/ UNCHANGED vars
    PROVE  CountInv'
  <1>1. TypeOK
    BY DEF CountInv, CountAccurate
  <1>2. /\ main' \in {"testing", "asleep", "exited", main}
        /\ UNCHANGED <<process, counters, life, starting, mClients, reporting, reports, signals>>
    BY DEF BeginJoin, thread_joinall, vars
  <1>3. TypeOK'
    BY <1>1, <1>2 DEF TypeOK, counters, signals
  <1> QED
    BY <1>2, <1>3, SameThreads DEF counters

-----------------------------------------------------------------------------
LEMMA StepCount == CountInv /\ [Next]_vars => CountInv'
  <1> SUFFICES ASSUME CountInv, [Next]_vars
               PROVE  CountInv'
    OBVIOUS
  <1>1. ASSUME NEW t \in Threads, ThreadStep(t)
        PROVE  CountInv'
    BY <1>1, ThreadStartKeepsCount, TransferKeepsCount, RegisterKeepsCount,
       UnregisterKeepsCount, AcceptKeepsCount DEF ThreadStep, ListenerStep, Starters
  <1>2. ASSUME NEW t \in Threads, Accept(t) \/ thread_stop(t)
        PROVE  CountInv'
    BY <1>2, AcceptKeepsCount, StopKeepsCount
  <1>3. CASE MainStep
    BY <1>3, ThreadStartKeepsCount, MainKeepsCount DEF MainStep, Starters
  <1>4. CASE ReporterStep \/ Interrupt \/ TimerFires
    BY <1>4, ReporterKeepsCount, SignalKeepsCount
  <1>5. CASE UNCHANGED vars
    BY <1>5, MainKeepsCount
  <1> QED
    BY <1>1, <1>2, <1>3, <1>4, <1>5 DEF Next

\* "Depends on the thread count being accurate" (Thread.c:289): it is, at any
\* moment, however threads are started, fail, end, are released by signals or,
\* as the reporter does, leave the count and come back.
THEOREM CountHolds == Spec => []CountAccurate
  <1>1. CountInv => CountAccurate
    BY DEF CountInv
  <1> QED
    BY <1>1, InitCount, StepCount, PTL DEF Spec

-----------------------------------------------------------------------------
(* Reports of transfers.                                                   *)

LEMMA ProcessKept == [Next]_vars => process' = process
BY DEF Next, ThreadStep, ThreadStart, StartRunNow, CountThread, CreateThread, CreateThreadFails,
   BeginTransfer, EndTransfer, ListenerStep, thread_register_nonterm, ReportSettings,
   NextClient, thread_unregister_nonterm, Uncount, StartRunNext, Accept, thread_stop,
   ReporterStep, thread_setignore, thread_unsetignore, FreeReport,
   MainStep, BeginJoin, thread_joinall, Interrupt, TimerFires, Sig_Interupt, vars

\* main ends by finding thread_sNum zero, and nothing happens afterwards.
LEMMA MainExits ==
    ASSUME CountInv, main # "exited", main' = "exited", [Next]_vars
    PROVE  thread_joinall /\ Awaited = {}
  <1>1. thread_joinall
    BY DEF Next, ThreadStep, ThreadStart, StartRunNow, CountThread, CreateThread,
       CreateThreadFails, BeginTransfer, EndTransfer, ListenerStep, thread_register_nonterm,
       ReportSettings, NextClient, thread_unregister_nonterm, Uncount, StartRunNext, Accept,
       thread_stop, ReporterStep, thread_setignore, thread_unsetignore, FreeReport, MainStep,
       BeginJoin, Interrupt, TimerFires, Sig_Interupt, thread_release_nonterm, SignalMain, vars
  <1>2. thread_sNum = Cardinality(Awaited) /\ thread_sNum <= 0
    BY <1>1 DEF thread_joinall, CountInv, CountAccurate, TypeOK
  <1>3. Cardinality(Awaited) = 0
    BY <1>2, AwaitedFinite
  <1> QED
    BY <1>1, <1>3, AwaitedFinite, FS_EmptySet

LEMMA ExitedStays ==
    ASSUME main = "exited", [Next]_vars
    PROVE  UNCHANGED vars
BY DEF Next, Running

LEMMA StepReports == CountInv /\ ReportsInv /\ [Next]_vars => ReportsInv'
  <1> SUFFICES ASSUME CountInv, ReportsInv, [Next]_vars
               PROVE  ReportsInv'
    OBVIOUS
  <1>1. TypeOK /\ ReporterInv /\ process \in Processes
    BY DEF CountInv, CountAccurate, TypeOK
  <1>2. process' = process
    BY ProcessKept
  <1>3. Transfers' = Transfers /\ Transfers \subseteq Threads
    BY <1>2 DEF Transfers, Modal
  \* No thread but one in EndReport goes on from there.
  <1>4. ASSUME NEW t \in Threads, NEW l \in Lives, Become(t, l), life[t] # "transfer",
               reports' = reports, reporting' = reporting
        PROVE  ReportsInv'
    <2>1. \A u \in Threads : u # t => life'[u] = life[u]
      BY <1>1, <1>4, BecomeMoves
    <2> QED
      BY <1>3, <1>4, <2>1 DEF ReportsInv
  <1>5. ASSUME reports' \subseteq reports, life' = life,
               reporting' = reporting \/ reporting' = "busy"
        PROVE  ReportsInv'
    BY <1>3, <1>5 DEF ReportsInv
  <1>6. ASSUME NEW s \in Starters, ThreadStart(s)
        PROVE  ReportsInv'
    <2>1. CASE StartRunNow(s)
      BY <1>5, <2>1 DEF StartRunNow
    <2> DEFINE t == Head(starting[s])
    <2>2. CASE CountThread(s)
      <3>1. t \in Threads /\ "counted" \in Lives
        BY <1>1, <2>2, HeadIsThread DEF CountThread, Lives
      <3> QED
        BY <1>4, <2>2, <3>1 DEF CountThread
    <2>3. CASE CreateThread(s)
      <3>1. t \in Threads /\ "running" \in Lives
        BY <1>1, <2>3, HeadIsThread DEF CreateThread, Lives
      <3>2. life[t] = "counted" /\ Become(t, "running") /\ reports' = reports
            /\ reporting' = IF t = Reporter THEN "busy" ELSE reporting
        BY <2>3 DEF CreateThread
      <3>3. CASE t = Reporter
        BY <3>2, <3>3 DEF ReportsInv
      <3>4. CASE t # Reporter
        BY <1>4, <3>1, <3>2, <3>4
      <3> QED
        BY <3>3, <3>4
    <2>4. CASE CreateThreadFails(s)
      <3>1. t \in Threads /\ "failed" \in Lives
        BY <1>1, <2>4, HeadIsThread DEF CreateThreadFails, Lives
      <3> QED
        BY <1>4, <2>4, <3>1 DEF CreateThreadFails
    <2> QED
      BY <1>6, <2>1, <2>2, <2>3, <2>4 DEF ThreadStart
  <1>7. ASSUME NEW t \in Threads, BeginTransfer(t)
        PROVE  ReportsInv'
    <2>1. /\ Become(t, "transfer") /\ reports' = reports \cup {t}
          /\ reporting' = IF reporting = "ignored" THEN "woken" ELSE reporting
      BY <1>7 DEF BeginTransfer, PushReport
    <2>2. \A u \in Threads : life'[u] = IF u = t THEN "transfer" ELSE life[u]
      BY <1>1, <2>1, BecomeMoves DEF Lives
    <2> QED
      BY <1>3, <2>1, <2>2 DEF ReportsInv
  <1>8. ASSUME NEW t \in Threads, ReportSettings(t)
        PROVE  ReportsInv'
    <2>1. /\ Become(t, "accepting") /\ life[t] = "registered" /\ reports' = reports \cup {t}
          /\ reporting' = IF reporting = "ignored" THEN "woken" ELSE reporting
      BY <1>8 DEF ReportSettings, PushReport
    <2>2. t \notin Transfers
      <3>1. ListenerInv /\ life[t] \in RegisteredLives
        BY <2>1 DEF CountInv, RegisteredLives
      <3> QED
        BY <1>1, <3>1, OneOfEach DEF ListenerInv
    <2>3. \A u \in Threads : u # t => life'[u] = life[u]
      BY <1>1, <2>1, BecomeMoves DEF Lives
    <2> QED
      BY <1>3, <2>1, <2>2, <2>3 DEF ReportsInv
  <1>9. ASSUME NEW t \in Threads, EndTransfer(t)
        PROVE  ReportsInv'
    BY <1>9 DEF EndTransfer, ReportsInv
  <1>10. ASSUME NEW t \in Threads,
                \/ thread_register_nonterm(t) \/ NextClient(t) \/ thread_unregister_nonterm(t)
                \/ Uncount(t) \/ StartRunNext(t) \/ Accept(t) \/ thread_stop(t)
         PROVE  ReportsInv'
    <2>1. PICK l \in Lives : Become(t, l) /\ life[t] # "transfer"
      BY <1>10 DEF thread_register_nonterm, NextClient, thread_unregister_nonterm,
         Uncount, StartRunNext, Accept, thread_stop, Lives
    <2>2. reports' = reports /\ reporting' = reporting
      BY <1>10 DEF thread_register_nonterm, NextClient, thread_unregister_nonterm,
         Uncount, StartRunNext, Accept, thread_stop
    <2> QED
      BY <1>4, <2>1, <2>2
  <1>11. CASE ReporterStep
    <2>1. CASE thread_setignore
      BY <2>1 DEF thread_setignore, ReportsInv
    <2>2. CASE thread_unsetignore \/ FreeReport
      BY <1>5, <2>2 DEF thread_unsetignore, FreeReport
    <2> QED
      BY <1>11, <2>1, <2>2 DEF ReporterStep
  <1>12. CASE BeginJoin \/ thread_joinall \/ Interrupt \/ TimerFires \/ UNCHANGED vars
    <2>1. reports' = reports /\ life' = life /\ reporting' = reporting
      BY <1>12 DEF BeginJoin, thread_joinall, Interrupt, TimerFires, Sig_Interupt, vars
    <2> QED
      BY <1>5, <2>1
  <1> QED
    BY <1>6, <1>7, <1>8, <1>9, <1>10, <1>11, <1>12
    DEF Next, ThreadStep, ListenerStep, MainStep, Starters

\* When main finds nobody to wait for, no transfer's report is left.
LEMMA JoinAfterReports ==
    ASSUME CountInv, ReportsInv, Awaited = {}
    PROVE  reports \cap Transfers = {}
  <1>1. TypeOK /\ process \in Processes /\ ReporterInv
    BY DEF CountInv, CountAccurate, TypeOK
  <1>3. SUFFICES ASSUME NEW t \in reports \cap Transfers
                 PROVE  FALSE
    OBVIOUS
  <1>4. /\ t \in Threads /\ t # Reporter /\ t \notin Released /\ Reporter \notin Released
    BY <1>1, OneOfEach DEF Released, Registered
  <1>5. CASE reporting = "busy"
    <2>1. Reporter \in Awaited
      BY <1>1, <1>4, <1>5 DEF Awaited, ReporterInv, CountedLives, Lives
    <2> QED
      BY <2>1
  <1>6. CASE reporting # "busy"
    <2>1. life[t] = "transfer"
      BY <1>6 DEF ReportsInv
    <2>2. t \in Awaited
      BY <1>4, <2>1 DEF Awaited, CountedLives, Lives
    <2> QED
      BY <2>2
  <1> QED
    BY <1>5, <1>6

\* "Stop main thread from exiting until done with all reports" (Reporter.c:568),
\* for any threads and any signals: thread_joinall returns only after the last
\* transfer's report has been printed, because the reporter leaves the count
\* only with an empty list and a new report's own thread is counted until the
\* reporter is back.
THEOREM ReportsPrinted == Spec => []TransfersReported
  <1> DEFINE I == CountInv /\ ReportsInv /\ TransfersReported
  <1>1. Init => I
    BY InitCount DEF Init, ReportsInv, TransfersReported
  <1>2. I /\ [Next]_vars => I'
    <2> SUFFICES ASSUME I, [Next]_vars
                 PROVE  TransfersReported'
      BY StepCount, StepReports
    <2>1. SUFFICES ASSUME main' = "exited"
                   PROVE  (reports \cap Transfers)' = {}
      BY DEF TransfersReported
    <2>2. CASE main = "exited"
      <3>1. UNCHANGED vars
        BY <2>2, ExitedStays
      <3> QED
        BY <2>2, <3>1 DEF vars, TransfersReported, Transfers, Modal
    <2>3. CASE main # "exited"
      <3>1. Awaited = {} /\ UNCHANGED <<process, reports>>
        BY <2>1, <2>3, MainExits DEF thread_joinall
      <3> QED
        BY <3>1, JoinAfterReports DEF Transfers, Modal
    <2> QED
      BY <2>2, <2>3
  <1>3. I => TransfersReported
    OBVIOUS
  <1> QED
    BY <1>1, <1>2, <1>3, PTL DEF Spec

-----------------------------------------------------------------------------
(* Threads that main joins, and streams that the listener serves.          *)

OnStack(s, t) == \E i \in DOMAIN starting[s] : starting[s][i] = t

\* thread_start has been called for t, or has gone down to it.
Begun(t) == life[t] # "unborn" \/ \E s \in Starters : OnStack(s, t)

\* Who has to do with signals that no user sent, and with a listener released.
TimerInv ==
    /\ timer \/ (sInterupted /\ interrupts = 0) => process.timed # {}
    /\ Released # {} => sInterupted

\* Who is inside thread_start, and who is in the lives a transfer has, or none.
StackInv ==
    /\ starting[Main] # <<>> => main \in {"starting", "killed"}
    /\ \A t \in Threads :
        /\ starting[t] # <<>> => life[t] = "serving" \/ (life[t] = "gone" /\ process.runNext[t] # None)
        /\ life[t] = "transfer" => t \in Transfers
        /\ life[t] \in {"failed", "stopped"} => t \in Faulty

Hearing(l) == life[l] \in {"accepting", "serving"}

\* No listener beside a timer; no server without its listener, which without a
\* limit goes on for ever.
BegunInv ==
    /\ \A l \in Listeners : Begun(l) => process.timed = {}
    /\ interrupts = 0 /\ process.mThreads = 0 /\ (\E s \in Modal("server") : Begun(s)) =>
         \E l \in Listeners : Hearing(l)

\* A listener with a limit is to come.
Wanted == process.mThreads > 0 /\ ListenerWiring(process)

\* The threads that bring it, and nothing else, come before it.
ChainInv ==
    Wanted =>
        \/ \E l \in Listeners : life[l] # "unborn" \/ OnStack(Main, l)
        \/ /\ starting[Main] # <<>>
           /\ \A t \in Threads : life[t] = "unborn"
           /\ \E chain \in SUBSET Threads :
                /\ \A t \in chain : process.mode[t] = "listener" \/ process.runNow[t] \in chain
                /\ \A t \in Threads : OnStack(Main, t) => t \in chain

\* The servers that l has brought, or is about to.
Brought(l) == {s \in Modal("server") : life[s] # "unborn" \/ OnStack(l, s)}
Ended == {"closing", "returned", "leaving", "gone"}

\* mClients is what is left of mThreads.
ServedInv ==
    process.mThreads > 0 /\ interrupts = 0 => \A l \in Listeners :
        /\ Cardinality(Brought(l)) >= process.mThreads - mClients + (IF life[l] = "serving" THEN 1 ELSE 0)
        /\ life[l] \in Ended => mClients <= 0

JoinInv == TimerInv /\ StackInv /\ BegunInv /\ ChainInv /\ ServedInv

-----------------------------------------------------------------------------
(* What the steps of thread_start do to its stacks.                        *)

LEMMA HeadOnStack ==
    ASSUME TypeOK, NEW s \in Starters, starting[s] # <<>>
    PROVE  OnStack(s, Head(starting[s])) /\ Begun(Head(starting[s]))
  <1>1. starting[s] \in Seq(Threads)
    BY DEF TypeOK
  <1>2. 1 \in DOMAIN starting[s] /\ Head(starting[s]) = starting[s][1]
    BY <1>1
  <1>3. OnStack(s, Head(starting[s]))
    BY <1>2 DEF OnStack
  <1> QED
    BY <1>3 DEF Begun

LEMMA OnPushed ==
    ASSUME TypeOK, NEW s \in Starters, NEW u \in Threads,
           starting' = [starting EXCEPT ![s] = <<u>> \o @]
    PROVE  /\ starting'[s] # <<>>
           /\ \A r \in Starters : r # s => starting'[r] = starting[r]
           /\ \A r \in Starters, t \in Threads : OnStack(r, t)' <=> OnStack(r, t) \/ (r = s /\ t = u)
  <1>1. starting[s] \in Seq(Threads) /\ starting'[s] = <<u>> \o starting[s]
    BY DEF TypeOK
  <1>2. \A r \in Starters : r # s => starting'[r] = starting[r]
    BY DEF TypeOK
  <1>3. /\ starting'[s] # <<>> /\ Len(starting'[s]) = Len(starting[s]) + 1
        /\ Len(starting[s]) \in Nat
        /\ DOMAIN starting[s] = 1 .. Len(starting[s])
        /\ DOMAIN starting'[s] = 1 .. Len(starting[s]) + 1
        /\ starting'[s][1] = u
        /\ \A i \in 1 .. Len(starting[s]) : starting'[s][i + 1] = starting[s][i]
    BY <1>1
  <1>4. ASSUME NEW t \in Threads
        PROVE  OnStack(s, t)' <=> OnStack(s, t) \/ t = u
    <2>1. CASE OnStack(s, t)
      <3>1. PICK i \in 1 .. Len(starting[s]) : starting[s][i] = t
        BY <1>3, <2>1 DEF OnStack
      <3>2. i + 1 \in DOMAIN starting'[s] /\ starting'[s][i + 1] = t
        BY <1>3, <3>1
      <3> QED
        BY <2>1, <3>2 DEF OnStack
    <2>2. CASE t = u
      BY <1>3, <2>2 DEF OnStack
    <2>3. ASSUME NEW i \in DOMAIN starting'[s], starting'[s][i] = t, t # u
          PROVE  OnStack(s, t)
      <3>1. i - 1 \in 1 .. Len(starting[s]) /\ i = (i - 1) + 1
        BY <1>3, <2>3
      <3>2. starting[s][i - 1] = t
        BY <1>3, <2>3, <3>1
      <3> QED
        BY <1>3, <3>1, <3>2 DEF OnStack
    <2> QED
      BY <2>1, <2>2, <2>3 DEF OnStack
  <1>5. ASSUME NEW r \in Starters, NEW t \in Threads, r # s
        PROVE  OnStack(r, t)' <=> OnStack(r, t)
    BY <1>2, <1>5 DEF OnStack
  <1> QED
    BY <1>2, <1>3, <1>4, <1>5

LEMMA OnPopped ==
    ASSUME TypeOK, NEW s \in Starters, starting[s] # <<>>,
           starting' = [starting EXCEPT ![s] = Tail(@)]
    PROVE  /\ \A r \in Starters : r # s => starting'[r] = starting[r]
           /\ \A r \in Starters, t \in Threads :
                /\ OnStack(r, t)' => OnStack(r, t)
                /\ OnStack(r, t) => OnStack(r, t)' \/ (r = s /\ t = Head(starting[s]))
  <1>1. starting[s] \in Seq(Threads) /\ starting[s] # <<>> /\ starting'[s] = Tail(starting[s])
    BY DEF TypeOK
  <1>2. \A r \in Starters : r # s => starting'[r] = starting[r]
    BY DEF TypeOK
  <1>3. /\ Len(starting[s]) \in Nat \ {0}
        /\ DOMAIN starting[s] = 1 .. Len(starting[s])
        /\ DOMAIN starting'[s] = 1 .. Len(starting[s]) - 1
        /\ Head(starting[s]) = starting[s][1]
        /\ \A i \in 1 .. Len(starting[s]) - 1 : starting'[s][i] = starting[s][i + 1]
    <2>1. Len(starting[s]) \in Nat \ {0}
      BY <1>1, EmptySeq
    <2>2. /\ starting'[s] \in Seq(Threads) /\ Len(starting'[s]) = Len(starting[s]) - 1
          /\ \A i \in 1 .. Len(starting'[s]) : starting'[s][i] = starting[s][i + 1]
      <3>1. PICK q \in Seq(Threads) : q = starting[s]
        BY <1>1
      <3>2. /\ Tail(q) \in Seq(Threads) /\ Len(Tail(q)) = Len(q) - 1
            /\ \A i \in 1 .. Len(Tail(q)) : Tail(q)[i] = q[i + 1]
        <4>1. q # <<>>
          BY <1>1, <3>1
        <4> QED
          BY <4>1, HeadTailProperties
      <3> QED
        BY <1>1, <3>1, <3>2, Zenon
    <2>3. DOMAIN starting[s] = 1 .. Len(starting[s]) /\ DOMAIN starting'[s] = 1 .. Len(starting'[s])
      BY <1>1, <2>2
    <2>4. Head(starting[s]) = starting[s][1]
      BY <1>1
    <2> QED
      BY <2>1, <2>2, <2>3, <2>4
  <1>4. ASSUME NEW t \in Threads, OnStack(s, t)'
        PROVE  OnStack(s, t)
    <2>1. PICK i \in 1 .. Len(starting[s]) - 1 : starting'[s][i] = t
      BY <1>3, <1>4 DEF OnStack
    <2>2. i + 1 \in DOMAIN starting[s] /\ starting[s][i + 1] = t
      BY <1>3, <2>1
    <2> QED
      BY <2>2 DEF OnStack
  <1>5. ASSUME NEW t \in Threads, OnStack(s, t), t # Head(starting[s])
        PROVE  OnStack(s, t)'
    <2>1. PICK i \in 1 .. Len(starting[s]) : starting[s][i] = t
      BY <1>3, <1>5 DEF OnStack
    <2>2. i - 1 \in 1 .. Len(starting[s]) - 1 /\ i = (i - 1) + 1
      BY <1>3, <1>5, <2>1
    <2>3. starting'[s][i - 1] = t
      BY <1>3, <2>1, <2>2
    <2> QED
      BY <1>3, <2>2, <2>3 DEF OnStack
  <1>6. ASSUME NEW r \in Starters, NEW t \in Threads, r # s
        PROVE  OnStack(r, t)' <=> OnStack(r, t)
    BY <1>2, <1>6 DEF OnStack
  <1> QED
    BY <1>2, <1>4, <1>5, <1>6

\* Accept and StartRunNext: a stack made anew.
LEMMA OnReplaced ==
    ASSUME TypeOK, NEW s \in Starters, NEW q \in Seq(Threads),
           starting' = [starting EXCEPT ![s] = q], starting[s] = <<>>
    PROVE  /\ starting'[s] = q
           /\ \A r \in Starters : r # s => starting'[r] = starting[r]
           /\ \A t \in Threads : ~OnStack(s, t)
           /\ \A r \in Starters, t \in Threads : OnStack(r, t)' <=>
                OnStack(r, t) \/ (r = s /\ \E i \in DOMAIN q : q[i] = t)
  <1>1. starting'[s] = q /\ \A r \in Starters : r # s => starting'[r] = starting[r]
    BY DEF TypeOK
  <1>2. \A t \in Threads : ~OnStack(s, t)
    BY DEF OnStack
  <1>3. ASSUME NEW r \in Starters, NEW t \in Threads, r # s
        PROVE  OnStack(r, t)' <=> OnStack(r, t)
    BY <1>1, <1>3 DEF OnStack
  <1>4. ASSUME NEW t \in Threads
        PROVE  OnStack(s, t)' <=> \E i \in DOMAIN q : q[i] = t
    BY <1>1 DEF OnStack
  <1> QED
    BY <1>1, <1>2, <1>3, <1>4

-----------------------------------------------------------------------------
(* What follows from the invariants at any moment.                         *)

LEMMA NoSignals ==
    ASSUME TimerInv, BegunInv, interrupts = 0, NEW l \in Listeners, Begun(l)
    PROVE  ~sInterupted /\ ~timer
BY DEF TimerInv, BegunInv

LEMMA NoneReleased ==
    ASSUME TimerInv, BegunInv, interrupts = 0
    PROVE  Released = {}
  <1> SUFFICES ASSUME NEW l \in Released
               PROVE  FALSE
    OBVIOUS
  <1>1. l \in Listeners /\ Begun(l)
    BY DEF Released, Registered, RegisteredLives, Begun
  <1>2. sInterupted
    BY DEF TimerInv
  <1> QED
    BY <1>1, <1>2, NoSignals

\* A thread that has ended, or has yet to begin, starts no other.
LEMMA NoStack ==
    ASSUME StackInv, NEW t \in Threads, life[t] \notin {"serving", "gone"}
    PROVE  starting[t] = <<>>
BY DEF StackInv

LEMMA ModesKept ==
    ASSUME process' = process
    PROVE  /\ Listeners' = Listeners /\ Transfers' = Transfers /\ Wanted' = Wanted
           /\ \A m \in Modes : Modal(m)' = Modal(m)
BY DEF Listeners, Transfers, Modal, Wanted, ListenerWiring

-----------------------------------------------------------------------------
(* Steps outside thread_start.                                             *)

\* A thread that moves on.
LEMMA MoveKeepsJoin ==
    ASSUME TypeOK, StackInv, BegunInv, ChainInv,
           NEW t \in Threads, NEW l \in Lives, Become(t, l),
           life[t] # "unborn", l # "unborn", starting[t] = <<>>,
           UNCHANGED <<process, starting, interrupts>>,
           main' = main \/ (main = "asleep" /\ main' = "testing"),
           l = "transfer" => t \in Transfers,
           l \in {"failed", "stopped"} => t \in Faulty,
           t \in Listeners /\ Hearing(t) /\ interrupts = 0 /\ process.mThreads = 0 =>
             l \in {"accepting", "serving"}
    PROVE  StackInv' /\ BegunInv' /\ ChainInv' /\ \A u \in Listeners : Brought(u)' = Brought(u)
  <1>1. \A u \in Threads : life'[u] = IF u = t THEN l ELSE life[u]
    BY BecomeMoves
  <1>2. /\ Listeners' = Listeners /\ Transfers' = Transfers
        /\ Modal("server")' = Modal("server") /\ Wanted' = Wanted
        /\ Listeners \subseteq Threads /\ Modal("server") \subseteq Threads
    BY ModesKept DEF Modes, Listeners, Modal
  <1>3. \A r \in Starters, u \in Threads : OnStack(r, u)' <=> OnStack(r, u)
    BY DEF OnStack
  <1>4. \A u \in Threads : Begun(u)' <=> Begun(u)
    BY <1>1, <1>3 DEF Begun
  <1>5. StackInv'
    <2>1. starting'[Main] # <<>> => main' \in {"starting", "killed"}
      BY DEF StackInv
    <2>2. ASSUME NEW u \in Threads
          PROVE  /\ starting'[u] # <<>> => life'[u] = "serving" \/ (life'[u] = "gone" /\ process'.runNext[u] # None)
                 /\ life'[u] = "transfer" => u \in Transfers'
                 /\ life'[u] \in {"failed", "stopped"} => u \in Faulty
      <3>1. CASE u = t
        BY <1>1, <1>2, <3>1
      <3>2. CASE u # t
        BY <1>1, <1>2, <3>2 DEF StackInv
      <3> QED
        BY <3>1, <3>2
    <2> QED
      BY <2>1, <2>2 DEF StackInv
  <1>6. BegunInv'
    <2>1. \A u \in Listeners : Begun(u)' => process'.timed = {}
      BY <1>2, <1>4 DEF BegunInv
    <2>2. ASSUME interrupts' = 0, process'.mThreads = 0, NEW s \in Modal("server"), Begun(s)'
          PROVE  \E u \in Listeners : Hearing(u)'
      <3>1. PICK u \in Listeners : Hearing(u)
        BY <1>2, <1>4, <2>2 DEF BegunInv
      <3> QED
        BY <1>1, <1>2, <2>2, <3>1 DEF Hearing
    <2> QED
      BY <1>2, <2>1, <2>2 DEF BegunInv
  <1>7. ChainInv'
    <2> SUFFICES ASSUME Wanted
                 PROVE  \E u \in Listeners : life'[u] # "unborn" \/ OnStack(Main, u)'
      BY <1>2 DEF ChainInv
    <2>1. PICK u \in Listeners : life[u] # "unborn" \/ OnStack(Main, u)
      BY DEF ChainInv
    <2> QED
      BY <1>1, <1>2, <1>3, <2>1 DEF Starters
  <1>8. ASSUME NEW u \in Listeners
        PROVE  Brought(u)' = Brought(u)
    BY <1>1, <1>2, <1>3 DEF Brought, Starters
  <1> QED
    BY <1>5, <1>6, <1>7, <1>8

\* No listener begins to serve or to end, and no server is lost.
LEMMA GrowKeepsServed ==
    ASSUME TypeOK, ServedInv, UNCHANGED <<process, interrupts, mClients>>,
           \A u \in Listeners :
             /\ Brought(u) \subseteq Brought(u)'
             /\ life'[u] = "serving" => life[u] = "serving"
             /\ life'[u] \in Ended => life[u] \in Ended
    PROVE  ServedInv'
  <1>1. /\ Listeners' = Listeners /\ Modal("server")' = Modal("server") /\ Wanted' = Wanted
        /\ process \in Processes
    BY ModesKept DEF Modes, TypeOK
  <1> SUFFICES ASSUME process.mThreads > 0, interrupts = 0, NEW u \in Listeners
               PROVE  /\ Cardinality(Brought(u)') >= process.mThreads - mClients
                                                     + (IF life'[u] = "serving" THEN 1 ELSE 0)
                      /\ life'[u] \in Ended => mClients <= 0
    BY <1>1 DEF ServedInv
  <1>2. /\ Cardinality(Brought(u)) >= process.mThreads - mClients + (IF life[u] = "serving" THEN 1 ELSE 0)
        /\ life[u] \in Ended => mClients <= 0
    BY DEF ServedInv
  <1>3. /\ Cardinality(Brought(u)) \in Nat /\ Cardinality(Brought(u)') \in Nat
        /\ Cardinality(Brought(u)) <= Cardinality(Brought(u)')
    <2>1. Brought(u)' \subseteq Threads
      BY <1>1 DEF Brought, Modal
    <2>2. IsFiniteSet(Brought(u)')
      BY <2>1, FS_Subset
    <2> QED
      BY <2>2, FS_Subset, FS_CardinalityType
  <1>4. process.mThreads \in Nat /\ mClients \in Int
    BY <1>1, ProcessesAssumption DEF TypeOK, ProcessType
  <1>5. life'[u] = "serving" => life[u] = "serving"
    OBVIOUS
  <1> QED
    BY <1>2, <1>3, <1>4, <1>5

\* A thread that moves on and is no listener between accepting a stream and ending.
LEMMA MoveKeepsServed ==
    ASSUME TypeOK, ServedInv, NEW t \in Threads, NEW l \in Lives, Become(t, l),
           UNCHANGED <<process, interrupts, mClients>>,
           \A u \in Listeners : Brought(u)' = Brought(u),
           t \in Listeners => (life[t] = "serving" <=> l = "serving") /\ (l \in Ended => life[t] \in Ended)
    PROVE  ServedInv'
  <1>1. \A u \in Threads : life'[u] = IF u = t THEN l ELSE life[u]
    BY BecomeMoves
  <1>2. Listeners \subseteq Threads
    BY DEF Listeners, Modal
  <1> QED
    BY <1>1, <1>2, GrowKeepsServed

\* Nothing here happens to a thread.
LEMMA SameKeepsJoin ==
    ASSUME JoinInv, UNCHANGED <<process, life, starting, mClients>>,
           interrupts' = interrupts \/ interrupts' # 0,
           \/ main' = main \/ main' = "killed" \/ (main = "asleep" /\ main' = "testing")
           \/ starting[Main] = <<>>
    PROVE  StackInv' /\ BegunInv' /\ ChainInv' /\ ServedInv'
  <1>1. /\ Listeners' = Listeners /\ Transfers' = Transfers
        /\ Modal("server")' = Modal("server") /\ Wanted' = Wanted
    BY ModesKept DEF Modes
  <1>2. \A r, u : OnStack(r, u)' <=> OnStack(r, u)
    BY DEF OnStack
  <1>3. \A u : Begun(u)' <=> Begun(u)
    BY <1>2 DEF Begun
  <1>4. \A u : Brought(u)' = Brought(u)
    BY <1>1, <1>2 DEF Brought
  <1>5. StackInv'
    BY <1>1 DEF JoinInv, StackInv
  <1>6. BegunInv'
    BY <1>1, <1>3 DEF JoinInv, BegunInv, Hearing
  <1>7. ChainInv'
    BY <1>1, <1>2 DEF JoinInv, ChainInv
  <1>8. ServedInv'
    BY <1>1, <1>4 DEF JoinInv, ServedInv
  <1> QED
    BY <1>5, <1>6, <1>7, <1>8

LEMMA MoveKeepsTimer ==
    ASSUME TypeOK, TimerInv, NEW t \in Threads, NEW l \in Lives, Become(t, l),
           UNCHANGED <<process, nonterminating_num, sInterupted, interrupts>>,
           timer' => timer \/ process.timed # {},
           l \in RegisteredLives => life[t] \in RegisteredLives
    PROVE  TimerInv'
  <1>1. \A u \in Threads : life'[u] = IF u = t THEN l ELSE life[u]
    BY BecomeMoves
  <1>2. Listeners' = Listeners /\ Listeners \subseteq Threads
    BY ModesKept DEF Listeners, Modal
  <1>3. Registered' \subseteq Registered
    BY <1>1, <1>2 DEF Registered
  <1>4. Released' # {} => Released # {}
    BY <1>3 DEF Released
  <1> QED
    BY <1>4 DEF TimerInv

\* Clients, servers and the listener on its way to accepting and out again.
LEMMA ThreadKeepsJoin ==
    ASSUME CountInv, JoinInv, NEW t \in Threads,
           \/ BeginTransfer(t) \/ EndTransfer(t) \/ Uncount(t) \/ thread_stop(t)
           \/ ReportSettings(t)
    PROVE  JoinInv'
  <1>1. /\ TypeOK /\ ListenerInv /\ process \in Processes
        /\ TimerInv /\ StackInv /\ BegunInv /\ ChainInv /\ ServedInv
    BY DEF CountInv, CountAccurate, TypeOK, JoinInv
  <1>2. PICK l \in Lives :
          /\ Become(t, l) /\ life[t] # "unborn" /\ l \notin {"unborn", "serving"}
          /\ life[t] \notin {"serving", "gone"}
          /\ l = "transfer" => t \in Transfers
          /\ l \in {"failed", "stopped"} => t \in Faulty
          /\ t \in Listeners /\ Hearing(t) => l = "stopped"
          /\ l \in RegisteredLives => life[t] \in RegisteredLives
          /\ t \in Listeners /\ l \in Ended => life[t] \in Ended
    <2>1. CASE BeginTransfer(t)
      <3>1. t \in Transfers /\ Become(t, "transfer") /\ life[t] = "running"
        BY <2>1 DEF BeginTransfer
      <3> QED
        BY <3>1 DEF Lives, Hearing, RegisteredLives, Ended
    <2>2. CASE EndTransfer(t)
      <3>1. Become(t, "returned") /\ life[t] = "transfer"
        BY <2>2 DEF EndTransfer
      <3>2. t \notin Listeners
        BY <1>1, <3>1, OneOfEach DEF StackInv
      <3> QED
        BY <3>1, <3>2 DEF Lives, Hearing, RegisteredLives, Ended
    <2>3. CASE Uncount(t)
      <3>1. Become(t, "leaving") /\ life[t] = "returned"
        BY <2>3 DEF Uncount
      <3> QED
        BY <3>1 DEF Lives, Hearing, RegisteredLives, Ended
    <2>4. CASE thread_stop(t)
      <3>1. t \in Faulty /\ Become(t, "stopped") /\ life[t] \in {"running", "accepting"}
        BY <2>4 DEF thread_stop
      <3> QED
        BY <3>1 DEF Lives, Hearing, RegisteredLives, Ended
    <2>5. CASE ReportSettings(t)
      <3>1. Become(t, "accepting") /\ life[t] = "registered"
        BY <2>5 DEF ReportSettings
      <3> QED
        BY <3>1 DEF Lives, Hearing, RegisteredLives, Ended
    <2> QED
      BY <2>1, <2>2, <2>3, <2>4, <2>5
  <1>3. /\ UNCHANGED <<process, starting, mClients, nonterminating_num, sInterupted, interrupts>>
        /\ main' = main \/ (main = "asleep" /\ main' = "testing")
        /\ timer' => timer \/ process.timed # {}
    <2>1. CASE BeginTransfer(t)
      <3>1. timer' = (timer \/ t \in process.timed)
        BY <2>1 DEF BeginTransfer
      <3>2. timer' => timer \/ process.timed # {}
        BY <3>1, Zenon
      <3> QED
        BY <2>1, <3>2 DEF BeginTransfer, counters
    <2>2. CASE EndTransfer(t) \/ ReportSettings(t)
      BY <2>2 DEF EndTransfer, ReportSettings, counters, signals
    <2>3. CASE Uncount(t) \/ thread_stop(t)
      BY <2>3 DEF Uncount, thread_stop, SignalMain, signals
    <2> QED
      BY <2>1, <2>2, <2>3
  <1>4. starting[t] = <<>>
    BY <1>1, <1>2, NoStack
  <1>5. t \in Listeners => ~Hearing(t) /\ life[t] # "serving"
    <2>1. l = "stopped" => t \notin Listeners
      BY <1>1, <1>2, OneOfEach
    <2> QED
      BY <1>2, <2>1
  <1>6. TimerInv'
    BY <1>1, <1>2, <1>3, MoveKeepsTimer
  <1>7. StackInv' /\ BegunInv' /\ ChainInv' /\ \A u \in Listeners : Brought(u)' = Brought(u)
    BY <1>1, <1>2, <1>3, <1>4, <1>5, MoveKeepsJoin
  <1>8. ServedInv'
    BY <1>1, <1>2, <1>3, <1>5, <1>7, MoveKeepsServed
  <1> QED
    BY <1>6, <1>7, <1>8 DEF JoinInv

LEMMA RegisterKeepsJoin ==
    ASSUME CountInv, JoinInv, NEW t \in Threads,
           thread_register_nonterm(t) \/ thread_unregister_nonterm(t)
    PROVE  JoinInv'
  <1>1. /\ TypeOK /\ ListenerInv /\ process \in Processes
        /\ TimerInv /\ StackInv /\ BegunInv /\ ChainInv /\ ServedInv
    BY DEF CountInv, CountAccurate, TypeOK, JoinInv
  <1>2. PICK l \in Lives :
          /\ Become(t, l) /\ life[t] \in {"running", "closing"}
          /\ l = IF life[t] = "running" THEN "registered" ELSE "returned"
    <2>1. CASE thread_register_nonterm(t)
      BY <2>1 DEF thread_register_nonterm, Lives
    <2>2. CASE thread_unregister_nonterm(t)
      BY <2>2 DEF thread_unregister_nonterm, Lives
    <2> QED
      BY <2>1, <2>2
  <1>3. UNCHANGED <<process, starting, mClients, main, signals>>
    BY DEF thread_register_nonterm, thread_unregister_nonterm
  <1>4. starting[t] = <<>>
    BY <1>1, <1>2, NoStack
  <1>5. StackInv' /\ BegunInv' /\ ChainInv' /\ \A u \in Listeners : Brought(u)' = Brought(u)
    BY <1>1, <1>2, <1>3, <1>4, MoveKeepsJoin DEF signals, Hearing
  <1>6. ServedInv'
    BY <1>1, <1>2, <1>3, <1>5, MoveKeepsServed DEF signals, Ended
  <1>7. Released' = {}
    <2>1. CASE thread_register_nonterm(t)
      <3>1. nonterminating_num' = nonterminating_num + 1
        BY <2>1 DEF thread_register_nonterm
      <3> QED
        BY <1>1, <3>1 DEF Released, ListenerInv
    <2>2. CASE thread_unregister_nonterm(t)
      <3>1. life[t] = "closing" /\ Become(t, "returned")
        BY <2>2 DEF thread_unregister_nonterm
      <3>2. Registered = {t}
        BY <1>1, <3>1, OnlyListener DEF RegisteredLives
      <3>3. \A u \in Threads : life'[u] = IF u = t THEN "returned" ELSE life[u]
        BY <1>1, <3>1, BecomeMoves DEF Lives
      <3>4. Listeners' = Listeners
        BY <1>3, ModesKept
      <3>5. Registered' = {}
        BY <3>2, <3>3, <3>4 DEF Registered, RegisteredLives, Listeners, Modal
      <3> QED
        BY <3>5 DEF Released
    <2> QED
      BY <2>1, <2>2
  <1>8. TimerInv'
    BY <1>1, <1>3, <1>7 DEF TimerInv, signals
  <1> QED
    BY <1>5, <1>6, <1>8 DEF JoinInv

\* Another stream, or the end of the loop: only a signal ends it early.
LEMMA NextClientKeepsJoin ==
    ASSUME CountInv, JoinInv, NEW t \in Threads, NextClient(t)
    PROVE  JoinInv'
  <1>1. /\ TypeOK /\ ListenerInv /\ process \in Processes
        /\ TimerInv /\ StackInv /\ BegunInv /\ ChainInv /\ ServedInv
    BY DEF CountInv, CountAccurate, TypeOK, JoinInv
  <1>2. PICK l \in {"accepting", "closing"} :
          /\ Become(t, l)
          /\ l = IF ~sInterupted /\ (process.mThreads = 0 \/ mClients' > 0) THEN "accepting" ELSE "closing"
    BY DEF NextClient
  <1>3. /\ life[t] = "serving" /\ starting[t] = <<>> /\ mClients' = mClients - 1
        /\ UNCHANGED <<process, counters, starting, main, signals>>
    BY DEF NextClient
  <1>4. l \in Lives
    BY DEF Lives
  <1>5. t \in Listeners /\ Begun(t)
    BY <1>1, <1>3, OnlyListener DEF RegisteredLives, Begun
  <1>6. interrupts = 0 => ~sInterupted
    BY <1>1, <1>5, NoSignals
  <1>7. TimerInv'
    BY <1>1, <1>2, <1>3, <1>4, MoveKeepsTimer DEF RegisteredLives, counters, signals
  <1>8. StackInv' /\ BegunInv' /\ ChainInv' /\ \A u \in Listeners : Brought(u)' = Brought(u)
    BY <1>1, <1>2, <1>3, <1>4, <1>6, MoveKeepsJoin DEF signals
  <1>9. ServedInv'
    <2>1. Listeners' = Listeners
      BY <1>3, ModesKept
    <2> SUFFICES ASSUME process.mThreads > 0, interrupts = 0, NEW u \in Listeners
                 PROVE  /\ Cardinality(Brought(u)') >= process.mThreads - mClients'
                                                       + (IF life'[u] = "serving" THEN 1 ELSE 0)
                        /\ life'[u] \in Ended => mClients' <= 0
      BY <1>3, <2>1 DEF ServedInv, signals
    <2>2. u = t
      BY <1>1, <1>5, OneOfEach
    <2>3. life'[t] = l
      BY <1>1, <1>2, <1>4, BecomeMoves
    <2>4. Cardinality(Brought(u)) >= process.mThreads - mClients + 1
      BY <1>1, <1>3, <2>2 DEF ServedInv
    <2>5. Brought(u)' = Brought(u)
      BY <1>8
    <2>6. process.mThreads \in Nat /\ mClients \in Int
      BY <1>1, ProcessesAssumption DEF TypeOK, ProcessType
    <2>7. Cardinality(Brought(u)) \in Nat
      <3>1. Brought(u) \subseteq Threads
        BY DEF Brought, Modal
      <3> QED
        BY <3>1, FS_Subset, FS_CardinalityType
    <2>8. Cardinality(Brought(u)') >= process.mThreads - mClients' + (IF life'[u] = "serving" THEN 1 ELSE 0)
      BY <1>2, <1>3, <2>2, <2>3, <2>4, <2>5, <2>6, <2>7
    <2>9. l = "closing" => mClients' <= 0
      BY <1>2, <1>3, <1>6, <2>6
    <2> QED
      BY <1>2, <2>2, <2>3, <2>8, <2>9 DEF Ended
  <1> QED
    BY <1>7, <1>8, <1>9 DEF JoinInv

\* A stream turned away after a signal, or a server about to be started.
LEMMA AcceptKeepsJoin ==
    ASSUME CountInv, JoinInv, NEW t \in Threads, Accept(t)
    PROVE  JoinInv'
  <1>1. /\ TypeOK /\ ListenerInv /\ process \in Processes
        /\ TimerInv /\ StackInv /\ BegunInv /\ ChainInv /\ ServedInv
    BY DEF CountInv, CountAccurate, TypeOK, JoinInv
  <1>2. /\ life[t] = "accepting"
        /\ UNCHANGED <<process, counters, mClients, main, signals>>
    BY DEF Accept
  <1>3. t \in Listeners /\ Begun(t) /\ starting[t] = <<>>
    BY <1>1, <1>2, OnlyListener, NoStack DEF RegisteredLives, Begun
  <1>4. interrupts = 0 => ~sInterupted
    BY <1>1, <1>3, NoSignals
  <1>5. PICK s \in Threads :
          /\ s \in Modal("server") /\ life[s] = "unborn"
          /\ IF sInterupted THEN Become(t, "closing") /\ UNCHANGED starting
             ELSE Become(t, "serving") /\ starting' = [starting EXCEPT ![t] = <<s>>]
    BY DEF Accept, Modal
  <1>6. PICK l \in {"serving", "closing"} : Become(t, l) /\ l = IF sInterupted THEN "closing" ELSE "serving"
    BY <1>5
  <1>7. l \in Lives
    BY DEF Lives
  <1>8. TimerInv'
    BY <1>1, <1>2, <1>6, <1>7, MoveKeepsTimer DEF RegisteredLives, counters, signals
  <1>9. CASE sInterupted
    <2>1. UNCHANGED starting /\ l = "closing"
      BY <1>5, <1>6, <1>9
    <2>2. StackInv' /\ BegunInv' /\ ChainInv'
      BY <1>1, <1>2, <1>3, <1>4, <1>6, <1>7, <1>9, <2>1, MoveKeepsJoin DEF signals
    <2>3. ServedInv'
      BY <1>2, <1>4, <1>9 DEF ServedInv, signals
    <2> QED
      BY <1>8, <2>2, <2>3 DEF JoinInv
  <1>10. CASE ~sInterupted
    <2>1. /\ starting' = [starting EXCEPT ![t] = <<s>>] /\ l = "serving"
          /\ \A u \in Threads : life'[u] = IF u = t THEN "serving" ELSE life[u]
      BY <1>1, <1>5, <1>6, <1>7, <1>10, BecomeMoves
    <2>2. <<s>> \in Seq(Threads) /\ DOMAIN <<s>> = {1} /\ <<s>>[1] = s /\ <<s>> # <<>>
      OBVIOUS
    <2>3. t \in Starters
      BY DEF Starters
    <2>4. /\ starting'[t] # <<>> /\ \A r \in Starters : r # t => starting'[r] = starting[r]
          /\ \A u \in Threads : ~OnStack(t, u)
          /\ \A r \in Starters, u \in Threads : OnStack(r, u)' <=> OnStack(r, u) \/ (r = t /\ u = s)
      <3>1. PICK q \in Seq(Threads) : q = <<s>>
        BY <2>2
      <3>2. starting' = [starting EXCEPT ![t] = q] /\ DOMAIN q = {1} /\ q[1] = s /\ q # <<>>
        BY <2>1, <2>2, <3>1
      <3>3. /\ starting'[t] = q /\ \A r \in Starters : r # t => starting'[r] = starting[r]
            /\ \A u \in Threads : ~OnStack(t, u)
            /\ \A r \in Starters, u \in Threads : OnStack(r, u)' <=>
                 OnStack(r, u) \/ (r = t /\ \E i \in DOMAIN q : q[i] = u)
        BY <1>1, <1>3, <2>3, <3>2, OnReplaced
      <3>4. \A u : (\E i \in DOMAIN q : q[i] = u) <=> u = s
        BY <3>2
      <3> QED
        BY <3>2, <3>3, <3>4, Zenon
    <2>5. /\ Listeners' = Listeners /\ Transfers' = Transfers /\ Modal("server")' = Modal("server") /\ Wanted' = Wanted
          /\ Listeners \subseteq Threads /\ Modal("server") \subseteq Threads
      BY <1>2, ModesKept DEF Modes, Listeners, Modal
    <2>6. \A u \in Threads : Begun(u)' <=> Begun(u) \/ u = s
      BY <1>2, <2>1, <2>3, <2>4 DEF Begun
    <2>7. StackInv'
      <3>1. starting'[Main] = starting[Main]
        BY <2>4 DEF Starters
      <3>2. starting'[Main] # <<>> => main' \in {"starting", "killed"}
        BY <1>1, <1>2, <3>1 DEF StackInv
      <3>3. ASSUME NEW u \in Threads
            PROVE  /\ starting'[u] # <<>> => life'[u] = "serving" \/ (life'[u] = "gone" /\ process'.runNext[u] # None)
                   /\ life'[u] = "transfer" => u \in Transfers'
                   /\ life'[u] \in {"failed", "stopped"} => u \in Faulty
        <4>1. CASE u = t
          BY <2>1, <4>1
        <4>2. CASE u # t
          BY <1>1, <1>2, <2>1, <2>4, <2>5, <4>2 DEF StackInv, Starters
        <4> QED
          BY <4>1, <4>2
      <3> QED
        BY <3>2, <3>3 DEF StackInv
    <2>8. BegunInv'
      <3>1. s \notin Listeners
        BY <1>5 DEF Modal, Listeners
      <3>2. ASSUME NEW u \in Listeners, Begun(u)'
            PROVE  process'.timed = {}
        BY <1>1, <1>2, <2>5, <2>6, <3>1, <3>2 DEF BegunInv
      <3>3. Hearing(t)'
        BY <2>1 DEF Hearing
      <3> QED
        BY <1>3, <2>5, <3>2, <3>3 DEF BegunInv
    <2>9. ChainInv'
      <3> SUFFICES ASSUME Wanted
                   PROVE  \E u \in Listeners : life'[u] # "unborn" \/ OnStack(Main, u)'
        BY <1>2, <2>5 DEF ChainInv
      <3> QED
        BY <1>3, <2>1
    <2>10. ServedInv'
      <3> SUFFICES ASSUME process.mThreads > 0, interrupts = 0, NEW u \in Listeners
                   PROVE  /\ Cardinality(Brought(u)') >= process.mThreads - mClients
                                                         + (IF life'[u] = "serving" THEN 1 ELSE 0)
                          /\ life'[u] \in Ended => mClients <= 0
        BY <1>2, <2>5 DEF ServedInv, signals
      <3>1. u = t
        BY <1>1, <1>3, OneOfEach
      <3>2. Brought(u)' = Brought(u) \cup {s} /\ s \notin Brought(u)
        <4>1. s # t /\ ~OnStack(t, s)
          BY <1>2, <1>5, <2>4
        <4>2. ASSUME NEW v \in Modal("server")
              PROVE  (life'[v] # "unborn" \/ OnStack(t, v)') <=> (life[v] # "unborn" \/ OnStack(t, v)) \/ v = s
          <5>1. v \in Threads
            BY <2>5
          <5>2. life'[v] = "unborn" <=> life[v] = "unborn"
            BY <1>2, <2>1, <5>1
          <5>3. OnStack(t, v)' <=> OnStack(t, v) \/ v = s
            BY <2>3, <2>4, <5>1
          <5> QED
            BY <5>2, <5>3
        <4>3. Brought(t) = {v \in Modal("server") : life[v] # "unborn" \/ OnStack(t, v)}
          BY DEF Brought
        <4>4. Brought(t)' = {v \in Modal("server") : life'[v] # "unborn" \/ OnStack(t, v)'}
          BY <2>5 DEF Brought
        <4>5. s \in Modal("server") /\ life[s] = "unborn"
          BY <1>5
        <4>6. Brought(t)' = Brought(t) \cup {s} /\ s \notin Brought(t)
          BY <4>1, <4>2, <4>3, <4>4, <4>5
        <4> QED
          BY <3>1, <4>6
      <3>3. IsFiniteSet(Brought(u)) /\ Cardinality(Brought(u)) \in Nat
        <4>1. Brought(u) \subseteq Threads
          BY DEF Brought, Modal
        <4> QED
          BY <4>1, FS_Subset, FS_CardinalityType
      <3>4. Cardinality(Brought(u)') = Cardinality(Brought(u)) + 1
        BY <3>2, <3>3, FS_AddElement
      <3>5. Cardinality(Brought(u)) >= process.mThreads - mClients
        <4>1. Cardinality(Brought(u)) >= process.mThreads - mClients + (IF life[u] = "serving" THEN 1 ELSE 0)
          BY <1>1 DEF ServedInv
        <4>2. process.mThreads \in Nat /\ mClients \in Int
          BY <1>1, ProcessesAssumption DEF TypeOK, ProcessType
        <4> QED
          BY <1>2, <3>1, <3>3, <4>1, <4>2
      <3>6. process.mThreads \in Nat /\ mClients \in Int
        BY <1>1, ProcessesAssumption DEF TypeOK, ProcessType
      <3> QED
        BY <2>1, <3>1, <3>3, <3>4, <3>5, <3>6 DEF Ended
    <2> QED
      BY <1>8, <2>7, <2>8, <2>9, <2>10 DEF JoinInv
  <1> QED
    BY <1>9, <1>10

\* Only what the wiring lets run next is started by a thread that has ended.
LEMMA StartRunNextKeepsJoin ==
    ASSUME CountInv, JoinInv, JoinWiring(process), NEW t \in Threads, StartRunNext(t)
    PROVE  JoinInv'
  <1>1. /\ TypeOK /\ ListenerInv /\ process \in Processes
        /\ TimerInv /\ StackInv /\ BegunInv /\ ChainInv /\ ServedInv
    BY DEF CountInv, CountAccurate, TypeOK, JoinInv
  <1> DEFINE q == IF process.runNext[t] = None THEN <<>> ELSE <<process.runNext[t]>>
  <1>2. /\ life[t] = "leaving" /\ Become(t, "gone")
        /\ starting' = [starting EXCEPT ![t] = q]
        /\ UNCHANGED <<process, counters, mClients, main, signals>>
    BY DEF StartRunNext
  <1>3. starting[t] = <<>> /\ Begun(t)
    BY <1>1, <1>2, NoStack DEF Begun
  <1>4. /\ q \in Seq(Threads)
        /\ q # <<>> => process.runNext[t] # None
        /\ \A i \in DOMAIN q : q[i] = process.runNext[t]
    <2>1. process.runNext[t] \in Threads \cup {None}
      BY <1>1, ProcessesAssumption DEF ProcessType
    <2>2. CASE process.runNext[t] = None
      BY <2>2
    <2>3. CASE process.runNext[t] # None
      <3>1. <<process.runNext[t]>> \in Seq(Threads) /\ DOMAIN <<process.runNext[t]>> = {1}
        BY <2>1, <2>3
      <3> QED
        BY <2>3, <3>1
    <2> QED
      BY <2>2, <2>3
  <1> HIDE DEF q
  <1>5. t \in Starters
    BY DEF Starters
  <1>6. /\ starting'[t] = q /\ \A r \in Starters : r # t => starting'[r] = starting[r]
        /\ \A r \in Starters, u \in Threads :
             /\ OnStack(r, u) => OnStack(r, u)'
             /\ OnStack(r, u)' => OnStack(r, u) \/ (r = t /\ u = process.runNext[t])
    <2>1. /\ starting'[t] = q /\ \A r \in Starters : r # t => starting'[r] = starting[r]
          /\ \A r \in Starters, u \in Threads : OnStack(r, u)' <=>
               OnStack(r, u) \/ (r = t /\ \E i \in DOMAIN q : q[i] = u)
      BY <1>1, <1>2, <1>3, <1>4, <1>5, OnReplaced
    <2> QED
      BY <1>4, <2>1
  <1>7. \A u \in Threads : life'[u] = IF u = t THEN "gone" ELSE life[u]
    BY <1>1, <1>2, BecomeMoves DEF Lives
  <1>8. /\ Listeners' = Listeners /\ Transfers' = Transfers /\ Modal("server")' = Modal("server") /\ Wanted' = Wanted
        /\ Listeners \subseteq Threads /\ Modal("server") \subseteq Threads
    BY <1>2, ModesKept DEF Modes, Listeners, Modal
  <1>9. \A u \in Threads : Begun(u)' => Begun(u) \/ u = process.runNext[t]
    BY <1>2, <1>6, <1>7 DEF Begun
  <1>10. /\ process.runNext[t] \notin Modal("server")
         /\ process.runNext[t] \in Listeners => process.timed = {}
    <2>1. \A m : process.runNext[t] \in Modal(m) =>
            process.runNext[t] \in Threads /\ process.mode[process.runNext[t]] = m
      BY DEF Modal
    <2> QED
      BY <2>1 DEF JoinWiring, Listeners
  <1>11. TimerInv'
    BY <1>1, <1>2, MoveKeepsTimer DEF Lives, RegisteredLives, counters, signals
  <1>12. StackInv'
    <2>1. starting'[Main] = starting[Main]
      BY <1>6 DEF Starters
    <2>2. starting'[Main] # <<>> => main' \in {"starting", "killed"}
      BY <1>1, <1>2, <2>1 DEF StackInv
    <2>3. ASSUME NEW u \in Threads
          PROVE  /\ starting'[u] # <<>> => life'[u] = "serving" \/ (life'[u] = "gone" /\ process'.runNext[u] # None)
                 /\ life'[u] = "transfer" => u \in Transfers'
                 /\ life'[u] \in {"failed", "stopped"} => u \in Faulty
      <3>1. CASE u = t
        BY <1>2, <1>4, <1>6, <1>7, <3>1
      <3>2. CASE u # t
        BY <1>1, <1>2, <1>6, <1>7, <1>8, <3>2 DEF StackInv, Starters
      <3> QED
        BY <3>1, <3>2
    <2> QED
      BY <2>2, <2>3 DEF StackInv
  <1>13. BegunInv'
    <2>1. ASSUME NEW u \in Listeners, Begun(u)'
          PROVE  process'.timed = {}
      BY <1>1, <1>2, <1>8, <1>9, <1>10, <2>1 DEF BegunInv
    <2>2. ASSUME interrupts' = 0, process'.mThreads = 0, NEW s \in Modal("server"), Begun(s)'
          PROVE  \E u \in Listeners : Hearing(u)'
      <3>1. Begun(s)
        BY <1>8, <1>9, <1>10, <2>2
      <3>2. PICK u \in Listeners : Hearing(u)
        BY <1>1, <1>2, <2>2, <3>1 DEF BegunInv, signals
      <3> QED
        BY <1>2, <1>7, <1>8, <3>2 DEF Hearing
    <2> QED
      BY <1>8, <2>1, <2>2 DEF BegunInv
  <1>14. ChainInv'
    <2> SUFFICES ASSUME Wanted
                 PROVE  \E u \in Listeners : life'[u] # "unborn" \/ OnStack(Main, u)'
      BY <1>2, <1>8 DEF ChainInv
    <2>1. PICK u \in Listeners : life[u] # "unborn" \/ OnStack(Main, u)
      BY <1>1, <1>2 DEF ChainInv
    <2> QED
      BY <1>6, <1>7, <1>8, <2>1 DEF Starters
  <1>15. \A u \in Listeners : Brought(u)' = Brought(u)
    <2> SUFFICES ASSUME NEW u \in Listeners, NEW s \in Modal("server")
                 PROVE  life'[s] # "unborn" \/ OnStack(u, s)' <=> life[s] # "unborn" \/ OnStack(u, s)
      BY <1>8 DEF Brought
    <2>1. life'[s] = "unborn" <=> life[s] = "unborn"
      BY <1>2, <1>7, <1>8
    <2>2. OnStack(u, s)' <=> OnStack(u, s)
      BY <1>6, <1>8, <1>10 DEF Starters
    <2> QED
      BY <2>1, <2>2
  <1>16. ServedInv'
    BY <1>1, <1>2, <1>15, MoveKeepsServed DEF Lives, Ended, signals
  <1> QED
    BY <1>11, <1>12, <1>13, <1>14, <1>16 DEF JoinInv

-----------------------------------------------------------------------------
(* Steps inside thread_start.                                              *)

\* While nobody has begun but the threads that bring the listener, only main
\* is in thread_start, for one of them.
LEMMA ChainHead ==
    ASSUME TypeOK, StackInv, NEW s \in Starters, starting[s] # <<>>,
           \A t \in Threads : life[t] = "unborn"
    PROVE  s = Main
BY DEF StackInv, Starters

LEMMA StartRunNowKeepsJoin ==
    ASSUME CountInv, JoinInv, JoinWiring(process), NEW s \in Starters, StartRunNow(s)
    PROVE  JoinInv'
  <1>1. /\ TypeOK /\ process \in Processes
        /\ TimerInv /\ StackInv /\ BegunInv /\ ChainInv /\ ServedInv
    BY DEF CountInv, CountAccurate, TypeOK, JoinInv
  <1>2. PICK t \in Threads : t = Head(starting[s]) /\ OnStack(s, t) /\ Begun(t)
    BY <1>1, HeadIsThread, HeadOnStack DEF StartRunNow
  <1>3. /\ starting[s] # <<>> /\ life[t] = "unborn" /\ process.runNow[t] # None
        /\ starting' = [starting EXCEPT ![s] = <<process.runNow[t]>> \o @]
        /\ UNCHANGED <<process, counters, life, mClients, reporting, reports, main, signals>>
    BY <1>2 DEF StartRunNow
  <1>4. PICK n \in Threads : n = process.runNow[t]
    BY <1>1, <1>3, ProcessesAssumption DEF ProcessType
  <1>5. /\ starting'[s] # <<>>
        /\ \A r \in Starters : r # s => starting'[r] = starting[r]
        /\ \A r \in Starters, u \in Threads : OnStack(r, u)' <=> OnStack(r, u) \/ (r = s /\ u = n)
    <2>1. starting' = [starting EXCEPT ![s] = <<n>> \o @]
      BY <1>3, <1>4
    <2> QED
      BY <1>1, <2>1, OnPushed
  <1>6. /\ Listeners' = Listeners /\ Transfers' = Transfers /\ Modal("server")' = Modal("server") /\ Wanted' = Wanted
        /\ Listeners \subseteq Threads /\ Modal("server") \subseteq Threads
    BY <1>3, ModesKept DEF Modes, Listeners, Modal
  <1>7. \A u \in Threads : Begun(u)' => Begun(u) \/ u = n
    BY <1>3, <1>5 DEF Begun
  <1>8. n \notin Modal("server") /\ (n \in Listeners => process.timed = {})
    BY <1>4 DEF JoinWiring, Modal, Listeners
  <1>9. TimerInv'
    <2>1. Released' = Released
      BY <1>3, <1>6 DEF Released, Registered, Listeners, Modal, counters
    <2> QED
      BY <1>1, <1>3, <2>1 DEF TimerInv, signals
  <1>10. StackInv'
    <2>1. \A r \in Starters : starting'[r] # <<>> => starting[r] # <<>>
      BY <1>3, <1>5
    <2> QED
      BY <1>1, <1>3, <1>6, <2>1 DEF StackInv, Starters
  <1>11. BegunInv'
    <2>1. ASSUME NEW u \in Listeners, Begun(u)'
          PROVE  process'.timed = {}
      BY <1>1, <1>3, <1>6, <1>7, <1>8, <2>1 DEF BegunInv
    <2>2. ASSUME interrupts' = 0, process'.mThreads = 0, NEW v \in Modal("server"), Begun(v)'
          PROVE  \E u \in Listeners : Hearing(u)'
      <3>1. Begun(v)
        BY <1>6, <1>7, <1>8, <2>2
      <3>2. PICK u \in Listeners : Hearing(u)
        BY <1>1, <1>3, <2>2, <3>1 DEF BegunInv, signals
      <3> QED
        BY <1>3, <3>2 DEF Hearing
    <2> QED
      BY <1>6, <2>1, <2>2 DEF BegunInv
  <1>12. ChainInv'
    <2> SUFFICES ASSUME Wanted,
                        ~\E l \in Listeners : life[l] # "unborn" \/ OnStack(Main, l)
                 PROVE  /\ starting'[Main] # <<>>
                        /\ \A u \in Threads : life'[u] = "unborn"
                        /\ \E chain \in SUBSET Threads :
                             /\ \A u \in chain : process.mode[u] = "listener" \/ process.runNow[u] \in chain
                             /\ \A u \in Threads : OnStack(Main, u)' => u \in chain
      <3>1. (\E l \in Listeners : life[l] # "unborn" \/ OnStack(Main, l)) =>
              \E l \in Listeners : life'[l] # "unborn" \/ OnStack(Main, l)'
        BY <1>3, <1>5, <1>6 DEF Starters
      <3> QED
        BY <1>3, <1>6, <3>1 DEF ChainInv
    <2>1. \A u \in Threads : life[u] = "unborn"
      BY <1>1 DEF ChainInv
    <2>2. PICK chain \in SUBSET Threads :
            /\ \A u \in chain : process.mode[u] = "listener" \/ process.runNow[u] \in chain
            /\ \A u \in Threads : OnStack(Main, u) => u \in chain
      BY <1>1 DEF ChainInv
    <2>3. s = Main
      BY <1>1, <1>3, <2>1, ChainHead
    <2>4. t \in chain /\ process.mode[t] # "listener"
      BY <1>2, <2>2, <2>3 DEF Listeners, Modal
    <2>5. n \in chain
      BY <1>4, <2>2, <2>4
    <2>6. \A u \in Threads : OnStack(Main, u)' => u \in chain
      BY <1>5, <2>2, <2>3, <2>5
    <2> QED
      BY <1>3, <1>5, <2>1, <2>2, <2>3, <2>6
  <1>13. ServedInv'
    <2>1. ASSUME NEW u \in Listeners
          PROVE  Brought(u) \subseteq Brought(u)'
      BY <1>3, <1>5, <1>6 DEF Brought, Starters
    <2> QED
      BY <1>1, <1>3, <2>1, GrowKeepsServed DEF signals
  <1> QED
    BY <1>9, <1>10, <1>11, <1>12, <1>13 DEF JoinInv

LEMMA CountThreadKeepsJoin ==
    ASSUME CountInv, JoinInv, NEW s \in Starters, CountThread(s)
    PROVE  JoinInv'
  <1>1. /\ TypeOK /\ process \in Processes
        /\ TimerInv /\ StackInv /\ BegunInv /\ ChainInv /\ ServedInv
    BY DEF CountInv, CountAccurate, TypeOK, JoinInv
  <1>2. PICK t \in Threads : t = Head(starting[s]) /\ OnStack(s, t) /\ Begun(t)
    BY <1>1, HeadIsThread, HeadOnStack DEF CountThread
  <1>3. /\ starting[s] # <<>> /\ life[t] = "unborn" /\ Become(t, "counted")
        /\ process.runNow[t] # None => life[process.runNow[t]] # "unborn"
        /\ UNCHANGED <<process, nonterminating_num, starting, mClients, reporting, reports, main, signals>>
    BY <1>2 DEF CountThread
  <1>4. "counted" \in Lives /\ \A u \in Threads : life'[u] = IF u = t THEN "counted" ELSE life[u]
    BY <1>1, <1>3, BecomeMoves DEF Lives
  <1>5. /\ Listeners' = Listeners /\ Transfers' = Transfers /\ Modal("server")' = Modal("server") /\ Wanted' = Wanted
        /\ Listeners \subseteq Threads /\ Modal("server") \subseteq Threads
    BY <1>3, ModesKept DEF Modes, Listeners, Modal
  <1>6. \A r \in Starters, u \in Threads : OnStack(r, u)' <=> OnStack(r, u)
    BY <1>3 DEF OnStack
  <1>7. \A u \in Threads : Begun(u)' <=> Begun(u)
    <2>1. \A u \in Threads : u # t => (Begun(u)' <=> Begun(u))
      BY <1>4, <1>6 DEF Begun
    <2>2. Begun(t)'
      BY <1>4 DEF Begun
    <2> QED
      BY <1>2, <2>1, <2>2
  <1>8. TimerInv'
    BY <1>1, <1>3, <1>4, MoveKeepsTimer DEF RegisteredLives, signals
  <1>9. StackInv'
    <2>1. starting'[Main] # <<>> => main' \in {"starting", "killed"}
      BY <1>1, <1>3 DEF StackInv
    <2>2. ASSUME NEW u \in Threads
          PROVE  /\ starting'[u] # <<>> => life'[u] = "serving" \/ (life'[u] = "gone" /\ process'.runNext[u] # None)
                 /\ life'[u] = "transfer" => u \in Transfers'
                 /\ life'[u] \in {"failed", "stopped"} => u \in Faulty
      <3>1. CASE u = t
        BY <1>1, <1>3, <1>4, <3>1, NoStack
      <3>2. CASE u # t
        BY <1>1, <1>3, <1>4, <1>5, <3>2 DEF StackInv
      <3> QED
        BY <3>1, <3>2
    <2> QED
      BY <2>1, <2>2 DEF StackInv
  <1>10. BegunInv'
    <2>1. ASSUME NEW u \in Listeners, Begun(u)'
          PROVE  process'.timed = {}
      BY <1>1, <1>3, <1>5, <1>7, <2>1 DEF BegunInv
    <2>2. ASSUME interrupts' = 0, process'.mThreads = 0, NEW v \in Modal("server"), Begun(v)'
          PROVE  \E u \in Listeners : Hearing(u)'
      <3>1. PICK u \in Listeners : Hearing(u)
        BY <1>1, <1>3, <1>5, <1>7, <2>2 DEF BegunInv, signals
      <3> QED
        BY <1>3, <1>4, <1>5, <3>1 DEF Hearing
    <2> QED
      BY <1>5, <2>1, <2>2 DEF BegunInv
  <1>11. ChainInv'
    <2> SUFFICES ASSUME Wanted
                 PROVE  \E l \in Listeners : life'[l] # "unborn" \/ OnStack(Main, l)'
      BY <1>3, <1>5 DEF ChainInv
    <2>1. SUFFICES ASSUME ~\E l \in Listeners : life[l] # "unborn" \/ OnStack(Main, l)
                   PROVE  FALSE
      BY <1>4, <1>5, <1>6 DEF Starters
    <2>2. \A u \in Threads : life[u] = "unborn"
      BY <1>1, <2>1 DEF ChainInv
    <2>3. PICK chain \in SUBSET Threads :
            /\ \A u \in chain : process.mode[u] = "listener" \/ process.runNow[u] \in chain
            /\ \A u \in Threads : OnStack(Main, u) => u \in chain
      BY <1>1, <2>1 DEF ChainInv
    <2>4. s = Main
      BY <1>1, <1>3, <2>2, ChainHead
    <2>5. t \in chain /\ process.mode[t] # "listener"
      BY <1>2, <2>1, <2>3, <2>4 DEF Listeners, Modal
    <2>6. process.runNow[t] \in Threads
      BY <2>3, <2>5
    <2> QED
      BY <1>3, <2>2, <2>6
  <1>12. ServedInv'
    <2>1. ASSUME NEW u \in Listeners
          PROVE  Brought(u) \subseteq Brought(u)'
      BY <1>4, <1>5, <1>6 DEF Brought, Starters
    <2>2. ASSUME NEW u \in Listeners
          PROVE  /\ life'[u] = "serving" => life[u] = "serving"
                 /\ life'[u] \in Ended => life[u] \in Ended
      BY <1>4, <1>5 DEF Ended
    <2> QED
      BY <1>1, <1>3, <2>1, <2>2, GrowKeepsServed DEF signals
  <1> QED
    BY <1>8, <1>9, <1>10, <1>11, <1>12 DEF JoinInv

LEMMA CreateThreadKeepsJoin ==
    ASSUME CountInv, JoinInv, NEW s \in Starters, CreateThread(s) \/ CreateThreadFails(s)
    PROVE  JoinInv'
  <1>1. /\ TypeOK /\ process \in Processes
        /\ TimerInv /\ StackInv /\ BegunInv /\ ChainInv /\ ServedInv
    BY DEF CountInv, CountAccurate, TypeOK, JoinInv
  <1>2. PICK t \in Threads : t = Head(starting[s]) /\ OnStack(s, t) /\ Begun(t)
    BY <1>1, HeadIsThread, HeadOnStack DEF CreateThread, CreateThreadFails
  <1>3. PICK l \in {"running", "failed"} :
          /\ starting[s] # <<>> /\ life[t] = "counted" /\ Become(t, l)
          /\ l = "failed" => t \in Faulty
          /\ starting' = [starting EXCEPT ![s] = Tail(@)]
          /\ UNCHANGED <<process, nonterminating_num, mClients, main, signals>>
    BY <1>2 DEF CreateThread, CreateThreadFails, counters
  <1>4. l \in Lives /\ \A u \in Threads : life'[u] = IF u = t THEN l ELSE life[u]
    BY <1>1, <1>3, BecomeMoves DEF Lives
  <1>5. /\ Listeners' = Listeners /\ Transfers' = Transfers /\ Modal("server")' = Modal("server") /\ Wanted' = Wanted
        /\ Listeners \subseteq Threads /\ Modal("server") \subseteq Threads
    BY <1>3, ModesKept DEF Modes, Listeners, Modal
  <1>6. /\ \A r \in Starters : r # s => starting'[r] = starting[r]
        /\ \A r \in Starters, u \in Threads :
             /\ OnStack(r, u)' => OnStack(r, u)
             /\ OnStack(r, u) => OnStack(r, u)' \/ u = t
    <2>1. /\ \A r \in Starters : r # s => starting'[r] = starting[r]
          /\ \A r \in Starters, u \in Threads :
               /\ OnStack(r, u)' => OnStack(r, u)
               /\ OnStack(r, u) => OnStack(r, u)' \/ (r = s /\ u = Head(starting[s]))
      BY <1>1, <1>3, OnPopped
    <2> QED
      BY <1>2, <2>1, Zenon
  <1>7. \A u \in Threads : Begun(u)' <=> Begun(u)
    <2>1. \A u \in Threads : u # t => (Begun(u)' <=> Begun(u))
      BY <1>4, <1>6 DEF Begun
    <2>2. Begun(t)'
      BY <1>3, <1>4 DEF Begun
    <2> QED
      BY <1>2, <2>1, <2>2
  <1>8. TimerInv'
    BY <1>1, <1>3, <1>4, MoveKeepsTimer DEF RegisteredLives, signals
  <1>9. StackInv'
    <2>0. \A r \in Starters : starting'[r] # <<>> => starting[r] # <<>>
      BY <1>3, <1>6
    <2>1. starting'[Main] # <<>> => main' \in {"starting", "killed"}
      BY <1>1, <1>3, <2>0 DEF StackInv, Starters
    <2>2. ASSUME NEW u \in Threads
          PROVE  /\ starting'[u] # <<>> => life'[u] = "serving" \/ (life'[u] = "gone" /\ process'.runNext[u] # None)
                 /\ life'[u] = "transfer" => u \in Transfers'
                 /\ life'[u] \in {"failed", "stopped"} => u \in Faulty
      <3>1. CASE u = t
        <4>1. starting[t] = <<>>
          BY <1>1, <1>3, NoStack
        <4> QED
          BY <1>3, <1>4, <2>0, <3>1, <4>1 DEF Starters
      <3>2. CASE u # t
        BY <1>1, <1>3, <1>4, <1>5, <2>0, <3>2 DEF StackInv, Starters
      <3> QED
        BY <3>1, <3>2
    <2> QED
      BY <2>1, <2>2 DEF StackInv
  <1>10. BegunInv'
    <2>1. ASSUME NEW u \in Listeners, Begun(u)'
          PROVE  process'.timed = {}
      BY <1>1, <1>3, <1>5, <1>7, <2>1 DEF BegunInv
    <2>2. ASSUME interrupts' = 0, process'.mThreads = 0, NEW v \in Modal("server"), Begun(v)'
          PROVE  \E u \in Listeners : Hearing(u)'
      <3>1. PICK u \in Listeners : Hearing(u)
        BY <1>1, <1>3, <1>5, <1>7, <2>2 DEF BegunInv, signals
      <3> QED
        BY <1>3, <1>4, <1>5, <3>1 DEF Hearing
    <2> QED
      BY <1>5, <2>1, <2>2 DEF BegunInv
  <1>11. ChainInv'
    <2> SUFFICES ASSUME Wanted
                 PROVE  \E u \in Listeners : life'[u] # "unborn" \/ OnStack(Main, u)'
      BY <1>3, <1>5 DEF ChainInv
    <2>1. PICK u \in Listeners : life[u] # "unborn" \/ OnStack(Main, u)
      BY <1>1, <1>3 DEF ChainInv
    <2> QED
      BY <1>3, <1>4, <1>5, <1>6, <2>1 DEF Starters
  <1>12. ServedInv'
    <2>1. ASSUME NEW u \in Listeners
          PROVE  Brought(u) \subseteq Brought(u)'
      BY <1>3, <1>4, <1>5, <1>6 DEF Brought, Starters
    <2>2. ASSUME NEW u \in Listeners
          PROVE  /\ life'[u] = "serving" => life[u] = "serving"
                 /\ life'[u] \in Ended => life[u] \in Ended
      BY <1>3, <1>4, <1>5 DEF Ended
    <2> QED
      BY <1>1, <1>3, <2>1, <2>2, GrowKeepsServed DEF signals
  <1> QED
    BY <1>8, <1>9, <1>10, <1>11, <1>12 DEF JoinInv

-----------------------------------------------------------------------------
(* Signals, the reporter and main.                                         *)

LEMMA SignalKeepsJoin ==
    ASSUME CountInv, JoinInv, Interrupt \/ TimerFires
    PROVE  JoinInv'
  <1>1. TypeOK /\ TimerInv /\ Sig_Interupt
    BY DEF CountInv, CountAccurate, JoinInv, Interrupt, TimerFires
  <1>2. UNCHANGED <<process, life, starting, mClients>>
    BY <1>1 DEF Sig_Interupt
  <1>3. /\ main' = main \/ main' = "killed" \/ (main = "asleep" /\ main' = "testing")
        /\ UNCHANGED <<nonterminating_num, sInterupted>> \/ sInterupted' = TRUE
    BY <1>1 DEF Sig_Interupt, thread_release_nonterm, SignalMain, counters
  <1>4. interrupts' = interrupts \/ interrupts' # 0
    <2>1. interrupts \in Nat
      BY <1>1 DEF TypeOK
    <2> QED
      BY <2>1 DEF Interrupt, TimerFires
  <1>5. TimerInv'
    <2>1. timer' \/ (sInterupted' /\ interrupts' = 0) => process'.timed # {}
      <3>1. CASE Interrupt
        <4>1. timer' = timer
          BY <3>1 DEF Interrupt
        <4>2. interrupts' # 0
          <5>1. interrupts \in Nat /\ interrupts' = interrupts + 1
            BY <1>1, <3>1 DEF TypeOK, Interrupt
          <5> QED
            BY <5>1
        <4> QED
          BY <1>1, <1>2, <4>1, <4>2 DEF TimerInv
      <3>2. CASE TimerFires
        BY <1>1, <1>2, <3>2 DEF TimerInv, TimerFires
      <3> QED
        BY <3>1, <3>2
    <2>2. Released' # {} => sInterupted'
      <3>1. Listeners' = Listeners
        BY <1>2, ModesKept
      <3>2. UNCHANGED nonterminating_num => Released' = Released
        BY <1>2, <3>1 DEF Released, Registered, Listeners, Modal
      <3> QED
        BY <1>1, <1>3, <3>2 DEF TimerInv
    <2> QED
      BY <2>1, <2>2, Zenon DEF TimerInv
  <1>6. StackInv' /\ BegunInv' /\ ChainInv' /\ ServedInv'
    BY <1>2, <1>3, <1>4, SameKeepsJoin
  <1> QED
    BY <1>5, <1>6 DEF JoinInv

LEMMA OthersKeepJoin ==
    ASSUME CountInv, JoinInv, ReporterStep \/ BeginJoin \/ thread_joinall \/ UNCHANGED vars
    PROVE  JoinInv'
  <1>1. UNCHANGED <<process, life, starting, mClients, nonterminating_num, signals>>
    <2>1. CASE ReporterStep
      BY <2>1 DEF ReporterStep, thread_setignore, thread_unsetignore, FreeReport, counters
    <2>2. CASE BeginJoin \/ thread_joinall \/ UNCHANGED vars
      BY <2>2 DEF BeginJoin, thread_joinall, vars, counters
    <2> QED
      BY <2>1, <2>2
  <1>2. \/ main' = main \/ main' = "killed" \/ (main = "asleep" /\ main' = "testing")
        \/ starting[Main] = <<>>
    <2>1. CASE ReporterStep \/ UNCHANGED vars
      BY <2>1 DEF ReporterStep, thread_setignore, thread_unsetignore, FreeReport, SignalMain, vars
    <2>2. CASE BeginJoin
      BY <2>2 DEF BeginJoin
    <2>3. CASE thread_joinall
      BY <2>3 DEF thread_joinall, JoinInv, StackInv
    <2> QED
      BY <2>1, <2>2, <2>3
  <1>3. Listeners' = Listeners
    BY <1>1, ModesKept
  <1>4. Released' = Released
    BY <1>1, <1>3 DEF Released, Registered, Listeners, Modal
  <1>5. TimerInv'
    BY <1>1, <1>4 DEF JoinInv, TimerInv, signals
  <1>6. StackInv' /\ BegunInv' /\ ChainInv' /\ ServedInv'
    BY <1>1, <1>2, SameKeepsJoin DEF signals
  <1> QED
    BY <1>5, <1>6 DEF JoinInv

-----------------------------------------------------------------------------
LEMMA InitJoin == Init => JoinInv
  <1> SUFFICES ASSUME Init
               PROVE  JoinInv
    OBVIOUS
  <1>1. /\ process \in Processes /\ main = "starting" /\ interrupts = 0
        /\ sInterupted = FALSE /\ timer = FALSE /\ mClients = process.mThreads
        /\ \A t \in Threads : life[t] = "unborn" /\ starting[t] = <<>>
        /\ starting[Main] = <<Reporter>>
    BY DEF Init, Starters
  <1>2. \A s \in Starters, t \in Threads : OnStack(s, t) => t = Reporter
    <2>1. \A t \in Threads : DOMAIN starting[t] = {}
      BY <1>1
    <2>2. DOMAIN starting[Main] = {1} /\ starting[Main][1] = Reporter
      BY <1>1
    <2> QED
      BY <2>1, <2>2, Zenon DEF OnStack, Starters
  <1>3. \A t \in Threads : Begun(t) => t = Reporter
    BY <1>1, <1>2 DEF Begun
  <1>4. Reporter \notin Listeners /\ Reporter \notin Modal("server") /\ Listeners \subseteq Threads
    BY <1>1, OneOfEach DEF Transfers
  <1>5. TimerInv
    <2>1. Registered = {}
      BY <1>1, <1>4 DEF Registered, RegisteredLives
    <2>2. Released = {}
      BY <2>1 DEF Released
    <2> QED
      BY <1>1, <2>2, Zenon DEF TimerInv
  <1>6. StackInv
    <2>1. starting[Main] # <<>> => main \in {"starting", "killed"}
      BY <1>1
    <2>2. ASSUME NEW t \in Threads
          PROVE  /\ starting[t] # <<>> => life[t] = "serving" \/ (life[t] = "gone" /\ process.runNext[t] # None)
                 /\ life[t] = "transfer" => t \in Transfers
                 /\ life[t] \in {"failed", "stopped"} => t \in Faulty
      <3>1. life[t] = "unborn" /\ starting[t] = <<>>
        BY <1>1
      <3> QED
        BY <3>1
    <2> QED
      BY <2>1, <2>2 DEF StackInv
  <1>7. BegunInv
    BY <1>3, <1>4 DEF BegunInv, Modal
  <1>8. ChainInv
    <2> SUFFICES ASSUME Wanted
                 PROVE  \E chain \in SUBSET Threads :
                          /\ \A t \in chain : process.mode[t] = "listener" \/ process.runNow[t] \in chain
                          /\ \A t \in Threads : OnStack(Main, t) => t \in chain
      <3>1. starting[Main] # <<>>
        BY <1>1
      <3>2. \A t \in Threads : life[t] = "unborn"
        BY <1>1
      <3> QED
        BY <3>1, <3>2, Zenon DEF ChainInv
    <2> QED
      BY <1>2 DEF Wanted, ListenerWiring, Starters
  <1>9. ServedInv
    <2> SUFFICES ASSUME NEW l \in Listeners
                 PROVE  /\ Cardinality(Brought(l)) >= process.mThreads - mClients
                                                      + (IF life[l] = "serving" THEN 1 ELSE 0)
                        /\ life[l] \notin Ended
      BY DEF ServedInv
    <2>1. life[l] = "unborn"
      BY <1>1, <1>4
    <2>2. Cardinality(Brought(l)) \in Nat
      <3>1. Brought(l) \subseteq Threads
        BY DEF Brought, Modal
      <3> QED
        BY <3>1, FS_Subset, FS_CardinalityType
    <2>3. process.mThreads \in Nat
      BY <1>1, ProcessesAssumption DEF ProcessType
    <2> QED
      BY <1>1, <2>1, <2>2, <2>3 DEF Ended
  <1> QED
    BY <1>5, <1>6, <1>7, <1>8, <1>9 DEF JoinInv

LEMMA StepJoin == CountInv /\ JoinInv /\ JoinWiring(process) /\ [Next]_vars => JoinInv'
  <1> SUFFICES ASSUME CountInv, JoinInv, JoinWiring(process), [Next]_vars
               PROVE  JoinInv'
    OBVIOUS
  <1>1. ASSUME NEW s \in Starters, ThreadStart(s)
        PROVE  JoinInv'
    BY <1>1, StartRunNowKeepsJoin, CountThreadKeepsJoin, CreateThreadKeepsJoin DEF ThreadStart
  <1>2. ASSUME NEW t \in Threads, ThreadStep(t)
        PROVE  JoinInv'
    BY <1>1, <1>2, ThreadKeepsJoin, RegisterKeepsJoin, NextClientKeepsJoin, StartRunNextKeepsJoin
    DEF ThreadStep, ListenerStep, Starters
  <1>3. ASSUME NEW t \in Threads, Accept(t) \/ thread_stop(t)
        PROVE  JoinInv'
    BY <1>3, AcceptKeepsJoin, ThreadKeepsJoin
  <1>4. CASE MainStep \/ ReporterStep \/ UNCHANGED vars
    BY <1>1, <1>4, OthersKeepJoin DEF MainStep, Starters
  <1>5. CASE Interrupt \/ TimerFires
    BY <1>5, SignalKeepsJoin
  <1> QED
    BY <1>2, <1>3, <1>4, <1>5 DEF Next

\* Nobody is waited for, so all have ended and nobody starts anybody.
LEMMA NobodyLeft ==
    ASSUME CountInv, JoinInv, JoinWiring(process), interrupts = 0, Awaited = {},
           starting[Main] = <<>>
    PROVE  /\ \A t \in Threads \ {Reporter} : life[t] \notin CountedLives
           /\ \A t \in Threads : life[t] = "leaving" => process.runNext[t] = None
           /\ \A s \in Starters : starting[s] = <<>>
  <1>1. /\ TypeOK /\ ListenerInv /\ ReporterInv /\ process \in Processes
        /\ TimerInv /\ StackInv /\ BegunInv
    BY DEF CountInv, CountAccurate, TypeOK, JoinInv
  <1>2. Released = {}
    BY <1>1, NoneReleased
  <1>3. \A t \in Threads \ {Reporter} : life[t] \notin CountedLives
    BY <1>2 DEF Awaited
  <1>4. \A l \in Listeners : ~Hearing(l)
    <2>1. \A l \in Listeners : l \in Threads \ {Reporter}
      BY <1>1, OneOfEach
    <2> QED
      BY <1>3, <2>1 DEF Hearing, CountedLives, Lives
  <1>5. ASSUME NEW t \in Threads, life[t] # "unborn", process.runNext[t] # None
        PROVE  FALSE
    <2>1. t \in Modal("server") /\ process.mThreads = 0
      BY <1>5 DEF JoinWiring, Modal
    <2>2. Begun(t)
      BY <1>5 DEF Begun
    <2> QED
      BY <1>1, <1>4, <2>1, <2>2 DEF BegunInv
  <1>6. ASSUME NEW t \in Threads, starting[t] # <<>>
        PROVE  FALSE
    <2>1. life[t] = "serving" \/ (life[t] = "gone" /\ process.runNext[t] # None)
      BY <1>1, <1>6 DEF StackInv
    <2>2. life[t] = "serving" => t # Reporter
      BY <1>1 DEF ReporterInv
    <2> QED
      BY <1>3, <1>5, <2>1, <2>2 DEF CountedLives, Lives
  <1> QED
    BY <1>3, <1>5, <1>6 DEF Starters

\* "Wait for all thread object's execution to complete" (Thread.c:288), for any
\* threads, wired in any way but the two of the findings, any that fail and
\* any number of streams: unless the user interrupts, the process ends only
\* when all threads have ended, those to run next too, and none is being started.
THEOREM AllAreJoined ==
    ASSUME \A p \in Processes : JoinWiring(p)
    PROVE  Spec => []AllJoined
  <1> DEFINE I == CountInv /\ JoinInv /\ AllJoined
  <1>1. Init => I
    BY InitCount, InitJoin DEF Init, AllJoined
  <1>2. I /\ [Next]_vars => I'
    <2> SUFFICES ASSUME I, [Next]_vars
                 PROVE  JoinInv' /\ AllJoined'
      BY StepCount
    <2>1. process \in Processes
      BY DEF CountInv, CountAccurate, TypeOK
    <2>2. JoinInv'
      BY <2>1, StepJoin
    <2>3. CASE main = "exited"
      <3>1. UNCHANGED vars
        BY <2>3, ExitedStays
      <3> QED
        BY <2>2, <3>1 DEF vars, signals, AllJoined
    <2>4. CASE main # "exited"
      <3> SUFFICES ASSUME main' = "exited", interrupts' = 0
                   PROVE  AllJoined'
        BY <2>2 DEF AllJoined
      <3>1. Awaited = {} /\ starting[Main] = <<>> /\ UNCHANGED <<process, life, starting, interrupts>>
        BY <2>4, MainExits DEF thread_joinall, JoinInv, StackInv, signals
      <3>2. /\ \A t \in Threads \ {Reporter} : life[t] \notin CountedLives
            /\ \A t \in Threads : life[t] = "leaving" => process.runNext[t] = None
            /\ \A s \in Starters : starting[s] = <<>>
        BY <2>1, <3>1, NobodyLeft
      <3> QED
        BY <3>1, <3>2 DEF AllJoined
    <2> QED
      BY <2>2, <2>3, <2>4
  <1>3. I => AllJoined
    OBVIOUS
  <1> QED
    BY <1>1, <1>2, <1>3, PTL DEF Spec

\* "-P" of a listener, and the one stream a client's own listener is to take:
\* unless the user interrupts, that many have been served when the process ends.
THEOREM ListenerServes ==
    ASSUME \A p \in Processes : JoinWiring(p) /\ ListenerWiring(p)
    PROVE  Spec => []ListenerServed
  <1> DEFINE I == CountInv /\ JoinInv /\ ListenerServed
  <1>1. Init => I
    BY InitCount, InitJoin DEF Init, ListenerServed
  <1>2. I /\ [Next]_vars => I'
    <2> SUFFICES ASSUME I, [Next]_vars
                 PROVE  JoinInv' /\ ListenerServed'
      BY StepCount
    <2>1. process \in Processes /\ TypeOK
      BY DEF CountInv, CountAccurate, TypeOK
    <2>2. JoinInv'
      BY <2>1, StepJoin
    <2>3. CASE main = "exited"
      <3>1. UNCHANGED vars
        BY <2>3, ExitedStays
      <3> QED
        BY <2>2, <3>1 DEF vars, signals, ListenerServed, Modal
    <2>4. CASE main # "exited"
      <3>1. SUFFICES ASSUME main' = "exited", interrupts' = 0, process'.mThreads > 0
                     PROVE  Cardinality({s \in Modal("server")' : life'[s] # "unborn"}) >= process'.mThreads
        BY <2>2 DEF ListenerServed
      <3>2. Awaited = {} /\ starting[Main] = <<>> /\ UNCHANGED <<process, life, starting, interrupts>>
        BY <2>4, <3>1, MainExits DEF thread_joinall, JoinInv, StackInv, signals
      <3>3. /\ \A t \in Threads \ {Reporter} : life[t] \notin CountedLives
            /\ \A s \in Starters : starting[s] = <<>>
        BY <2>1, <3>1, <3>2, NobodyLeft
      <3>4. PICK l \in Listeners : life[l] # "unborn"
        <4>1. starting[Main] = <<>> /\ \A t : ~OnStack(Main, t)
          BY <3>2 DEF OnStack
        <4>2. Wanted
          BY <2>1, <3>1, <3>2 DEF Wanted
        <4> QED
          BY <4>1, <4>2 DEF JoinInv, ChainInv
      <3>5. life[l] \in Ended
        <4>1. l \in Threads \ {Reporter} /\ l \notin Faulty
          BY <2>1, OneOfEach
        <4>2. life[l] \notin {"failed", "stopped"}
          BY <4>1 DEF JoinInv, StackInv
        <4>3. life[l] \in Lives
          BY <2>1, <4>1 DEF TypeOK
        <4> QED
          BY <3>3, <3>4, <4>1, <4>2, <4>3 DEF CountedLives, Lives, Ended
      <3>6. Brought(l) = {s \in Modal("server")' : life'[s] # "unborn"}
        <4>1. \A t : ~OnStack(l, t)
          <5>1. starting[l] = <<>>
            BY <2>1, <3>3, OneOfEach DEF Starters
          <5> QED
            BY <5>1 DEF OnStack
        <4> QED
          BY <3>2, <4>1 DEF Brought, Modal
      <3>7. Cardinality(Brought(l)) >= process.mThreads - mClients + (IF life[l] = "serving" THEN 1 ELSE 0)
            /\ mClients <= 0
        BY <3>1, <3>2, <3>5 DEF JoinInv, ServedInv
      <3>8. process.mThreads \in Nat /\ mClients \in Int /\ Cardinality(Brought(l)) \in Nat
        <4>1. Brought(l) \subseteq Threads
          BY DEF Brought, Modal
        <4> QED
          BY <2>1, <4>1, FS_Subset, FS_CardinalityType, ProcessesAssumption DEF TypeOK, ProcessType
      <3>9. Cardinality(Brought(l)) >= process.mThreads
        BY <3>7, <3>8
      <3> QED
        BY <3>2, <3>6, <3>9
    <2> QED
      BY <2>2, <2>3, <2>4
  <1>3. I => ListenerServed
    OBVIOUS
  <1> QED
    BY <1>1, <1>2, <1>3, PTL DEF Spec
=============================================================================

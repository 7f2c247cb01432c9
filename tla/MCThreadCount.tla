--------------------------- MODULE MCThreadCount ---------------------------
(* ThreadCount for TLC: one listener, two clients and two servers, wired    *)
(* the way main, client_init and Listener::Run do it for each command line. *)
EXTENDS ThreadCount, TLC

CONSTANTS reporter, listener, c1, c2, s1, s2

MCThreads == {reporter, listener, c1, c2, s1, s2}

MCMode ==
    (reporter :> "reporter") @@ (listener :> "listener") @@
    (c1 :> "client") @@ (c2 :> "client") @@ (s1 :> "server") @@ (s2 :> "server")

NoThread == [t \in MCThreads |-> None]

Process(now, next, limit, timed) ==
    [mode |-> MCMode, runNow |-> now @@ NoThread, runNext |-> next @@ NoThread,
     mThreads |-> limit, timed |-> timed]

\* "iperf -c host -P 2", TCP
ParallelClient == Process((reporter :> c1) @@ (c1 :> c2), NoThread, 0, {c1, c2})

\* "iperf -c host -u -d": the listener is started first
DualClient == Process((reporter :> c1) @@ (c1 :> listener), NoThread, 1, {})

\* "iperf -s", tested with "-u -r" and with "-u"
OpenServer == Process(reporter :> listener, s1 :> c1, 0, {})

\* "iperf -s -P 1", tested with "-u -d"
LimitedServer == Process((reporter :> listener) @@ (s1 :> c1), NoThread, 1, {})

MCProcesses == {ParallelClient, DualClient, OpenServer, LimitedServer}

\* "iperf -s -P 1", tested with "-u -r", and "iperf -c host -r", TCP
MCTradeoffs ==
    {Process(reporter :> listener, (s1 :> c1) @@ (s2 :> c2), 1, {}),
     Process((reporter :> c1) @@ (c1 :> listener), NoThread, 1, {c1})}

\* The theorems on AllJoined and ListenerServed are about the former.
ASSUME WiringAssumption ==
    /\ \A p \in MCProcesses : JoinWiring(p) /\ ListenerWiring(p)
    /\ \A p \in MCTradeoffs : ~JoinWiring(p)
=============================================================================

-------------------------- MODULE MCListenerTable --------------------------
(* Two streams of one host and one of another, and the kinds of listeners.  *)
EXTENDS ListenerTable

CONSTANTS a1, a2, b1

MCHost == (a1 :> "A") @@ (a2 :> "A") @@ (b1 :> "B")
MCAsks == (a1 :> "dual") @@ (a2 :> "normal") @@ (b1 :> "tradeoff")

Plain == [udp |-> FALSE, singleUDP |-> FALSE, singleClient |-> FALSE, compat |-> FALSE,
          mHost |-> None, mThreads |-> 0]
Udp == [Plain EXCEPT !.udp = TRUE]
Single == [Udp EXCEPT !.singleUDP = TRUE]
MCModes ==
    UNION {{[m EXCEPT !.singleClient = TRUE, !.mThreads = 1], [m EXCEPT !.mHost = "B"],
            [m EXCEPT !.mThreads = 2]} : m \in {Plain, Udp, Single}}
    \cup {Single, [Udp EXCEPT !.compat = TRUE], [Plain EXCEPT !.singleClient = TRUE]}
=============================================================================

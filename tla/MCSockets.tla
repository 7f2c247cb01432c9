------------------------------ MODULE MCSockets ------------------------------
(* Two hosts with two addresses each, and a group.                          *)
EXTENDS Sockets, TLC

CONSTANTS a1, a2, b1, b2, g1, reserved

MCOctet == (a1 :> 10) @@ (a2 :> 192) @@ (b1 :> 10) @@ (b2 :> 192) @@ (g1 :> 230)
MCOctetAll == MCOctet @@ (reserved :> 240)

Plain == [udp |-> FALSE, threads |-> 1, way |-> "normal", host |-> <<b1, b2>>, bind |-> None,
          serverBind |-> None, port |-> "P", listenPort |-> None, window |-> 0, serverWindow |-> 0,
          mss |-> 0, serverMss |-> 0]
TwoWay == {[Plain EXCEPT !.udp = udp, !.way = way, !.window = window, !.serverWindow = 3, !.mss = window] :
               udp \in BOOLEAN, way \in {"dual", "tradeoff"}, window \in {0, 2}}

\* Every address asked for is free: the ports of -B and of the test back differ.
MCTests == TwoWay
    \cup {[t EXCEPT !.listenPort = "Q", !.bind = bind, !.serverBind = there, !.host = <<IF there = None THEN b1 ELSE there>>] :
              t \in TwoWay, bind \in {None, a1, a2}, there \in {None, b1, b2}}
    \cup {[Plain EXCEPT !.threads = 2, !.window = 2], [Plain EXCEPT !.bind = a2, !.udp = TRUE]}
    \cup {[Plain EXCEPT !.udp = TRUE, !.threads = 2, !.host = <<g1>>, !.serverBind = g1]}

\* Two streams bound to one address; a test back to the port of a bound client;
\* a server that is asked at the address its kernel does not take for answers.
MCNames ==
    {[Plain EXCEPT !.threads = 2, !.bind = a2]} \cup {[t EXCEPT !.bind = a2] : t \in TwoWay}
    \cup {[Plain EXCEPT !.way = "dual", !.host = <<b2>>]}

ASSUME NamesAssumption == (\A t \in MCTests : WellNamed(t)) /\ (\A t \in MCNames : ~WellNamed(t))
=============================================================================

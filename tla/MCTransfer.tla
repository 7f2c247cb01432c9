----------------------------- MODULE MCTransfer -----------------------------
(* Rates the time of a datagram divides and one it does not, and one below  *)
(* a datagram in a second; streams, with and without the header on either   *)
(* side; by time, by amount and from a file.  Two bytes in a buffer.        *)
EXTENDS Transfer

Udp == [udp |-> TRUE, rate |-> 40, time |-> TRUE, amount |-> 1200001, file |-> -1,
        interval |-> FALSE, compat |-> FALSE, listens |-> TRUE]
UdpFast == [Udp EXCEPT !.rate = 160, !.amount = 400000]
UdpUneven == [Udp EXCEPT !.rate = 37, !.amount = 1300000]
UdpSlow == [Udp EXCEPT !.rate = 5, !.amount = 1500000]
Amount(other, bytes) == [other EXCEPT !.time = FALSE, !.amount = bytes]
Tcp == [Udp EXCEPT !.udp = FALSE, !.amount = 300000]
TcpInterval == [Tcp EXCEPT !.interval = TRUE]
TcpCompat == [Amount(TcpInterval, 6) EXCEPT !.compat = TRUE]
MCTests == {Udp, UdpFast, UdpUneven, UdpSlow, [UdpSlow EXCEPT !.rate = 0],
            Amount(Udp, 6), [Udp EXCEPT !.file = 2],
            Tcp, TcpInterval, Amount(Tcp, 6), Amount(TcpInterval, 6), [TcpInterval EXCEPT !.file = 3],
            TcpCompat, [TcpCompat EXCEPT !.listens = FALSE], [Tcp EXCEPT !.listens = FALSE]}

MCOdd == {Amount(Udp, 3), Amount(Tcp, 3), Udp, UdpUneven}
=============================================================================

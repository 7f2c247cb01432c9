---------------------------- MODULE MCReportList ----------------------------
(* ReportList for TLC.  Two agents, as in a dual test: a UDP client with    *)
(* all its reports and a thread with fewer of them.                         *)
EXTENDS ReportList

CONSTANTS client, other

MCAgents == {client, other}

\* A client with all its reports beside a server thread, which prints no
\* settings and gets no relayed report.
MCWants == (client :> Parts) @@ (other :> {"connection", "transfer"})

\* "iperf -c host -u -P 2 -x d": everything but the data; only the first of
\* two parallel clients reports the settings.
MCNoData == (client :> Parts \ {"transfer"}) @@ (other :> {"connection", "relay"})
=============================================================================

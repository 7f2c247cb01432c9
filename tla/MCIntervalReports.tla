------------------------- MODULE MCIntervalReports -------------------------
(* Streams with weights that tell who is in a sum; a second of four units. *)
EXTENDS IntervalReports

CONSTANTS s1, s2, s3

MCWeight == (s1 :> 1) @@ (s2 :> 10) @@ (s3 :> 100)
Time(sec, usec) == [sec |-> sec, usec |-> usec]
MCIntervals == {Time(0, 0), Time(0, 2)}
MCStartTimes == {Time(5, 2)}
=============================================================================

--------------------------- MODULE IntervalReports ---------------------------
(***************************************************************************)
(* What the reporter makes of the packets of parallel streams: a line for  *)
(* each interval of each stream, a line for its whole transfer, and the    *)
(* sums over the streams of a MultiHeader.                                 *)
(*                                                                         *)
(* The reporter is one thread: handling a packet is a step, whichever      *)
(* stream it is of.  Streams are read in turn, so the packets of each come *)
(* in order and those of different streams do not.  A line of a stream is  *)
(* added to the slot of its start time, and the slot that has as many      *)
(* lines as there are threads is printed and given free.                   *)
(*                                                                         *)
(* Streams of a client are counted before they start; those of a server    *)
(* count themselves, as they come, by an unlocked increment.               *)
(***************************************************************************)
EXTENDS Integers, Sequences, FiniteSets, SequencesExt, FiniteSetsExt

CONSTANTS
    Streams,        \* parallel streams of a client, or of a server from one host
    Weight,         \* bytes in a packet of each
    Modes,          \* subset of {"client", "server"}
    Intervals,      \* values of -i that are tried, [sec, usec]
    StartTimes,     \* [sec, usec]
    rMillion,       \* units of usec in a second
    NUM_MULTI_SLOTS,
    MaxTime,        \* length of the test, in units of usec
    MaxPackets      \* packets of a stream

ASSUME BoundsAssumption ==
    IsFiniteSet(Streams) /\ rMillion > 0 /\ NUM_MULTI_SLOTS > 0

VARIABLES
    mode, intervalTime, startTime,
    threads,        \* of the MultiHeader
    read,           \* what a server's stream has read of it, -1 before and after
    started,        \* streams with a report
    packets,        \* the times of the packets handled so far
    finished,       \* streams whose last packet was handled
    report,         \* the ReporterData of each: [nextTime, TotalLen, lastTotal]
    lines,          \* the lines printed for each, the last is its info
    data,           \* slots of sums
    sums,           \* sums printed
    apart           \* history: the ways the streams have drifted apart

inputs == <<mode, intervalTime, startTime>>
joining == <<threads, read, started>>
vars == <<inputs, joining, packets, finished, report, lines, data, sums, apart>>

TimeDifference(left, right) == (left.sec - right.sec) * rMillion + left.usec - right.usec

\* A timeval that is exactly a million microseconds is left as it is.
TimeAdd(left, right) ==
    LET usec  == left.usec + right.usec
        carry == IF usec > rMillion THEN 1 ELSE 0
    IN  [sec |-> left.sec + right.sec + carry, usec |-> usec - carry * rMillion]

\* gettimeofday some time after the start: carried at a million.
At(time) ==
    [sec |-> startTime.sec + (startTime.usec + time) \div rMillion, usec |-> (startTime.usec + time) % rMillion]

Periodic == intervalTime.sec # 0 \/ intervalTime.usec # 0

Line(start, end, len) == [startTime |-> start, endTime |-> end, TotalLen |-> len]
Slot(line, count) == [line |-> line, free |-> count]
FreeSlot == Slot(Line(-1, 0, 0), 0)

Init ==
    /\ mode \in Modes /\ intervalTime \in Intervals /\ startTime \in StartTimes
    /\ threads = IF mode = "client" THEN Cardinality(Streams) ELSE 0
    /\ started = IF mode = "client" THEN Streams ELSE {}
    /\ read = [s \in Streams |-> -1]
    /\ packets = [s \in Streams |-> <<>>] /\ finished = {}
    /\ report = [s \in Streams |-> [nextTime |-> TimeAdd(startTime, intervalTime),
                                    TotalLen |-> 0, lastTotal |-> 0]]
    /\ lines = [s \in Streams |-> <<>>]
    /\ data = [i \in 1 .. NUM_MULTI_SLOTS |-> FreeSlot]
    /\ sums = <<>> /\ apart = {}

-----------------------------------------------------------------------------
(* InitReport of a server: threads++, without a lock.                      *)

ReadThreads(s) ==
    /\ mode = "server" /\ s \notin started /\ read[s] = -1
    /\ read' = [read EXCEPT ![s] = threads]
    /\ UNCHANGED <<inputs, threads, started, packets, finished, report, lines, data, sums, apart>>

WriteThreads(s) ==
    /\ read[s] # -1
    /\ threads' = read[s] + 1
    /\ read' = [read EXCEPT ![s] = -1]
    /\ started' = started \cup {s}
    /\ apart' = IF \A d \in Streams : lines[d] = <<>> THEN apart ELSE apart \cup {"late"}
    /\ UNCHANGED <<inputs, packets, finished, report, lines, data, sums>>

-----------------------------------------------------------------------------
(* The reporter.  State of a packet's handling:                            *)
(*   r        report of the stream                                         *)
(*   out      lines printed for it by this packet                          *)
(*   slots    data                                                         *)
(*   summed   sums printed by this packet                                  *)

Start(s) == [r |-> report[s], out |-> <<>>, slots |-> data, summed |-> <<>>]

SlotsOf(slots, time) == {i \in DOMAIN slots : slots[i].line.startTime = time}

\* The first that is free, or else the last.
FirstAvailable(slots) ==
    LET free == {i \in DOMAIN slots : slots[i].line.startTime < 0}
    IN  IF free = {} THEN NUM_MULTI_SLOTS ELSE Min(free)

AddTo(slot, line) ==
    Slot(Line(slot.line.startTime, Max({slot.line.endTime, line.endTime}),
              slot.line.TotalLen + line.TotalLen), slot.free + 1)

\* Mutant: the slot of a printed sum is not given free.
MultipleReportsKept(h, line) ==
    LET same == SlotsOf(h.slots, line.startTime)
        slot == AddTo(h.slots[Min(same)], line)
    IN  CASE threads <= 1 -> h
          [] threads > 1 /\ same = {} ->
               [h EXCEPT !.slots[FirstAvailable(h.slots)] = Slot(line, 1)]
          [] threads > 1 /\ same # {} ->
               [h EXCEPT !.slots[Min(same)] = slot,
                         !.summed = IF slot.free = threads THEN Append(@, slot.line) ELSE @]

reporter_handle_multiple_reports(h, line) ==
    LET same == SlotsOf(h.slots, line.startTime)
        slot == AddTo(h.slots[Min(same)], line)
    IN  CASE threads <= 1 -> h
          [] threads > 1 /\ same = {} ->
               [h EXCEPT !.slots[FirstAvailable(h.slots)] = Slot(line, 1)]
          [] threads > 1 /\ same # {} /\ slot.free # threads -> [h EXCEPT !.slots[Min(same)] = slot]
          [] threads > 1 /\ same # {} /\ slot.free = threads ->
               [h EXCEPT !.slots[Min(same)] = FreeSlot, !.summed = Append(@, slot.line)]

PrintLine(h, line) ==
    reporter_handle_multiple_reports([h EXCEPT !.out = Append(@, line)], line)

\* The end of the last interval printed.
LastEnd(s, h) == LET all == lines[s] \o h.out IN IF all = <<>> THEN 0 ELSE Last(all).endTime

PrintInterval(s, h) ==
    LET line == Line(LastEnd(s, h), TimeDifference(h.r.nextTime, startTime),
                     h.r.TotalLen - h.r.lastTotal)
    IN  PrintLine([h EXCEPT !.r.lastTotal = h.r.TotalLen,
                        !.r.nextTime = TimeAdd(@, intervalTime)], line)

\* The intervals that were over before the packet came (one of them after
\* another; no more than there is time in the test).
reporter_condprintstats(s, h, time) ==
    FoldLeft(LAMBDA before, k :
                 IF Periodic /\ TimeDifference(before.r.nextTime, At(time)) < 0
                 THEN PrintInterval(s, before) ELSE before,
             h, [k \in 1 .. MaxTime |-> k])

\* Mutant: a packet is counted before the intervals that ended before it.
CountFirst(s, time) ==
    reporter_condprintstats(s, [Start(s) EXCEPT !.r.TotalLen = @ + Weight[s]], time)

reporter_handle_packet(s, time) ==
    LET before == reporter_condprintstats(s, Start(s), time)
    IN  reporter_condprintstats(s, [before EXCEPT !.r.TotalLen = @ + Weight[s]], time)

\* The last packet, from CloseReport, carries nothing: the whole transfer is printed.
FinalLine(s, time) == PrintLine(Start(s), Line(0, TimeDifference(At(time), startTime), report[s].TotalLen))

Handled(s, h) ==
    /\ report' = [report EXCEPT ![s] = h.r]
    /\ lines' = [lines EXCEPT ![s] = @ \o h.out]
    /\ data' = h.slots
    /\ sums' = sums \o h.summed

PacketTime(s) == IF packets[s] = <<>> THEN 0 ELSE Last(packets[s])

\* The sums that some streams have reported a line of and others not yet.
Open(all, ended) ==
    LET intervals(s) == Len(all[s]) - (IF s \in ended THEN 1 ELSE 0)
        most == Max({intervals(s) : s \in started})
        least == Min({intervals(s) : s \in started})
    IN  most - least + (IF ended # {} /\ ended # started THEN 1 ELSE 0)

\* What has set the streams apart: more sums are open than there are slots, or
\* the first stream has ended before another had a line.
Drift(ended) ==
    (IF Open(lines', ended) > NUM_MULTI_SLOTS THEN {"lag"} ELSE {})
    \cup (IF ended # {} /\ \E d \in started : lines[d] = <<>> THEN {"short"} ELSE {})

Packet(s) ==
    /\ s \in started \ finished /\ Len(packets[s]) < MaxPackets
    /\ \E time \in PacketTime(s) .. MaxTime :
          /\ packets' = [packets EXCEPT ![s] = Append(@, time)]
          /\ Handled(s, reporter_handle_packet(s, time))
    /\ apart' = apart \cup Drift(finished)
    /\ UNCHANGED <<inputs, joining, finished>>

LastPacket(s) ==
    /\ s \in started \ finished
    /\ \E time \in PacketTime(s) .. MaxTime :
          /\ packets' = [packets EXCEPT ![s] = Append(@, time)]
          /\ Handled(s, FinalLine(s, time))
    /\ finished' = finished \cup {s}
    /\ apart' = apart \cup Drift(finished \cup {s})
    /\ UNCHANGED <<inputs, joining>>

\* No packet comes: the reporter waits.
Idle == UNCHANGED vars

Next ==
    \/ \E s \in Streams : ReadThreads(s) \/ WriteThreads(s) \/ Packet(s) \/ LastPacket(s)
    \/ Idle

Spec == Init /\ [][Next]_vars

-----------------------------------------------------------------------------
(* Properties.                                                             *)

\* Bytes of the packets that came in the k-th interval; the last packet has none.
BytesIn(s, k) ==
    LET length == TimeDifference(intervalTime, [sec |-> 0, usec |-> 0])
        counted == DOMAIN packets[s] \ (IF s \in finished THEN {Len(packets[s])} ELSE {})
    IN  Weight[s] * Cardinality({i \in counted : /\ packets[s][i] <= k * length
                                                 /\ packets[s][i] > (k - 1) * length \/ k = 1})

IntervalLine(s, k) ==
    LET length == TimeDifference(intervalTime, [sec |-> 0, usec |-> 0])
    IN  Line((k - 1) * length, k * length, BytesIn(s, k))

TotalLine(s) == Line(0, PacketTime(s), Weight[s] * (Len(packets[s]) - 1))
IntervalLines(s) == Len(lines[s]) - (IF s \in finished THEN 1 ELSE 0)

\* Each line of a stream holds what came in its interval, though the reporter
\* only looks at the clock of the packets, silent intervals included; the last
\* one holds everything.
LinesMatchPackets ==
    \A s \in Streams :
        lines[s] = [k \in 1 .. IntervalLines(s) |-> IntervalLine(s, k)]
                   \o (IF s \in finished THEN <<TotalLine(s)>> ELSE <<>>)

SumOf(some, F(_)) == FoldSet(LAMBDA s, sum : sum + F(s), 0, some)

WholeSum(k) == Line(IntervalLine(CHOOSE s \in started : TRUE, k).startTime,
                    IntervalLine(CHOOSE s \in started : TRUE, k).endTime,
                    SumOf(started, LAMBDA s : BytesIn(s, k)))

WholeTotal == Line(0, Max({PacketTime(s) : s \in started}),
                   SumOf(started, LAMBDA s : TotalLine(s).TotalLen))

\* One stream's final line came before another's first interval: both start at 0.
Short == "short" \in apart /\ \E s \in started : IntervalLines(s) > 0
Raced == threads # Cardinality(started)

Whole ==
    Cardinality(started) > 1 =>
        sums = [k \in 1 .. Min({IntervalLines(s) : s \in started}) |-> WholeSum(k)]
               \o (IF started \subseteq finished THEN <<WholeTotal>> ELSE <<>>)

\* Every interval all streams have reported is summed, once, in order, over all of
\* them, and so are their totals, whichever packets the reporter reads first: as
\* long as no stream was more lines ahead than there are slots, none came after
\* the first line, the increments of threads did not race, and no stream's whole
\* transfer was over before the first interval of another.
SumsAreWhole == apart \cap {"lag", "late"} = {} /\ ~Short /\ ~Raced => Whole

\* Without one of the premises (the slots are for "multi slot reports" of -P
\* streams, whichever drift; InitReport counts every stream of a host).
WholeThoughLagging == "late" \notin apart /\ ~Short /\ ~Raced => Whole
WholeThoughLate == "lag" \notin apart /\ ~Short /\ ~Raced => Whole
WholeThoughShort == apart \cap {"lag", "late"} = {} /\ ~Raced => Whole
WholeThoughRaced == apart \cap {"lag", "late"} = {} /\ ~Short => Whole
=============================================================================

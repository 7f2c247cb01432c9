------------------------------- MODULE Output -------------------------------
(***************************************************************************)
(* What is printed of the streams of a test (reporter_print, Report-       *)
(* Default.c, ReportCSV.c, byte_snprintf): the lines of each stream, their *)
(* sums, and what a server relays; in the style of -y C every line begins  *)
(* with the addresses of its stream, text that is allocated with the       *)
(* connection report and freed with the last line.  The sum of a line is   *)
(* printed with the last stream's, from the slot of its start time.        *)
(*                                                                         *)
(* 32 bits do not hold the amounts of a test: an amount is milli           *)
(* thousandths of base ^ exp, base 1024 for bytes and 1000 for bits.  The  *)
(* duration of a line is any, so one amount gives its size and its rate.   *)
(***************************************************************************)
EXTENDS Integers, Sequences, FiniteSets, SequencesExt, FiniteSetsExt

CONSTANTS
    Streams,        \* parallel streams; more than one are summed
    Formats,        \* of -f
    Amounts,        \* [milli, exp]
    Segments,       \* what getsock_tcp_mss may return: bytes of a segment, 0 if unknown
    NUM_MULTI_SLOTS,
    MaxLines        \* bound: interval lines of a stream

ASSUME OutputAssumption ==
    /\ IsFiniteSet(Streams) /\ Streams # {} /\ "sum" \notin Streams
    /\ Formats \subseteq {"A", "B", "K", "M", "G", "a", "b", "k", "m", "g"}
    /\ Amounts \subseteq [milli : 0 .. 1023999, exp : 0 .. 4]
    /\ Segments \subseteq Nat /\ MaxLines \in Nat /\ NUM_MULTI_SLOTS \in Nat \ {0}

VARIABLES
    settings,       \* [csv, connection, format, mss]: -y C, no -x c, -f, -m of TCP
    lines,          \* interval lines of each stream
    connected,      \* reports that have no connection part, or no longer
    final,          \* streams whose final line is printed
    relayed,        \* streams of which the server's report is printed
    reserved_delay, \* text of addresses of each stream and the sum
    data,           \* slots of sums: [startTime, free], free the lines added
    out,            \* what the last step printed: lines [of, relay, net, name, size, rate]
    apart           \* history: the ways the streams have drifted apart

vars == <<settings, connected, lines, final, relayed, reserved_delay, data, out, apart>>

Holders == Streams \cup {"sum"}
NULL == "null"
Held == "held"
Freed == "freed"

-----------------------------------------------------------------------------
(* Numbers.                                                                *)

Unit == 0
Giga == 3
IsByte(format) == format \in {"A", "B", "K", "M", "G"}
Base(format) == IF IsByte(format) THEN 1024 ELSE 1000
Labels == Unit .. Giga      \* kLabel_Byte, kLabel_bit: Byte, KByte, MByte, GByte

ToUpper(format) ==
    CASE format \in {"a", "A"} -> "A" [] format \in {"b", "B"} -> "B" [] format \in {"k", "K"} -> "K"
      [] format \in {"m", "M"} -> "M" [] format \in {"g", "G"} -> "G"

Normal(num, base) ==
    IF num.milli >= 1000 * base THEN [milli |-> num.milli \div base, exp |-> num.exp + 1] ELSE num

InFormat(num, format) ==
    Normal(IF IsByte(format) THEN num ELSE [num EXCEPT !.milli = 8 * @], Base(format))

\* Adaptive: the number is divided while it is too large and conv <= kConv_Giga.
Conversion(num, format) ==
    CASE ToUpper(format) = "B" -> Unit
      [] ToUpper(format) = "K" -> 1
      [] ToUpper(format) = "M" -> 2
      [] ToUpper(format) = "G" -> Giga
      [] ToUpper(format) = "A" -> IF num.exp > Giga THEN Giga + 1 ELSE num.exp

\* Thousandths of the unit.
InUnit(num, conv, base) ==
    IF num.exp >= conv THEN num.milli * base ^ (num.exp - conv) ELSE num.milli \div base ^ (conv - num.exp)

\* As many as leave the number in four places.
Decimals(milli) == IF milli < 9995 THEN 2 ELSE IF milli < 99950 THEN 1 ELSE 0

\* "%4.*f": what is printed of a number, in units of its last digit.  Three digits
\* have a space before their field of four.
byte_snprintf(inNum, inFormat) ==
    LET num == InFormat(inNum, inFormat)
        conv == Conversion(num, inFormat)
        milli == InUnit(num, conv, Base(inFormat))
        decimals == Decimals(milli)
        last == 10 ^ (3 - decimals)
        width == IF decimals = 0 /\ milli < 999500 THEN 5 ELSE 4
    IN [digits |-> (milli + last \div 2) \div last, decimals |-> decimals, label |-> conv,
        width |-> width, of |-> num, format |-> inFormat]

-----------------------------------------------------------------------------
(* Lines.                                                                  *)

FreeSlot == [startTime |-> -1, free |-> 0]

Init ==
    /\ settings \in [csv : BOOLEAN, connection : BOOLEAN, format : Formats, mss : BOOLEAN]
    /\ connected = IF settings.connection THEN {} ELSE Holders
    /\ lines = [s \in Streams |-> 0]
    /\ final = {} /\ relayed = {}
    /\ reserved_delay = [h \in Holders |-> NULL]
    /\ data = [i \in 1 .. NUM_MULTI_SLOTS |-> FreeSlot]
    /\ out = <<>> /\ apart = {}

\* The network an MSS is of: up to 40 bytes of options, and 40 of headers, below its MTU.
Networks == {576, 1500, 4352, 9180, 65280}
checkMSS_MTU(inMSS, inMTU) == inMTU - 40 >= inMSS /\ inMSS >= inMTU - 80

PrintMSS(inMSS) ==
    IF inMSS = 0 THEN [mss |-> 0, mtu |-> 0, known |-> FALSE]
    ELSE LET fits == {mtu \in Networks : checkMSS_MTU(inMSS, mtu)}
         IN  [mss |-> inMSS, mtu |-> IF fits # {} THEN CHOOSE mtu \in fits : TRUE ELSE inMSS + 40,
              known |-> fits # {}]

NoMSS == PrintMSS(0)

Line(h, amount) ==
    [of |-> h, relay |-> FALSE, net |-> NoMSS, name |-> reserved_delay[h],
     size |-> byte_snprintf(amount, ToUpper(settings.format)), rate |-> byte_snprintf(amount, settings.format)]

\* Mutant: the text is freed with any line.
CSV_statsFrees(text, h, free) ==
    IF settings.csv /\ text[h] # NULL THEN [text EXCEPT ![h] = Freed] ELSE text

CSV_stats(text, h, free) ==
    IF settings.csv /\ free /\ text[h] # NULL THEN [text EXCEPT ![h] = Freed] ELSE text

CSV_peer == IF settings.csv THEN Held ELSE NULL

\* The connection part of a stream, and of the sum with the first stream's.
PrintConnection(s) ==
    LET printed == {s} \cup (IF Cardinality(Streams) > 1 THEN {"sum"} ELSE {}) IN
    /\ s \notin connected
    /\ connected' = connected \cup printed
    /\ reserved_delay' = [h \in Holders |-> IF h \in printed \ connected THEN CSV_peer ELSE reserved_delay[h]]
    /\ out' = <<>>
    /\ UNCHANGED <<settings, lines, final, relayed, data, apart>>

\* The slot of the line's start time, or else the first that is free, or else the last.
SlotOf(start) ==
    LET of(time) == {i \in DOMAIN data : data[i].startTime = time}
    IN  CASE of(start) # {} -> Min(of(start))
          [] of(start) = {} /\ of(-1) # {} -> Min(of(-1))
          [] of(start) = {} /\ of(-1) = {} -> NUM_MULTI_SLOTS

\* The line is the last of its sum: as many as there are threads have been added.
Completes(start) ==
    LET slot == data[SlotOf(start)]
    IN  Cardinality(Streams) > 1 /\ slot.startTime = start /\ slot.free + 1 = Cardinality(Streams)

reporter_handle_multiple_reports(start) ==
    LET i == SlotOf(start) IN
    CASE Cardinality(Streams) <= 1 -> data
      [] Cardinality(Streams) > 1 /\ Completes(start) -> [data EXCEPT ![i] = FreeSlot]
      [] Cardinality(Streams) > 1 /\ ~Completes(start) ->
           [data EXCEPT ![i] = [startTime |-> start, free |-> IF @.startTime = start THEN @.free + 1 ELSE 1]]

\* A line of a stream, and the sum it completes: free of both is force.
reporter_print(s, start, force, net, amount) ==
    LET own == CSV_stats(reserved_delay, s, force) IN
    /\ out' = <<[Line(s, amount) EXCEPT !.net = net]>>
              \o (IF Completes(start) THEN <<Line("sum", amount)>> ELSE <<>>)
    /\ reserved_delay' = IF Completes(start) THEN CSV_stats(own, "sum", force) ELSE own
    /\ data' = reporter_handle_multiple_reports(start)

\* History: more sums are open than there are slots, or a stream has ended before
\* another had a line.
Drift ==
    LET most == Max({lines'[s] : s \in Streams})
        least == Min({lines'[s] : s \in Streams})
        totals == IF final' # {} /\ final' # Streams THEN 1 ELSE 0
    IN  apart' = apart \cup (IF most - least + totals > NUM_MULTI_SLOTS THEN {"lag"} ELSE {})
                       \cup (IF final' # {} /\ \E s \in Streams : lines[s] = 0 THEN {"short"} ELSE {})

\* An interval: each starts where the one before ended.
reporter_printstats(s) ==
    /\ s \in connected \ final /\ lines[s] < MaxLines
    /\ lines' = [lines EXCEPT ![s] = @ + 1]
    /\ \E amount \in Amounts : reporter_print(s, lines[s], FALSE, NoMSS, amount)
    /\ UNCHANGED <<settings, connected, final, relayed>>
    /\ Drift

\* The final line starts at 0, as the first interval does.
FinalStats(s) ==
    /\ s \in connected \ final
    /\ final' = final \cup {s}
    /\ \E amount \in Amounts, mss \in (IF settings.mss THEN Segments ELSE {0}) :
           reporter_print(s, 0, TRUE, PrintMSS(mss), amount)
    /\ UNCHANGED <<settings, connected, lines, relayed>>
    /\ Drift

\* The server's report has a text of its own, allocated, printed and freed at once.
CSV_serverstats(s) ==
    /\ s \in final \ relayed /\ ~settings.mss
    /\ relayed' = relayed \cup {s}
    /\ \E amount \in Amounts : out' = <<[Line(s, amount) EXCEPT !.relay = TRUE, !.name = CSV_peer]>>
    /\ UNCHANGED <<settings, connected, lines, final, reserved_delay, data, apart>>

Done ==
    /\ final = Streams /\ (settings.mss \/ relayed = Streams)
    /\ out' = <<>>
    /\ UNCHANGED <<settings, connected, lines, final, relayed, reserved_delay, data, apart>>

Next == Done \/ \E s \in Streams :
    PrintConnection(s) \/ reporter_printstats(s) \/ FinalStats(s) \/ CSV_serverstats(s)

Spec == Init /\ [][Next]_vars

-----------------------------------------------------------------------------
(* Properties.                                                             *)

Abs(n) == IF n < 0 THEN -n ELSE n
Adaptive(text) == ToUpper(text.format) = "A"
Milli(text) == text.digits * 10 ^ (3 - text.decimals)

\* An adaptive number has at most four figures, with its point four characters, a
\* label of the table, and is off by no more than half a percent; any other is off by
\* no more than half its last figure (stdio.c: "print such that we always fit in 4
\* places", "adaptive picks the "best" one based on the number").
Readable(text) ==
    /\ text.label \in Labels
    /\ Abs(Milli(text) - InUnit(text.of, text.label, Base(text.format))) * 2 <= 10 ^ (3 - text.decimals)
    /\ Adaptive(text) =>
         /\ text.digits < (IF text.decimals = 0 THEN 10000 ELSE 1000)
         /\ text.of.exp > 0 => Abs(Milli(text) - text.of.milli) * 200 <= text.of.milli

\* The text a line begins with is its own stream's, and still there.
Named(line) == line.name = (IF settings.csv /\ (line.relay \/ settings.connection) THEN Held ELSE NULL)

\* The printed MTU leaves room for headers of 40 bytes and options of up to 40.
FitsMTU(net) == net.mss > 0 => net.mtu - net.mss \in 40 .. 80

\* One stream's final line came before another's first interval: both start at 0.
Short == "short" \in apart /\ \E s \in Streams : lines[s] > 0
Together == ~Short /\ "lag" \notin apart

\* Numbers are readable, and in the style of -y C the text of addresses is there for
\* every line of a stream and not left allocated after the last (ReportCSV.c frees
\* it with the line that has free set).  The same is true of the sum, which is freed
\* by whichever stream completes it, as long as no more sums were open at a time
\* than there are slots and no stream ended before another's first interval.
LinesReadable ==
    /\ \A line \in ToSet(out) : Readable(line.size) /\ Readable(line.rate) /\ FitsMTU(line.net)
    /\ \A line \in ToSet(out) : line.of # "sum" \/ Together => Named(line)
    /\ final = Streams => \A h \in Streams \cup (IF Together THEN {"sum"} ELSE {}) : reserved_delay[h] # Held

\* Without the second premise: the sum of the first intervals is completed by a final
\* line, freed with it, and the next sum begins with freed text.
NamedThoughShort == "lag" \notin apart => \A line \in ToSet(out) : Named(line)

\* stdio.c: four places, and at most 4 + 1 + 5 characters of text.
FourPlaces == \A line \in ToSet(out) : line.rate.width = 4
=============================================================================

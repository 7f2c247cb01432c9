# Specifications of NetMetrics

NetMetrics is an Android app that measures a network with `ping` and `iperf`.
The measuring is done by a vendored and patched iperf 2.0.5
(`src/app/src/main/cpp/jni`, about 12,000 lines of C and C++), which the app
starts as a child process; the app itself (`src/app/src/main/java`, about 2,100
lines) parses the output and stores the results in Firebase. The hard part of the
system is iperf's: several threads that share reports without locks, a thread
count that decides when the process ends, and a UDP protocol without delivery.

Paths below are relative to the jni directory unless they end in `.java`.

## Inventory

| Component | State | Operations | Hard behaviour | What makes it correct |
|---|---|---|---|---|
| Packet ring of a report (`Reporter.c` 211-430, 626-741) | `reporterindex`, `agentindex`, `data[700]`, `cntDatagrams` | `InitReport`, `ReportPacket`, `CloseReport`, `GetReport`, `EndReport`; `reporter_process_report` | two threads, no lock, sentinels -1 and N in the indices | bounded FIFO; no slot overwritten; statistics complete when handed out; no use after free |
| Report list (`Reporter.c` 434-604, 626-655) | `ReportRoot`, `ReportCond`, `report.type` | `ReportSettings`, `InitReport`, `ReportServerUDP`; `reporter_spawn`, recursive `reporter_process_report` | agents link in at the head while the reporter walks without the lock | chain sound; each part printed once, in order; no lost wake-up; everything freed |
| Barrier (`Reporter.c` 123-204) | `MultiHeader.threads`, `startTime`, `barrier` | `InitMulti`, `BarrierClient` | condition wait with no predicate, count used for two purposes | nobody early, one start time, count restored |
| Thread count (`Thread.c`, `main.cpp`, `signal.c`, `Launch.cpp`) | `thread_sNum`, `nonterminating_num`, `sInterupted` | `thread_start`, `thread_stop`, `thread_run_wrapper`, `thread_joinall`, `thread_setignore`/`unsetignore`, `thread_register_nonterm`/`unregister`/`release`, `Sig_Interupt` | threads that start threads, signals on any thread, threads that leave the count while they live | the count is the number of threads to wait for; main ends after them and does not sleep for ever |
| Sums (`Reporter.c` 746-799) | `data[5]`, `threads` | `reporter_handle_multiple_reports` | streams at different speeds | each sum has every stream once |
| Statistics (`Reporter.c` 688-741, 804-850) | counters, jitter, interval | `reporter_handle_packet`, `reporter_condprintstats` | loss, reordering, interval boundaries | counters add up over intervals |
| End of a UDP test (`Client.cpp` 420-459, `Server.cpp` 99-233) | sequence of closing datagrams | `write_UDP_FIN`, `write_UDP_AckFIN`, `Server::Run` | loss, duplication, delay; two retry limits | both ends end, with the server's statistics if the network allows |
| Listener and client table (`Listener.cpp`, `List.cpp`) | `clients`, `mClients`, `clients_mutex` | `Run`, `Accept`, `UDPSingleServer`, `Iperf_pushback`, `Iperf_delete`, `Iperf_hostpresent` | shared list, early returns under a mutex | a stream of a known host joins its group; the mutex is released |
| Settings and client header (`Settings.cpp`, `Launch.cpp`) | `thread_Settings`, `client_hdr` | `Settings_Interpret`, `GenerateListenerSettings`, `GenerateClientSettings`, `GenerateClientHdr` | order of options, widths | the other side gets the test that was asked for |
| Client and server loops (`Client.cpp`, `Server.cpp`, `Extractor.c`) | clock of the rate, `mAmount`, `totLen`, file position | `Client::Run`, `RunTCP`, `InitiateServer`; `Server::Run` | pacing by differences, unsigned amounts, writes that fail, a timer as a signal | datagrams at the rate asked for; both ends report what was written |
| Time (`Timestamp.hpp`, `delay.cpp`) | seconds and microseconds | `setnow`, `subUsec`, `add`, `before`, `delay_loop` | carries, truncated fractions | arithmetic agrees with the clock |
| Report output (`ReportDefault.c`, `ReportCSV.c`, `stdio.c`) | the text of addresses kept for the CSV style | `reporter_printstats`, `CSV_stats`, `CSV_peer`, `byte_snprintf`, ... | text freed with the last line; rounding at the edge of a unit | numbers fit and are precise; no line uses freed text |
| Sockets and addresses (`SocketAddr.c`, `PerfSocket.cpp`, `tcp_window_size.c`, `Client::Connect`, `Listener::Listen`) | socket, names of both ends, options | `SetSocketOptions`, bind, connect, listen, join | failing calls are only warned about; names chosen on one host must be accepted on the other | a test back arrives; streams come from the address and with the window asked for |
| Scan of the command line (`gnu_getopt.c`) | `optind`, `first_nonopt`, `last_nonopt`, `nextchar` | `_gnu_getopt_internal`, `exchange` | words exchanged with options while scanning | every option found with its argument |
| Measurement task (`ping/PingBackgroundTask.java`, `ping/PingResultsActivity.java`) | child process, last parameters, results | `ping`, `iperf`, `rerunIperf`, callbacks | failed runs repeated with other parameters, UI callbacks | repetitions end, results belong to their run |
| Store (`Database/*.java`) | counter and records in Firebase | `DataSaveThread`, `DataFetchThread` | no transaction on the counter, partial records | each measurement has a number of its own |
| Screens (other `.java`) | preferences | layout, listeners | - | - |

How they interact. `main` starts the reporter thread and, through `runNow`, a
client or a listener. A listener starts a server thread for each stream, and a
server may bring a client for the way back. Every transfer thread owns a report;
it puts packets into the report's ring, and the reporter takes them out, makes
statistics, adds them to a `MultiHeader`'s sums and prints. `ReportCond` wakes
the reporter; `thread_sNum_cond` wakes `main`. The reporter takes itself out of
the thread count while the list is empty, which is what lets the process end.
The app reads the printed lines from the child's output.

## Modules

| Module | Models | Theorems |
|---|---|---|
| `PacketStream` | abstract: a bounded FIFO that is closed by its last packet, ended by its writer and freed by its reader | |
| `ReportRing` | one `ReportHeader` between its agent and the reporter; implements `PacketStream` | `ReportRing_proofs` |
| `ReportRingWeak` | the same with the agent's two stores seen out of order | |
| `ReportList` | the list of reports, its agents and the reporter thread | `Reporter_proofs` |
| `Barrier` | `InitMulti` and `BarrierClient` | `Reporter_proofs` |
| `BarrierSpurious` | the same with spurious wake-ups | |
| `ThreadCount` | the threads of one process and `main` | `ThreadCount_proofs` |
| `UdpFin` | the end of a UDP test: client, network, listener, server, and the server's loss counters | `UdpFin_proofs` |
| `ListenerTable` | a listener, its servers, the client table; TCP, UDP and `-U` | `ListenerTable_proofs` |
| `IntervalReports` | interval lines, totals and sums of parallel streams | |
| `Timestamp` | class `Timestamp` | `Transfer_proofs` |
| `Transfer` | one transfer: the client's loops, its rate, its amount, the server of a TCP stream | `Transfer_proofs` |
| `Sockets` | the sockets of a test and of the test back on two hosts | `Sockets_proofs` |
| `Getopt` | the scan of the command line | |
| `Options` | settings from environment and options, and what a two-way test makes of them; uses `Getopt` | `Options_proofs` |
| `Output` | lines of streams, sums and relayed reports, with numbers and addresses | |
| `MC...` | instances for TLC | |

`Timestamp`, `Getopt` are modules of operators; `Transfer` extends the first,
`Options` the second. `ReportList` takes the ring as the FIFO it was shown to be,
`IntervalReports` the packets as the reporter hands them on, `Transfer` the
server as a peer. `ListenerTable`, `UdpFin`, `Sockets` and `ThreadCount` look at
the same listener from four sides: its table, its closing datagrams, its names and
its place in the process. `grep '"<definition>"' PROJECT.json` finds the lines
of code each definition stands for.

### ReportRing

The variables are the fields of `ReportHeader` and the locals of the agent.
One action is one access to an index the other thread writes, together with the
local work up to the next one: `AgentWrap`, `AgentLap`, `AgentCopy` and
`AgentPublish` are the four stretches of `ReportPacket`, `ReporterTest`,
`ReporterAdvance`, `ReporterHandle`, `ReporterFinish` and `ReporterEndTest`
those of `reporter_process_report`. The content of a packet is its ID. Stores
are seen in program order; `ReportRingWeak` shows what that assumption carries.
`PacketStream` hides slots and indices: `put` packets are in, `got` are out.

### ReportList

The ring is here the FIFO it was shown to be, reduced to two counters per
agent. `visit` is the stack of the recursion in `reporter_process_report`: it
goes down to the tail first and handles reports on the way back, so an inner
report is unlinked and freed by its caller, and the one the walk began from by
`reporter_spawn`, under the lock, wherever new heads have put it (`UnlinkRoot`).
`Unlink` takes a report out at the one place it has in the chain (`PositionOf`).
`Wants` is what `-x` leaves in. `PrintPart` stands for `reporter_print`; that a
part was printed is all that is kept.

### Barrier

`pc` splits `BarrierClient` where another client can come between: before the
mutex, in the wait, after the wake-up before the mutex is had again, behind the
mutex, linked in.

### ThreadCount

`life` is where a thread is between `thread_start` and the end of
`thread_run_wrapper`; `starting[s]` is the stack of `thread_start` calls in
progress on thread `s` (it calls itself for `runNow`). Each critical section of
`thread_sNum_cond` is one action. `reporting` is "busy" while the reporter is
counted, "ignored" in its wait, "woken" between the signal and its return to
the count. A report is linked in or not. `Processes` are command lines: which
thread starts which, the listener's limit of streams, and which clients arm the
interval timer. `JoinWiring` and `ListenerWiring` say for which of them main joins
everybody and a listener serves as many streams as it is to: not when a client's
timer may end the listener of the same process (TCP with `-d` or `-r`), nor
when a listener with a limit has a server followed by another thread (`-s -P 1`
tested with `-r`). `MCThreadCount` has TLC evaluate both for the processes of its
runs: those of `threadcount` satisfy them, those of the findings violate the first.

### UdpFin

One client's test. Datagrams are their numbers; the sets `toServer` and
`toClient` are the network, with the age of each datagram in ticks of 250 ms,
the time of the client's `select`. Whoever has the port reads: the listener
while there is no server (`Accept`), `Server::Run` (`Run`), or the loop of
`write_UDP_AckFIN` (`ReadAgain`). `finID` is what `CloseReport` leaves in
`packetID`, the reporter's running count: `ReportRing` shows that it is between
0 and the number of packets published, and any of these is taken. `stats` are
the counters `reporter_handle_packet` keeps and `info` the result
`reporter_condprintstats` makes of them. `heard` and `twice` are history.

### ListenerTable

`lpc` is where `Listener::Run` is between two accesses to the table or the
socket: accept, look up the host, verify it, register the stream, read the header,
start the server. `clients` is the linked list of `List.cpp`, newest first, each
entry with the group (`holder`) `Iperf_hostpresent` gave it; `Iperf_delete` takes
out the first entry of a peer and `Iperf_hostpresent` looks for the first of a host. With UDP the
listener connects its only socket to the peer of a first datagram, so that what
is queued behind it stays at that socket (`inbox`), and binds another. With `-U`
(`mode.singleUDP`) the listener itself does the servers' work, in
`UDPSingleServer`; `-U` is given with `-u` (`ModesAssumption`), since a TCP listener
has no such mode. The peers (`Streams`) connect, send, ask for a test back, go
away or repeat their closing datagram.

### IntervalReports

`Packet` is one call of `reporter_handle_packet` and of the
`reporter_condprintstats` that follows, the loop over intervals and the sum
included. Packets come with the clock's times (`At`, carried at a million), interval
boundaries with those of `TimeAdd` (carried above it). `data` are the slots of sums:
the first with the line's start time is taken, else a free one, else the last.
`ReadThreads` and `WriteThreads` are the two halves of the unlocked `threads++` of
a server's stream. Nothing keeps the streams together. `apart` is history: it
remembers when more sums were open than there are slots, when a stream joined
after the first line, and when one ended before another had a line. The premises
of `SumsAreWhole` are stated with it, and each of the findings drops one.

### Timestamp and Transfer

`pc` follows `Client::Run`: the end of the test is fixed (`Begin`), the clients
wait for each other and the clock starts (`StartClock`), then each turn stamps a
datagram and computes the delay, writes, waits in `delay_loop` and tests for the
end. The clock passes by any member of `Busy` in a write and at the end of a wait.
`rate` is in bits a second; `Targets` is what the cast to `int` and the clamp to a
second leave of a datagram's time, one less where the quotient of doubles may round
down. `PacedAsAsked` compares with the rate and not with that time: after as many
datagrams as have been stamped the client may be ahead of the rate by the fraction
cut off each, no more. Only a rate of less than a datagram in a second, which
the code raises with a warning, is measured by the second. `RunTCP`
has the same actions without the pacing and with `SIGALRM` (`Alarm`).
`Word` is the range of the unsigned `mAmount`. The client header goes ahead of the
data (`HeaderSent`, unless the client has `-C`); `RecvHeader` is the listener's one
`recv` for it, which may return a part, or is not made (`-C` at the server), and
`Recv` and `RecvEnd` are the server of a TCP stream. What is left of the header, or
was taken too much for one, is in the server's total, and `TotalsAgree` says so. A
conversion of a fraction to `long` may lose a microsecond (`Lost`).

### Sockets

The threads (two clients or a client with its listener, the server's listener, the
speaker) name, tune, bind, connect and listen, in any order their calls allow.
A name is an address and a port; a bind or connect whose name is taken fails,
which the code only warns about (`WARN_errno`), and goes on with a name the
kernel chooses. A connection lingers on its name after its end (`LingerEnds`).
`asked` is what `setsock_tcp_windowsize` asks of the kernel and `window` what the
kernel gives (`Buffers`): the size asked for, a corrected one, or the default when it
refuses, which nobody looks at. A socket nobody asked anything of has the default.
`ReportSettings` reads it back, from the buffer the socket's stream goes through, and
warns if it is not what `-w` said. `mss` is what is asked for.
`WellNamed` says which tests find their names: the kernel chooses other ports, the
server is asked at the address it binds to or its kernel answers from, parallel
streams are not bound, and who binds to an address has the test back come to
another port. TLC evaluates it in `MCSockets`: the tests of the run satisfy it, those of
the finding on names do not.

### Getopt and Options

An element of `argv` is a word, `--`, a cluster or a long option, so the scan is
that of `_gnu_getopt_internal` with its `exchange` and none of its pointers.
Options are interpreted one at a time (`Settings_Interpret`), in the order the
scan gives, a turn of the environment's or the command line's loop to a step, and
`given` keeps what was interpreted; `Number`, `Kinds` and `MulticastHosts` say what the code reads in an
argument. `s` is the `thread_Settings`, `flags` its bits. `Start` is the client's
part of a two-way test (listener and header), `ReadHeader` the server's: the
header's fields are numbers below twice `WordSize` (`Bits`), times being negative, and
what the server makes of length and window is an `int` again (`AsInt`). Rate and amount are
`max_size_t` at the client, wider than their fields.

### Output

Each stream prints its connection, its interval lines, its final line and, from a
UDP server, the relayed report. A line goes into the sum of its start time (`SlotOf`),
a final one at 0 like the first interval, and the line that makes it whole prints it,
`force` being that of that line: so a final line may free the text of the sum.
`reserved_delay` is the text `CSV_peer` allocates. `byte_snprintf` is
modelled with its choice of unit, label, digits and width; an amount is a number
of thousandths of a power of its base, because TLC's numbers have 32 bits.

## Runs

| Run | Instance | Shows |
|---|---|---|
| `ring` | 4 slots, 10 data packets | the properties of the ring, the refinement of `PacketStream`, and that nothing waits for ever |
| `reportlist` | 2 agents (a UDP client with all parts; an agent with a connection and a transfer), ring of 2, 3 packets | chain and freeing, order of printing; everything is printed; the reporter becomes ignorable |
| `barrier` | 4 clients, 3 clock values | start together, count restored, all get through |
| `threadcount` | `-c -P 2`; `-c -u -d`; `-s` tested with `-u -r`; `-s -P 1` tested with `-u -d`; one interrupt; one server that may fail | the count is accurate, main ends after and only after what it waits for |
| `udpfin` | 3 datagrams, 10 tries each way, 2 losses, 1 duplicate, delays below half a second | the result arrives, no second server, losses add up, both sides end |
| `listener` | three streams of two hosts, one too short for a header; twelve kinds of listeners | table and groups match the servers, `-1` and `-c` keep other hosts out, tests back are as asked, everyone is served |
| `sums` | 2 streams of 2 packets and a last one, client and server, intervals of half a second and none, 2 seconds of 4 units, 2 slots | lines hold what came in their interval; sums are whole and in order unless the streams have drifted apart |
| `transfer` | fifteen tests (UDP at five rates, TCP with and without header at either end, by time, amount or file), 5 writes | the rate is kept, both ends report what was written |
| `sockets` | tests with and without `-d`/`-r`, `-L`, `-B` at either end, `-w`, `-M`; a group; two addresses a host | tests back arrive; addresses and groups are as asked, windows are asked for and reported truly, whatever the kernel gives |
| `options` | all command lines of up to 4 elements of a family for the scan and up to 3 of one for the options; 7 server settings | the scan agrees with a plain reading; options commute but for named pairs; header, listener and test back fit |
| `output` | two streams, four formats, amounts around every threshold | numbers fit and are precise; addresses are there when printed and freed at the end, of sums unless the streams have drifted apart |
| `finzero` | as `udpfin` without losses and duplicates | finding: a closing ID of 0 ends no server |

Findings of other instances. Each configuration below checks one statement of a
comment, a message or a mutex's use that the code does not keep; TLC prints the
counterexample (`tlc -config <cfg> <module>`; with several statements in one
configuration, `-continue` shows all, for `MCTransferOdd` with `-workers 1`).
`PROJECT.json` lists them under "findings" with the lines.

| Configuration | Module | Shows |
|---|---|---|
| `ReportRingWeak.cfg` | `ReportRingWeak` | a slot read before it is filled when the store to it is seen after the one to `agentindex` |
| `MCReportListNoData.cfg` | `MCReportList` | with `-x d` a report with a connection part only is never freed, and the process never ends |
| `BarrierSpurious.cfg` | `BarrierSpurious` | the wait of `BarrierClient` is in no loop |
| `MCThreadCountTradeoff.cfg` | `MCThreadCount` | `runNext` is started after its predecessor left the count; the client's own timer counts as the user's interrupt |
| `UdpFinReorder.cfg` | `UdpFin` | two swapped datagrams count as a loss |
| `MCTransferOdd.cfg` | `MCTransfer` | an amount that is no multiple of the buffer (or is 0) is missed, and the test goes on; the wait at the barrier is taken from the time of a UDP test; the fractions cut off the time of each datagram add up to a faster rate |
| `MCOptionsHeader.cfg` | `MCOptions` | a test of bytes comes back as a test of time; a rate of more than 32 bits as another |
| `MCSocketsNames.cfg` | `MCSockets` | `-B` takes the server's port: of two parallel streams, or of a client and its listener, one is refused the name; the speaker of a server with two addresses may come from the other one and be refused |
| `MCSocketsRace.cfg` | `MCSockets` | the client's listener, started first, need not listen first |
| `MCSocketsRange.cfg` | `MCSockets` | the mask for multicast lets in 240 to 255 |
| `MCIntervalReportsApart.cfg` | `MCIntervalReports` | a total is added to the first interval's sum; a stream too far ahead overwrites a sum; a late stream is waited for in sums it has no part in; of two unlocked increments of `threads` one is lost |
| `MCOutputEdges.cfg` | `MCOutput` | the adaptive format leaves its tables at 1024^4 bytes or 10^12 bits; three figures take five places |
| `MCOutputShort.cfg` | `MCOutput` | a final line completes the sum of the first intervals and frees its text, with which the next sum begins |

Seen while reading, and not checked here: with `-t` under a hundredth of a second
a TCP client's timer is set to zero and never goes off; a TCP server with `-i`
reports its whole stream in one packet at the end; `Listener` with `-U` never
starts a `runNext`; an interval without datagrams prints a percentage of nothing;
a client that connects and sends no header holds the listener in `recv`.

Bounds and why they are enough. Four slots and ten packets let the ring wrap
twice with the reporter anywhere, and the theorems hold for every size. Two
agents with three reports each already give every order of pushes against a
walk: the walk reads the list once, and at most the reports in front of its
root can change. With a ring of two and three packets the agent is blocked by a full
ring. Four clients are more than the barrier distinguishes (last, waiting,
woken, past). In `threadcount` two servers and two clients give two streams at
once and a two-way test each; `MaxInterrupts` 1 is the signal that releases the
listener at every moment (a second one on the same thread ends the process at
once, `signal.c` 170, as does the timer's signal after the user's, which the run
reaches).

`udpfin` has the code's own limits (10 tries, 10 acknowledgements, 250 ms and
1 s); the bounds on losses and delay are the largest for which `ResultArrives`
holds: with three losses, or delays of half a second, it does not, and the
client's two and a half seconds are what runs out (`TriesSuffice`, below, gives the
limit for all bounds). Three datagrams are the
fewest that can change places behind the first, which is not counted.

In `listener` two streams of a host and one of another are what groups and hosts
need: one that joins, one that leaves, one that must not be in it. One datagram
with data and one repeated end per stream give those that come after the server is
gone. In `sums` and `output` two slots stand for the code's five: one of two
streams can be a sum further ahead of the other than there are slots, and more, so
the runs reach the edge at which a sum is overwritten, and go beyond. A second of
four units with a start at half a second makes the first boundary fall on a full
second, which `TimeAdd` leaves uncarried and the clock does not. Weights 1 and 10 make a
sum tell who is in it.

In `transfer` two bytes in a buffer and `Word` 64 let the amount be met, passed and
wrapped; a header of two bytes can be read whole, in part or not; five turns with quick
and slow ones in every order are enough to lose and make up time, and the theorem has no
bound. A datagram of 16 bits takes 400,000 microseconds at 40 bits a second and
100,000 at 160, exactly; 432,432.4 at 37, of which the fraction is cut; more than the
second it is clamped to at 5; and 0 is no rate. `sockets` has two sizes the
kernel may give for the one asked for: that and the default. It leaves out of its
instance what the configurations above show to fail: two streams with one `-B`,
`-B` with a test back on the same port, a server that answers from another
address, a listener that comes late (`ListenFirst`).

In `options` all pairs of all options, all triples of those that look at each
other, and all lines of four elements for the scan; `exchange` needs two words, two
options and `--` at most to take all its branches. `WordSize` is 2^29 in place of
2^31, because TLC's numbers have 32 bits; the largest amount is 2^30, so a
value beyond the range occurs; so does a rate beyond the unsigned word and a window
beyond the signed one. `output` has an amount on each side of each
constant in `byte_snprintf`, up to two lines before the final one, and two streams: one
that frees the text and one that still needs it.

Fairness. Threads are ordinary threads and are scheduled: weak fairness of each
one's steps. Spins re-read shared state after a rest, so they need no more.
A test has a time or an amount, so its agent closes its report in the end:
`MaxPackets` and the fairness of the agent's steps stand for it. Nothing is
assumed of the outside: no stream has to come, no user to interrupt, no thread
to fail, no spurious wake-up to happen. One exception: in `ListenerTable` a peer
that has connected sends its header, sends its end or goes away, because nothing
in the code limits the time it is waited for. `Transfer`, `Sockets`, `Options`,
`Output` and `IntervalReports` state safety only and need no fairness. Where a
specification may stop it says so with a step of its own (`Idle`, `Done`,
`Finished`, `Terminated`), under the condition in which it may; only `Sockets` and
`IntervalReports`, whose peers and packets may stop coming at any moment, allow it
everywhere, so that deadlock is checked in all the others.

## Proofs

`ReportRing_proofs` proves, for every `N >= 3` (the code has 700) and any
`MaxPackets`, that `NoOverwrite`, `PublishedSlotsHoldTheirPackets`,
`StatisticsComplete`, `NoUseAfterFree` and `TypeOK` are invariants, and that the
specification implements `PacketStream`. None is inductive. The invariant that
is, `IndexInv`, adds that the published packets are the handled ones, the one in
hand and the pending ones (`CountInv`), what -1 in an index means (`DrainInv`),
and, the heart of it, `PositionInv`: the reporter is always between the agent's
stale copy of its index and the agent itself, going round. That is why a test
of a stale copy suffices. `Pending` is defined by cases over the wrap, so that
each step is linear arithmetic. With two slots the agent would wait for ever at
its first packet, hence `N >= 3`.

`Reporter_proofs` proves `ListInductive`, for any agents, parts wanted, ring size
and number of packets, and from it that `ChainIsSound` and `PrintedInOrder` are
invariants (`ChainCorrect`, `OrderCorrect`). What the walk has still to visit is a
stretch of the chain whatever has been linked in front of it: `WalkInv` names its
two ends, and each step shows how they move. That is little use for the order of
printing, where the invariant has to say what lies outside the stretch. Behind it
are the reports passed by linked (`Passed`): data whose connection is printed and,
if the relayed report of their agent was there when the walk began, all of whose
packets have been handled, since the agent only makes that report after it has
closed its ring. In front of it are reports linked in since. So a data report is
printed with its agent's settings report neither behind the walk (those are not
passed by linked) nor in front of it (`ListInv`: an agent's older reports lie
behind its newer ones); it has been freed, and what is freed is printed
(`FreedInv`). The relayed report after the final statistics goes the same way.
The same invariant gives that nothing is freed under its agent or left out of
the chain.

`ListenerTable_proofs` proves `ListenerInductive`, for any streams, hosts,
datagrams and kinds of listener, and that `TableMatchesServers`, `OneHostAtATime`
and `SpeakerAsAsked` are invariants (`TableCorrect`, `HostCorrect`,
`SpeakerCorrect`). `ServerInv` says whose entries are in the table (those of running
servers and of the stream in hand once it is registered); `TableInv` that no peer
is there twice and that two entries have one group exactly if they have one host;
`BacklogInv` that a TCP stream waiting to be accepted had no server yet, without
which a second one might be registered under the same name; `HostInv` that all
entries are of the host admitted; `HeaderInv` that the buffer a UDP server reads
its header from is of the stream in hand. `Iperf_delete` and `Iperf_hostpresent`
look for a first entry: that there is one is the least-number principle
(`MinIsLeast`), from the well-foundedness of `<`.

`Reporter_proofs` also proves for every finite, non-empty set of clients that
`NobodyStartsEarly`, `OneStartTime` and `CountRestored` are invariants.
`BarrierInv` says that the barrier is closed and `threads` counts those still
to come, or open and `threads` counts those who have come back; the change from
the first to the second is the step of the last client.

`Transfer_proofs` proves first the rate and what it rests on. `BeforeIsLess`, with the lemmas `SetNow`,
`SubUsec` and `AddIsSum`: the carries of `Timestamp` are right for all times and
any number of microseconds in a second. `PaceHolds`: for every rate, buffer,
length of the test and every delay in `Busy`, the datagrams sent are ahead of the rate
asked for by no more than the microsecond that may be cut off the time of each, and one
lost in the last wait; and if turns take no more than their share, none is late by more
than its own turn, measured against the exact rate. A rate below one datagram in a second
is kept as one in a second, and that is what the theorem says of it. The inductive
invariant `PaceInv` relates the clock of the rate to the delay carried over:
`due <= LastTurn + delay`, with equality as long as turns are quick (`RateInv`), where
`due` counts in the whole microseconds of `delay_target`, and says where the clock is
between two turns (`TurnInv`). The step from there to the rate is arithmetic on quotients
(`TargetIs`, `RateTerms`): a datagram's time is at most a microsecond short of the exact
one. The assumption is `TransferAssumption`: times are
natural numbers and `MaxBusy` bounds `Busy`. That the clock does not go back is the
model's (`gettimeofday` may be set back), and that a turn is shorter than 2^31
microseconds, which the code's `int` differences need.

`TotalsHold`, in the same module, proves that `TotalsAgree` is an invariant for every
length of a buffer and of the header, amount, file and number of writes, and every
range `Word` of the unsigned sums. `TotalsInv` says that the sums are kept modulo `Word` after every write,
that an undisturbed test has written full buffers only, that the amount left is the
rest of it modulo `Word` and has been tested since the last write, that the file is
at the boundary of as many blocks or at its end, and that what the server has
received, what the listener took for the header and what is on its way are what was
written with the header in front (`ServerInv`). The lemmas on division
(`UniqueDivision`, `ModSum`, `NextBlock`) hold for any divisor, which is why they
are spelled out.

`UdpFin_proofs` proves `CountersHold`, that `LossesAddUp` is an invariant for any
number of datagrams and any of the network's losses, delays, copies and
orders. The inductive invariant `HeardInv` adds that no number heard is above the highest
(`PacketID`), so that a datagram either closes a gap or makes one; the lemmas on
`Missing` count what a jump passes over (`MissingSkipped`) and what a late
datagram finds again (`MissingFound`).

`WaitIsEnough`, in the same module, proves `NoGhostServer`, for any number
of datagrams, tries, losses and copies: no datagram that comes after its server has
ended makes the listener start another. A server that ends on its timeout has
waited longer than a datagram is on its way (`Lifetime < AckWait`, a second),
so none is left: `WaitInv` says that what is late is at least as old as the wait. One
that ends on its last acknowledgement has not waited, and the theorem assumes that this
does not happen with datagrams on their way (`~Hurried`). The code does not rule it
out: of a long test more than ten datagrams may be late, and each of them is answered.
The run has too few for that.

`TriesSuffice` proves `ResultArrives`: a client that had a server gets
its acknowledgement. With `Span == Lifetime + 1`, `TriesSuffice` asks that the wait
outlasts the losses and a delay (`MaxLosses + Lifetime < AckWait`) and that the client
tries often enough (`Span * (MaxLosses + 2) + Lifetime <= FinTries`). The argument
takes the closings sent as a clock. Up to `Span` of them may be on their way when the
first reaches the server; one acknowledgement may answer the closings of `Span`
ticks, and if it is lost, they are spent with it; a closing that is lost is one tick.
So after `n` losses the server has acknowledged by closing `Span * (n + 2)`
(`RecvInv`, `WaitingInv`, `AckInv`), and an acknowledgement that is not lost
arrives before the client gives up (`AckNear`). Both bounds hold in the run (3 < 4 and 9 <= 10), where three
losses would need 11 tries; both are tight: just beyond either TLC finds a client without a result.

`TriesSuffice` assumes that the server does not use up its ten acknowledgements
while the client waits (`~Exhausted`), which nothing in the code ensures either when
many of the test's datagrams are late. In the run it cannot.

`ThreadCount_proofs` proves `CountHolds`, that `CountAccurate` is an invariant, for any
finite set of threads, any way they start each other, any threads that fail and
any number of signals. Each step moves the counter as it moves the set `Awaited`.
To know that, `CountInv` needs `ListenerInv` (a `nonterminating_num` of one is the
registered listener that has not been released) and `ReporterInv` (the reporter
runs as long as it is in or out of the count). `ReportsPrinted`, that
`TransfersReported` is an invariant, follows from it with `ReportsInv`: while the
reporter is out of the count, the thread of a report linked in is itself counted,
because it waits in `EndReport`. It assumes that a process has
one listener and that it does not fail (`ListenerAssumption`): with a second one, or
with a listener that ends by `thread_stop` while it is registered, a later
release would take out of the count what is no longer in it.

`AllAreJoined` and `ListenerServes` prove `AllJoined` and `ListenerServed` for any
processes with `JoinWiring` (and, for the second, `ListenerWiring`). The count being
accurate is not enough: main returns when nobody is counted, so it must be known
that somebody is whenever a thread is still to come. Without an interrupt nobody
releases a listener that has begun, because no client's timer runs beside one
(`TimerInv`, `BegunInv`), so it stays counted until it has brought its last stream.
`thread_run_wrapper` starts a `runNext` after its predecessor has left the count; the
predecessor is a server of a listener without a limit (`StackInv`), which is
counted throughout (`BegunInv`). Until a listener with a limit has begun, main itself
is starting the chain of `runNow` threads in front of it, and nobody else lives
(`ChainInv`); for every stream off its count it has brought a server (`ServedInv`).

`Sockets_proofs` proves `SocketsTuned`, that `SocketsAsAsked` is an invariant, and
`NoneRefused`, that `TestBackArrives` is, for any hosts, addresses, ports and
tests that are `WellNamed`, and any order of the threads. The second assumes
`ListenFirst`, that the client's listener listens before a client connects: the finding
on the race is what happens without it. In `SocketsInv` each socket has the
name, window, segment size and group its thread's settings asked for, as far as
the thread has come (`SocksInv`); `StartInv` says what must have happened for a thread
to be started, so that a client that connects finds its server listening
(`ServerIsThere`, `ListenerIsThere`); `AdmittedInv` that a stream with a server came
from the name it was to come from, and to where that server listens; `SettingsInv`
that a window reported is the one its buffer has, and the warning the difference to the
one asked for. What the kernel gives is arbitrary: any size, for whatever was asked. No bind is refused because a
well-named test asks for different names (`NameIsFree`), and the listener lets the
speaker in because it comes from the address its client asked
(`SpeakerGoesBack`, `ListenerAdmits`). That hosts' own addresses are no groups'
(`OwnAddressAssumption`) is the one thing assumed of the network's addresses.

`Options_proofs` proves `HeaderFits`, `TwoWayAgreed` and `TimedTestReturns`
(`HeaderRoom`, `WaysAgree`, `TimedTestComesBack`) for every command line, environment and
contents of arguments, and any settings of the server; what the scan returns is
arbitrary here. `RoomInv` says what the length of the buffer is worth at every point of
either loop: outside compatibility there is room for the header of the kind of test
chosen so far; for UDP unless a length came before a rate; and a length marked as
given was given. `InterpretKeeps` shows what each option makes of it, by its letter:
only `-b`, `-l`, `-u` and `-C` touch it (`OthersQuiet`), and `-b` alone
does not look back at the length. For the way back, `HeaderInv` says that
listener and header were made of the settings as they are, and
the server's client of that header. A time goes through the header as `2 * WordSize`
less it, for any word, and a rate or a window as its bits, which give it back if it
fits; that a length given is not 0, which the header
takes for none, is `RoomInv` again.

Model-checked only. Liveness is out of the prover's reach, as is `ENABLED`:
`EveryPacketHandled`, `ReportFreed`, `EverythingPrinted`,
`ReporterBecomesIgnorable`, `AllStart`, `JoinReturns`, `EveryoneEnds`,
`EveryoneServed`. So are these invariants:

- `GetoptAgrees` and `OrderIndifferent` of `Options` are statements about what a scan,
  or a run of the settings, of any length computes: induction on the words and
  on the options.
- `IntervalReports`: a packet may end several intervals, and the loop over them and
  the sums is a fold whose step is an operator, about which nothing can be
  proved without induction over the data.
- `Output`: `LinesReadable` rests on powers and divisions of amounts by constants
  up to 1024^4, for a handful of formats that TLC evaluates at every threshold.

## What the models leave out

- `ReportRing`: the sleeps; the build without threads; `ReportPacket`'s signal.
- `ReportList`: the arithmetic of the statistics and the connection report of a
  sum; the reporter's signal to a client that has used up its CPU.
- `ThreadCount`: the single-client mode of `-1`; `FAIL` on a registered listener
  (`thread_stop` is taken only by threads in `Faulty`); a handler that interrupts
  a thread inside `thread_sNum_cond`'s critical section; daemon and Win32
  service; spurious wake-ups of the reporter (they are in `ReportList`).
- `UdpFin`: several clients on one port (`ListenerTable` has them, without losses),
  multicast, failing socket calls, the sizes that leave the statistics out of
  the acknowledgement; a test so long that its late datagrams use up the server's
  acknowledgements (the theorems name the premise).
- `ListenerTable`: socket calls that fail, and with them the returns that hold
  `clients_mutex`; losses; datagrams too short for a header while an old one stands in
  the buffer.
- `IntervalReports`: jitter, a mean of floating-point numbers; the loss counters,
  which are in `UdpFin`.
- `Transfer`: a clock that is set back and turns of more than 2^31 microseconds; short
  writes of TCP other than by a signal or a reset; a header that comes in parts although
  sent at once is read as far as it has come, but what it then says is in `ListenerTable`.
- `Sockets`: IPv6, which `config.h` leaves out; `-S`, `-N` and `-Z`, which the
  kernel takes as they are; what the kernel makes of `-M`.
- `Options`, `Getopt`: texts that are no number where one is read; the wording of
  messages; `gnu_getopt_long_only`, optional arguments and `-W;`.
- `Output`: wording, times and percentages.

Not modelled at all: the replacements of library functions (`inet_pton.c`,
`snprintf.c`, ...) and the Win32 service (`service.c`), which are third-party or not
in the build; the app's task, store and screens. The store's hazard, a counter
read and written back over HTTP without a transaction, and the task's
repetitions are listed under "hazards" without a property.

## Plan

Done: the modules listed above, and the theorems on the ring, the report list, the
barrier, the thread count and its joins, the end of a UDP test (counters, late
datagrams and results), the listener's table, transfers (rate and totals), sockets and options.

To come, in this order:

1. Theorems: `SumsAreWhole` with the slots as a window of intervals, if the loop
   can be written without a fold.
2. `MetricStore`: two phones on the counter of measurements.
3. `MeasureTask`: the repetitions of iperf in `PingBackgroundTask.java`.
4. `ListenerTable` with failing `connect` and `recvfrom`.

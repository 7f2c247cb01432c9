------------------------------ MODULE Transfer ------------------------------
(***************************************************************************)
(* One transfer: the sending loops of the client (Client::Run for UDP,     *)
(* RunTCP), what they report, and the server that reads a TCP stream.      *)
(*                                                                         *)
(* A UDP client keeps to a rate in bits per second: it makes whole         *)
(* microseconds per datagram of it, at most a second, measures how long    *)
(* the last turn took and carries the difference over in delay.            *)
(* The client header of a TCP test goes ahead of the data on the same      *)
(* connection; the listener takes it off before the server reads.          *)
(* A test ends with its time, its amount (unsigned: Word values), its      *)
(* file, a signal or a failing write.                                      *)
(***************************************************************************)
EXTENDS Timestamp, FiniteSets

CONSTANTS
    Tests,          \* the tests tried, see TestType
    mBufLen,        \* bytes in a write, and in a read of the server
    Header,         \* bytes of a datagram no file data goes in
    ClientHdr,      \* bytes of the client header
    Word,           \* values of a max_size_t
    Busy,           \* microseconds a write or the end of a wait may take
    MaxBusy,
    Waits,          \* and the barrier of parallel clients
    MaxWrites

\* rate: bits per second (-b); amount: microseconds (-t) or bytes (-n); file: its
\* bytes, -1 without -F; interval: with -i; compat, listens: -C at the client, and
\* not at the server, whose listener then reads a header.
TestType == [udp : BOOLEAN, rate : Nat, time : BOOLEAN, amount : Nat, file : Int,
             interval : BOOLEAN, compat : BOOLEAN, listens : BOOLEAN]

ASSUME TransferAssumption ==
    /\ Tests \subseteq TestType
    /\ mBufLen \in Nat \ {0} /\ Header \in Nat /\ Header < mBufLen /\ ClientHdr \in Nat \ {0}
    /\ Word \in Nat \ {0} /\ Word > mBufLen
    /\ Busy \subseteq Nat /\ MaxBusy \in Nat /\ \A d \in Busy : d <= MaxBusy
    /\ Waits \subseteq Nat /\ MaxWrites \in Nat

VARIABLES
    test,
    pc,             \* "begin", "barrier", "stamp", "write", "delay", "test", "stop" or "done"
    now,            \* the clock, in microseconds
    lastPacketTime, \* timestamp of the last datagram's turn
    packetTime,
    mEndTime,       \* UDP: when the time is up
    timer,          \* TCP: when SIGALRM comes, -1 if not armed
    delay_target,   \* microseconds a datagram is to take
    delay,          \* what is left to wait
    mAmount,        \* bytes to go
    pos,            \* bytes of the file read
    sInterupted,
    totLen,         \* RunTCP's sum
    reported,       \* bytes in the packets reported
    written,        \* bytes written
    nobufs,         \* writes of a datagram that failed for want of buffers
    stamped,        \* datagrams stamped
    began,          \* when the loop began
    wire, reset,    \* TCP: bytes on their way, and whether the connection broke
    headerRead,     \* bytes the listener took for the header, -1 before
    received, serverReport  \* the server's totLen, and what it has reported (-1: nothing yet)

clock == <<now, lastPacketTime, packetTime, delay_target, delay, stamped, began>>
amounts == <<mAmount, pos, totLen, reported, written, nobufs>>
ends == <<mEndTime, timer, sInterupted>>
server == <<wire, reset, headerRead, received, serverReport>>
vars == <<test, pc, clock, amounts, ends, server>>

\* Bits of a datagram, times the microseconds of a second.
Exact == mBufLen * 8 * kMillion

\* (int) of a quotient of doubles: cut off, and where the rate divides it exactly
\* rounding may leave one less.  Constrained to [0,1] seconds; what does not fit an
\* int, or no rate at all, is out of that.
Quotients(rate) == {q \in {Exact \div rate, (Exact \div rate) - 1} : (q + 1) * rate >= Exact /\ q >= 0}
Targets(rate) ==
    IF rate = 0 THEN {kMillion} ELSE {IF q > kMillion THEN kMillion ELSE q : q \in Quotients(rate)}

Init ==
    /\ test \in Tests
    /\ pc = "begin" /\ now = 0
    /\ lastPacketTime = setnow(0) /\ packetTime = setnow(0)
    /\ mEndTime = setnow(0) /\ timer = -1 /\ sInterupted = FALSE
    /\ delay_target = 0 /\ delay = 0 /\ stamped = 0 /\ began = 0
    /\ mAmount = test.amount /\ pos = 0
    /\ totLen = 0 /\ reported = 0 /\ written = 0 /\ nobufs = 0
    /\ wire = 0 /\ reset = FALSE /\ headerRead = -1 /\ received = 0 /\ serverReport = -1

-----------------------------------------------------------------------------
(* The client.                                                             *)

\* The client header goes first, unless it is left out for an older server.
HeaderSent == IF test.udp \/ test.compat THEN 0 ELSE ClientHdr

\* InitiateServer; then the end and the rate of a UDP test are fixed, before the barrier.
Begin ==
    /\ pc = "begin"
    /\ wire' = HeaderSent
    /\ IF test.udp THEN delay_target' \in Targets(test.rate) ELSE UNCHANGED delay_target
    /\ \E lost \in Lost(test.amount) :
          mEndTime' = IF test.udp /\ test.time THEN add(setnow(now), test.amount, lost) ELSE mEndTime
    /\ pc' = "barrier"
    /\ UNCHANGED <<test, now, lastPacketTime, packetTime, delay, stamped, began, amounts,
                   timer, sInterupted, reset, headerRead, received, serverReport>>

\* InitReport waits for the parallel clients; then the clocks start.
StartClock ==
    /\ pc = "barrier"
    /\ \E d \in Waits : now' = now + d
    /\ lastPacketTime' = setnow(now') /\ began' = now'
    /\ timer' = IF ~test.udp /\ test.time /\ test.amount > 0 THEN now' + test.amount ELSE -1
    /\ pc' = IF test.udp THEN "stamp" ELSE "write"
    /\ UNCHANGED <<test, packetTime, delay_target, delay, stamped, amounts, mEndTime, sInterupted, server>>

\* Mutant: the clock of the rate is that of the end of the wait.
StampForgets ==
    LET adjust == delay_target + subUsec(lastPacketTime, packetTime') IN
    /\ pc = "stamp" /\ stamped < MaxWrites
    /\ packetTime' = setnow(now) /\ lastPacketTime' = packetTime'
    /\ delay' = IF adjust > 0 THEN adjust ELSE 0
    /\ stamped' = stamped + 1
    /\ pc' = "write"
    /\ UNCHANGED <<test, now, delay_target, began, amounts, ends, server>>

Stamp ==
    LET adjust == delay_target + subUsec(lastPacketTime, packetTime') IN
    /\ pc = "stamp" /\ stamped < MaxWrites
    /\ packetTime' = setnow(now) /\ lastPacketTime' = packetTime'
    /\ delay' = IF adjust > 0 \/ delay > 0 THEN delay + adjust ELSE delay
    /\ stamped' = stamped + 1
    /\ pc' = "write"
    /\ UNCHANGED <<test, now, delay_target, began, amounts, ends, server>>

\* Extractor_getNextDataBlock: fread meets the end only by asking for more.
Extractor_size == IF test.udp THEN mBufLen - Header ELSE mBufLen
getNextDataBlock ==
    pos' = CASE test.file < 0 -> pos
             [] test.file >= 0 /\ pos + Extractor_size <= test.file -> pos + Extractor_size
             [] test.file >= 0 /\ pos + Extractor_size > test.file -> test.file + 1
Extractor_canRead == pos <= test.file \/ test.file < 0

\* mSettings->mAmount -= currLen, a long, may be -1.
LessAmount(len) == mAmount' = IF test.time THEN mAmount ELSE (mAmount - len) % Word

\* ENOBUFS: nothing is sent, and a length of -1 is reported.
WriteDatagram(len) ==
    /\ reported' = (reported + len) % Word
    /\ written' = IF len > 0 THEN written + len ELSE written
    /\ nobufs' = IF len > 0 THEN nobufs ELSE nobufs + 1
    /\ LessAmount(len)
    /\ UNCHANGED <<totLen, packetTime, wire>>

\* Mutant: with -i the last write is left to the total.
WriteStreamLast(len) ==
    /\ totLen' = (totLen + len) % Word /\ written' = written + len /\ wire' = wire + len
    /\ reported' = IF test.interval /\ ~sInterupted THEN (reported + len) % Word ELSE reported
    /\ packetTime' = setnow(now')
    /\ LessAmount(len)
    /\ UNCHANGED nobufs

WriteStream(len) ==
    /\ totLen' = (totLen + len) % Word /\ written' = written + len /\ wire' = wire + len
    /\ reported' = IF test.interval THEN (reported + len) % Word ELSE reported
    /\ packetTime' = setnow(now')
    /\ LessAmount(len)
    /\ UNCHANGED nobufs

\* A blocking write is cut short only by a signal.
Written == IF sInterupted THEN 1 .. mBufLen ELSE {mBufLen}

Write ==
    /\ pc = "write" /\ written < MaxWrites * mBufLen
    /\ \E d \in Busy : now' = now + d
    /\ getNextDataBlock
    /\ \/ test.udp /\ \E len \in {mBufLen, -1} : WriteDatagram(len)
       \/ ~test.udp /\ ~reset /\ \E len \in Written : WriteStream(len)
    /\ pc' = IF test.udp THEN "delay" ELSE "test"
    /\ UNCHANGED <<test, lastPacketTime, delay_target, delay, stamped, began, ends, reset, headerRead, received, serverReport>>

\* Refused, reset or interrupted with nothing written: the loop is left.
WriteFails ==
    /\ pc = "write" /\ (test.udp \/ reset \/ sInterupted)
    /\ getNextDataBlock
    /\ pc' = "stop"
    /\ UNCHANGED <<test, clock, mAmount, totLen, reported, written, nobufs, ends, server>>

\* delay_loop: until its end is not after the clock.
Delay ==
    /\ pc = "delay"
    /\ IF delay > 0
       THEN \E lost \in Lost(delay), d \in Busy : now' = Usec(add(setnow(now), delay, lost)) + d
       ELSE UNCHANGED now
    /\ pc' = "test"
    /\ UNCHANGED <<test, lastPacketTime, packetTime, delay_target, delay, stamped, began, amounts, ends, server>>

Over ==
    \/ sInterupted \/ ~Extractor_canRead
    \/ ~test.time /\ mAmount = 0
    \/ test.udp /\ test.time /\ before(mEndTime, packetTime)

TestLoop ==
    /\ pc = "test"
    /\ pc' = CASE Over -> "stop" [] ~Over /\ test.udp -> "stamp" [] ~Over /\ ~test.udp -> "write"
    /\ UNCHANGED <<test, clock, amounts, ends, server>>

\* CloseReport; without -i a TCP stream is reported as one packet.
Stop ==
    /\ pc = "stop"
    /\ packetTime' = setnow(now)
    /\ reported' = IF ~test.udp /\ ~test.interval THEN (reported + totLen) % Word ELSE reported
    /\ pc' = "done"
    /\ UNCHANGED <<test, now, lastPacketTime, delay_target, delay, stamped, began, mAmount, pos, totLen,
                   written, nobufs, ends, server>>

\* The user's signal and the timer's have one handler and set one flag; a second
\* one may end the process (ThreadCount).
Interrupt ==
    /\ ~sInterupted /\ pc # "done"
    /\ sInterupted' = TRUE
    /\ UNCHANGED <<test, pc, clock, amounts, mEndTime, timer, server>>

Alarm ==
    /\ ~sInterupted /\ pc # "done" /\ timer >= 0 /\ now >= timer
    /\ sInterupted' = TRUE /\ timer' = -1
    /\ UNCHANGED <<test, pc, clock, amounts, mEndTime, server>>

Client == Begin \/ StartClock \/ Stamp \/ Write \/ WriteFails \/ Delay \/ TestLoop \/ Stop

-----------------------------------------------------------------------------
(* The connection and the server of a TCP test.                            *)

Reset ==
    /\ ~test.udp /\ ~reset /\ pc \notin {"begin", "barrier", "done"}
    /\ reset' = TRUE /\ wire' = 0
    /\ UNCHANGED <<test, pc, clock, amounts, ends, headerRead, received, serverReport>>

\* Listener::Run reads the header, if it is to, before it starts the server: what
\* one recv gives, and nothing at the end or of a broken connection.
RecvHeader ==
    /\ ~test.udp /\ headerRead = -1 /\ pc # "begin"
    /\ \/ test.listens /\ \E n \in 1 .. ClientHdr : n <= wire /\ headerRead' = n /\ wire' = wire - n
       \/ /\ ~test.listens \/ reset \/ (wire = 0 /\ pc = "done")
          /\ headerRead' = 0 /\ UNCHANGED wire
    /\ UNCHANGED <<test, pc, clock, amounts, ends, reset, received, serverReport>>

Reading == headerRead # -1 /\ serverReport = -1

\* Server::Run: totLen += currLen, what recv returned: bytes, 0 at the end, or -1.
Recv ==
    /\ Reading /\ wire > 0
    /\ LET len == IF wire < mBufLen THEN wire ELSE mBufLen
       IN  received' = (received + len) % Word /\ wire' = wire - len
    /\ UNCHANGED <<test, pc, clock, amounts, ends, reset, headerRead, serverReport>>

\* What broke a connection is told once: here, or to the listener.
RecvEnd ==
    /\ Reading
    /\ \/ (reset \/ pc = "done") /\ wire = 0 /\ received' = received
       \/ reset /\ received' = (received - 1) % Word
    /\ serverReport' = received'
    /\ UNCHANGED <<test, pc, clock, amounts, ends, wire, reset, headerRead>>

Idle ==
    /\ \/ pc = "done" /\ (test.udp \/ serverReport # -1)
       \/ pc = "stamp" /\ stamped = MaxWrites
       \/ pc = "write" /\ written >= MaxWrites * mBufLen
    /\ UNCHANGED vars

Next == Client \/ Interrupt \/ Alarm \/ Reset \/ RecvHeader \/ Recv \/ RecvEnd \/ Idle

Spec == Init /\ [][Next]_vars

-----------------------------------------------------------------------------
(* Properties.                                                             *)

\* Microseconds from the start of the loop to the stamp of the last datagram.
Elapsed == Usec(packetTime) - began

\* A datagram is never sent ahead of the rate asked for by more than a microsecond
\* for each one before it, and one for the wait, however long single turns took.  A
\* rate of less than one in a second is raised to that, and then kept.
NeverFaster ==
    /\ test.rate * kMillion >= Exact => test.rate * (Elapsed + stamped) >= Exact * (stamped - 1)
    /\ test.rate * kMillion < Exact => Elapsed >= kMillion * (stamped - 1) - 1

\* If turns take less than their share, none is late by more than its own turn:
\* nothing that was lost on the way accumulates.
Quick == 2 * MaxBusy <= delay_target
KeepsPace == Quick => test.rate * (Elapsed - 2 * MaxBusy) <= Exact * (stamped - 1)

PacedAsAsked == test.udp /\ stamped > 0 /\ pc # "done" => NeverFaster /\ KeepsPace

\* Why: what is left to wait is never less than what the client is ahead of the
\* rate, and if turns are quick it is exactly that.
due == began + stamped * delay_target
Rest == IF delay > 0 THEN delay ELSE 0
InLoop == pc \in {"stamp", "write", "delay", "test", "stop"}
LastTurn == Usec(lastPacketTime)

ClockTypes ==
    /\ test \in Tests /\ stamped \in Nat
    /\ pc \in {"begin", "barrier", "stamp", "write", "delay", "test", "stop", "done"}
    /\ now \in Int /\ delay \in Int /\ began \in Int
    /\ lastPacketTime \in Timestamps

TurnInv ==
    /\ pc \in {"begin", "barrier"} => delay = 0 /\ stamped = 0
    /\ delay_target \in IF pc = "begin" THEN {0} ELSE Targets(test.rate)
    /\ pc = "write" => now = LastTurn
    /\ pc = "delay" => now \in LastTurn .. LastTurn + MaxBusy
    /\ pc \in {"stamp", "test"} => now >= due - 1 /\ now \in LastTurn .. LastTurn + Rest + 2 * MaxBusy

RateInv ==
    InLoop => /\ due <= LastTurn + delay
              /\ Quick => due = LastTurn + delay /\ LastTurn <= due
              /\ stamped > 0 => /\ packetTime = lastPacketTime /\ LastTurn >= due - delay_target - 1
                                /\ Quick => LastTurn <= due - delay_target + 2 * MaxBusy

PaceInv == test.udp => ClockTypes /\ TurnInv /\ RateInv

\* What the client reports is what it wrote (less one for each full buffer), with
\* -i and without; an amount that is a multiple of the length, other than 0, is
\* never exceeded; a file is sent to its end, in buffers of which the last is filled
\* up; and the server of an unbroken connection reports the same total, if the
\* listener took exactly the header off that the client put ahead of it, and else
\* what it left, or less what it took too much.
HeaderTaken == IF headerRead < 0 THEN 0 ELSE headerRead
Undisturbed == nobufs = 0 /\ ~sInterupted
TotalsAgree ==
    /\ pc = "done" => reported = (written - nobufs) % Word
    /\ ~test.time /\ test.amount > 0 /\ test.amount % mBufLen = 0 /\ Undisturbed =>
           written <= test.amount
    /\ ~Extractor_canRead /\ Undisturbed /\ ~reset /\ pc = "done" =>
           LET blocks == test.file \div Extractor_size
           IN  written \in {blocks * mBufLen, (blocks + 1) * mBufLen}
    /\ serverReport # -1 /\ ~reset =>
           pc = "done" /\ serverReport = (reported + HeaderSent - HeaderTaken) % Word

\* Why: the sums are kept after every write, the amount left is tested after each,
\* a file is at a boundary of a block or has been read to its end, and the bytes of
\* a connection are received, taken for the header or on their way.
AmountTypes ==
    /\ test \in Tests
    /\ written \in Nat /\ nobufs \in Nat /\ mAmount \in Nat /\ pos \in Nat /\ wire \in Nat
    /\ reported \in 0 .. Word - 1 /\ totLen \in 0 .. Word - 1 /\ received \in 0 .. Word - 1
    /\ sInterupted \in BOOLEAN /\ reset \in BOOLEAN
    /\ headerRead \in -1 .. ClientHdr

ReportedInv ==
    /\ test.udp => reported = (written - nobufs) % Word
    /\ ~test.udp =>
         /\ nobufs = 0 /\ totLen = written % Word
         /\ reported = IF test.interval \/ pc = "done" THEN written % Word ELSE 0

AmountInv ==
    ~test.time /\ test.amount > 0 /\ test.amount % mBufLen = 0 /\ Undisturbed =>
        /\ written <= test.amount
        /\ pc \in {"begin", "barrier", "stamp", "write"} => written < test.amount
        /\ mAmount % Word = (test.amount - written) % Word
        /\ pc \in {"delay", "test"} => mAmount < Word

\* With k full buffers written.
FileInv(k) ==
    \/ pos <= test.file /\ (pos = Extractor_size * k \/ pc \in {"stop", "done"})
    \/ /\ pos = test.file + 1 /\ pc \in {"delay", "test", "stop", "done"}
       /\ k - (test.file \div Extractor_size) \in {0, 1}

BlocksInv ==
    Undisturbed => \E k \in Nat : written = mBufLen * k /\ (test.file >= 0 => FileInv(k))

ServerInv ==
    /\ test.udp => serverReport = -1 /\ headerRead = -1 /\ ~reset
    /\ headerRead = -1 => serverReport = -1
    /\ pc = "begin" => wire = 0 /\ received = 0 /\ headerRead = -1 /\ written = 0
    /\ ~test.udp /\ ~reset /\ pc # "begin" =>
         (received + wire) % Word = (written + HeaderSent - HeaderTaken) % Word
    /\ ~test.udp /\ ~reset =>
         /\ serverReport # -1 => pc = "done" /\ wire = 0 /\ serverReport = received

TotalsInv == AmountTypes /\ ReportedInv /\ AmountInv /\ BlocksInv /\ ServerInv

\* Locale.c: "number of bytes to transmit (instead of -t)".  The loop ends only
\* where the unsigned amount is met exactly.
AmountEnds == ~test.time => written < test.amount + mBufLen

\* Locale.c: "time in seconds to transmit for".  The wait at the barrier is part of it.
LastsAsAsked ==
    test.udp /\ test.time /\ test.file < 0 /\ Undisturbed /\ pc = "done" /\ written = stamped * mBufLen =>
        now - began >= test.amount

\* Locale.c: "bandwidth to send at in bits/sec".  What the cast cuts off each
\* datagram's time adds up.
RateKept ==
    test.udp /\ stamped > 0 /\ pc # "done" /\ test.rate * kMillion >= Exact =>
        test.rate * (Elapsed + 1) >= Exact * (stamped - 1)
=============================================================================

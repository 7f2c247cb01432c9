--------------------------- MODULE Transfer_proofs ---------------------------
(* The rate of a UDP client holds for every rate, every duration of its     *)
(* turns and any number of datagrams; the totals of both ends agree for     *)
(* every amount, buffer and range of the unsigned sums.                     *)
EXTENDS Transfer, TLAPS

USE MillionAssumption

\* A time read from the clock stands for itself, and is a timestamp.
LEMMA SetNow ==
    ASSUME NEW t \in Int
    PROVE  setnow(t) \in Timestamps /\ Usec(setnow(t)) = t
  <1>1. (t \div kMillion) * kMillion + (t % kMillion) = t /\ t % kMillion \in 0 .. kMillion - 1
    BY SMT
  <1>2. t \div kMillion \in Int
    BY SMT
  <1> QED
    BY <1>1, <1>2 DEF setnow, Timestamps, Usec

\* subUsec is the difference of what the timestamps stand for.
LEMMA SubUsec ==
    ASSUME NEW a \in Timestamps, NEW b \in Timestamps
    PROVE  subUsec(a, b) = Usec(a) - Usec(b) /\ Usec(a) \in Int /\ Usec(b) \in Int
  <1>1. a.sec \in Int /\ a.usec \in Int /\ b.sec \in Int /\ b.usec \in Int
    BY DEF Timestamps
  <1> QED
    BY <1>1 DEF subUsec, Usec

\* add carries into the seconds, and is short of the sum by what the cast loses.
LEMMA AddIsSum ==
    ASSUME NEW a \in Timestamps, NEW u \in Nat, NEW lost \in Lost(u)
    PROVE  /\ Usec(add(a, u, lost)) = Usec(a) + u - lost
           /\ lost \in {0, 1}
  <1> DEFINE q == u \div kMillion
             r == u % kMillion
             carry == IF a.usec + r - lost >= kMillion THEN 1 ELSE 0
  <1>1. q \in Int /\ r \in Int /\ q * kMillion + r = u
    BY SMT
  <1>2. a.sec \in Int /\ a.usec \in Int
    BY DEF Timestamps
  <1>3. lost \in {0, 1}
    BY DEF Lost
  <1>4. add(a, u, lost) = [sec |-> a.sec + q + carry, usec |-> (a.usec + r - lost) - carry * kMillion]
    BY Zenon DEF add
  <1>5. carry \in Int
    OBVIOUS
  <1> HIDE DEF q, r, carry
  <1>6. (a.sec + q + carry) * kMillion + ((a.usec + r - lost) - carry * kMillion)
          = (a.sec * kMillion + a.usec) + (q * kMillion + r) - lost
    BY <1>1, <1>2, <1>3, <1>5
  <1> QED
    BY <1>1, <1>3, <1>4, <1>6 DEF Usec

\* before compares what timestamps stand for, whatever was carried.
THEOREM BeforeIsLess ==
    ASSUME NEW a \in Timestamps, NEW b \in Timestamps
    PROVE  before(a, b) <=> Usec(a) < Usec(b)
  <1>1. /\ a.sec \in Int /\ b.sec \in Int
        /\ a.usec \in 0 .. kMillion - 1 /\ b.usec \in 0 .. kMillion - 1
    BY DEF Timestamps
  <1>2. ASSUME NEW x \in Int, NEW y \in Int, NEW u \in 0 .. kMillion - 1, NEW w \in 0 .. kMillion - 1, x < y
        PROVE  x * kMillion + u < y * kMillion + w
    <2>1. (x + 1) * kMillion <= y * kMillion
      BY <1>2
    <2>2. (x + 1) * kMillion = x * kMillion + kMillion
      OBVIOUS
    <2> QED
      BY <2>1, <2>2
  <1>3. CASE a.sec < b.sec
    BY <1>1, <1>2, <1>3 DEF before, Usec
  <1>4. CASE a.sec > b.sec
    <2>1. Usec(b) < Usec(a)
      BY <1>1, <1>2, <1>4 DEF Usec
    <2>2. ~before(a, b)
      BY <1>1, <1>4 DEF before
    <2> QED
      BY <2>1, <2>2, SubUsec
  <1>5. CASE a.sec = b.sec
    BY <1>1, <1>5 DEF before, Usec
  <1> QED
    BY <1>1, <1>3, <1>4, <1>5

-----------------------------------------------------------------------------
(* Division.                                                               *)

LEMMA UniqueDivision ==
    ASSUME NEW W \in Nat \ {0}, NEW q \in Int, NEW p \in Int, NEW r \in 0 .. W - 1, NEW s \in 0 .. W - 1,
           W * q + r = W * p + s
    PROVE  q = p /\ r = s
  <1>1. W * (q - p) = s - r
    OBVIOUS
  <1>2. \A n \in Nat : n >= 1 => W * n >= W
    OBVIOUS
  <1>3. CASE q > p
    <2>1. q - p \in Nat /\ q - p >= 1
      BY <1>3
    <2>2. W * (q - p) >= W
      BY <1>2, <2>1
    <2> QED
      BY <1>1, <2>2
  <1>4. CASE q < p
    <2>1. p - q \in Nat /\ p - q >= 1
      BY <1>4
    <2>2. W * (p - q) >= W /\ W * (p - q) = r - s
      BY <1>2, <2>1
    <2> QED
      BY <2>2
  <1> QED
    BY <1>1, <1>3, <1>4

LEMMA DivMod ==
    ASSUME NEW W \in Nat \ {0}, NEW a \in Int
    PROVE  /\ a \div W \in Int /\ a % W \in 0 .. W - 1
           /\ a = W * (a \div W) + (a % W)
  <1>1. a \div W \in Int
    OBVIOUS
  <1>2. a % W \in 0 .. W - 1
    OBVIOUS
  <1>3. a = W * (a \div W) + (a % W)
    OBVIOUS
  <1> QED
    BY <1>1, <1>2, <1>3

LEMMA DivisionIs ==
    ASSUME NEW W \in Nat \ {0}, NEW q \in Int, NEW r \in 0 .. W - 1, NEW a \in Int, a = W * q + r
    PROVE  a \div W = q /\ a % W = r
  <1> DEFINE p == a \div W
             s == a % W
  <1>1. p \in Int /\ s \in 0 .. W - 1 /\ a = W * p + s
    BY DivMod
  <1> HIDE DEF p, s
  <1>2. W * p + s = W * q + r
    BY <1>1
  <1>3. p = q /\ s = r
    BY <1>1, <1>2, UniqueDivision
  <1> QED
    BY <1>3 DEF p, s

LEMMA SmallMod ==
    ASSUME NEW W \in Nat \ {0}, NEW a \in 0 .. W - 1
    PROVE  a % W = a
  <1>1. a = W * 0 + a
    OBVIOUS
  <1> QED
    BY <1>1, DivisionIs

-----------------------------------------------------------------------------
USE TransferAssumption

\* (int) of the time of a datagram is at most that time, and short of it by a
\* microsecond at most; of a rate below one in a second it is the second.
LEMMA TargetIs ==
    ASSUME NEW rate \in Nat, NEW T \in Targets(rate)
    PROVE  /\ T \in Nat /\ rate * T <= Exact
           /\ rate * kMillion >= Exact => rate * T + rate >= Exact
           /\ rate * kMillion < Exact => T = kMillion
  <1> DEFINE E == Exact
  <1>1. E \in Nat /\ E > 0
    <2>1. mBufLen * 8 \in Nat /\ mBufLen * 8 > 0
      OBVIOUS
    <2>2. \A n \in Nat : n > 0 => n * kMillion \in Nat /\ n * kMillion > 0
      BY SMT
    <2> QED
      BY <2>1, <2>2 DEF Exact
  <1>2. CASE rate = 0
    <2>1. T = kMillion
      BY <1>2 DEF Targets
    <2> QED
      BY <1>1, <1>2, <2>1
  <1>3. CASE rate # 0
    <2> DEFINE p == E \div rate
    <2>1. p \in Int /\ E % rate \in 0 .. rate - 1 /\ E = rate * p + (E % rate)
      BY <1>1, <1>3, DivMod
    <2>2. PICK q \in {p, p - 1} :
             /\ (q + 1) * rate >= E /\ q >= 0
             /\ T = IF q > kMillion THEN kMillion ELSE q
      <3>1. Targets(rate) = {IF q > kMillion THEN kMillion ELSE q : q \in Quotients(rate)}
        BY <1>3 DEF Targets
      <3>2. Quotients(rate) = {q \in {p, p - 1} : (q + 1) * rate >= E /\ q >= 0}
        BY DEF Quotients
      <3> QED
        BY <3>1, <3>2, Zenon
    <2> HIDE DEF p, E
    <2>3. q \in Nat /\ rate \in Nat /\ (q + 1) * rate = rate * q + rate
      BY <2>1, <2>2
    <2>4. rate * q <= E
      <3>1. rate * p <= E
        BY <2>1
      <3>2. rate * (p - 1) = rate * p - rate
        BY <2>1
      <3> QED
        BY <2>1, <2>2, <3>1, <3>2
    <2>5. \A m \in Nat : m >= q => rate * m >= rate * q
      <3>1. SUFFICES ASSUME NEW m \in Nat, m >= q PROVE rate * m >= rate * q
        OBVIOUS
      <3>2. m - q \in Nat /\ rate * (m - q) >= 0 /\ rate * m = rate * q + rate * (m - q)
        BY <2>3, <3>1
      <3> QED
        BY <2>3, <3>2
    <2>6. CASE q > kMillion
      <3>1. rate * q >= rate * kMillion + rate
        <4>1. q - (kMillion + 1) \in Nat
          BY <2>3, <2>6
        <4>2. rate * (q - (kMillion + 1)) >= 0
          BY <2>3, <4>1
        <4>3. rate * q = rate * kMillion + rate + rate * (q - (kMillion + 1))
          BY <2>3
        <4> QED
          BY <2>3, <4>2, <4>3
      <3>2. rate * kMillion \in Nat /\ rate * q \in Nat
        BY <2>3
      <3>3. rate * kMillion < E
        BY <1>1, <1>3, <2>3, <2>4, <3>1, <3>2 DEF E
      <3> QED
        BY <1>1, <2>2, <2>6, <3>2, <3>3 DEF E
    <2>7. CASE q <= kMillion
      <3>1. T = q
        BY <2>2, <2>3, <2>7
      <3>2. rate * q \in Nat /\ rate * kMillion \in Nat
        BY <2>3
      <3>3. rate * q + rate >= E
        BY <2>2, <2>3
      <3>4. ASSUME rate * kMillion < E PROVE q = kMillion
        <4>1. CASE q = kMillion
          BY <4>1
        <4>2. CASE q < kMillion
          <5>1. rate * kMillion >= rate * (q + 1)
            <6>1. kMillion - (q + 1) \in Nat
              BY <2>3, <4>2
            <6>2. rate * (kMillion - (q + 1)) >= 0
              BY <2>3, <6>1
            <6>3. rate * kMillion = rate * (q + 1) + rate * (kMillion - (q + 1))
              BY <2>3
            <6> QED
              BY <2>3, <6>2, <6>3
          <5> QED
            BY <1>1, <2>3, <3>2, <3>3, <3>4, <5>1 DEF E
        <4> QED
          BY <2>3, <2>7, <4>1, <4>2
      <3> QED
        BY <1>1, <2>3, <2>4, <3>1, <3>3, <3>4 DEF E
    <2> QED
      BY <2>3, <2>6, <2>7
  <1> QED
    BY <1>2, <1>3

\* With one datagram more, one more time is due.
LEMMA DueGrows ==
    ASSUME NEW b \in Int, NEW n \in Int, NEW T \in Int
    PROVE  b + n * T \in Int /\ b + (n + 1) * T = (b + n * T) + T
OBVIOUS

LEMMA DueType ==
    ASSUME ClockTypes, TurnInv
    PROVE  delay_target \in Nat /\ due \in Int
  <1>1. test.rate \in Nat /\ stamped \in Nat /\ began \in Int
    BY DEF ClockTypes, TestType
  <1>2. delay_target \in Nat
    BY <1>1, TargetIs DEF TurnInv
  <1> QED
    BY <1>1, <1>2, DueGrows DEF due

\* The loop begins with nothing sent, nothing due and nothing to make up for.
LEMMA InitPace == Init => PaceInv
BY SetNow DEF Init, PaceInv, ClockTypes, TurnInv, RateInv, InLoop

LEMMA SameDue == UNCHANGED <<delay_target, stamped, began>> => UNCHANGED <<due, Quick>>
BY DEF due, Quick

\* Only the steps of the loop change the clock or the place in the loop.
LEMMA SamePace ==
    ASSUME PaceInv, UNCHANGED <<test, pc, clock>>
    PROVE  PaceInv'
  <1>1. UNCHANGED <<due, Quick>>
    BY SameDue DEF clock
  <1> QED
    BY <1>1 DEF PaceInv, ClockTypes, TurnInv, RateInv, InLoop, LastTurn, Rest, clock

\* Before the barrier the rate is turned into a time.
LEMMA BeginPace ==
    ASSUME PaceInv, Begin
    PROVE  PaceInv'
  <1> SUFFICES ASSUME test.udp PROVE (ClockTypes /\ TurnInv /\ RateInv)'
    BY DEF Begin, PaceInv
  <1>1. /\ pc = "begin" /\ pc' = "barrier" /\ delay_target' \in Targets(test.rate)
        /\ UNCHANGED <<test, now, lastPacketTime, packetTime, delay, stamped, began>>
    BY DEF Begin
  <1> QED
    BY <1>1 DEF PaceInv, ClockTypes, TurnInv, RateInv, InLoop

\* After the barrier the rate starts from now.
LEMMA StartPace ==
    ASSUME PaceInv, StartClock
    PROVE  PaceInv'
  <1> SUFFICES ASSUME test.udp PROVE (ClockTypes /\ TurnInv /\ RateInv)'
    BY DEF StartClock, PaceInv
  <1>1. PICK n \in Int : now' = n /\ began' = n
    BY DEF PaceInv, ClockTypes, StartClock
  <1>2. lastPacketTime' \in Timestamps /\ LastTurn' = n
    BY <1>1, SetNow DEF StartClock, LastTurn, Usec
  <1>3. /\ delay' = 0 /\ stamped' = 0 /\ pc' = "stamp" /\ test' = test
        /\ delay_target' = delay_target /\ delay_target \in Targets(test.rate)
    BY DEF PaceInv, TurnInv, StartClock
  <1>9. due' = n
    <2>1. delay_target \in Nat
      BY <1>3, TargetIs DEF PaceInv, ClockTypes, TestType
    <2> QED
      BY <1>1, <1>3, <2>1 DEF due
  <1>4. ClockTypes'
    BY <1>1, <1>2, <1>3 DEF PaceInv, ClockTypes
  <1>5. Rest' = 0 /\ MaxBusy \in Nat
    BY <1>3 DEF Rest
  <1>6. n >= n - 1 /\ n \in n .. n + 0 + 2 * MaxBusy /\ n <= n + 0 /\ n = n + 0
    BY <1>5
  <1>7. TurnInv'
    BY <1>1, <1>2, <1>3, <1>5, <1>6, <1>9 DEF TurnInv
  <1>8. RateInv'
    BY <1>1, <1>2, <1>3, <1>6, <1>9 DEF RateInv
  <1> QED
    BY <1>4, <1>7, <1>8

\* The turn's difference goes to delay, unless it is late and nothing is owed.
LEMMA StampPace ==
    ASSUME PaceInv, Stamp
    PROVE  PaceInv'
  <1> SUFFICES ASSUME test.udp PROVE (ClockTypes /\ TurnInv /\ RateInv)'
    BY DEF Stamp, PaceInv
  <1> DEFINE T == delay_target
             last == LastTurn
  <1>1. ClockTypes /\ TurnInv /\ T \in Nat /\ due \in Int
    BY DueType DEF PaceInv
  <1>2. lastPacketTime' \in Timestamps /\ LastTurn' = now /\ packetTime' = lastPacketTime'
    BY <1>1, SetNow DEF Stamp, ClockTypes, LastTurn, Usec
  <1>3. last \in Int /\ subUsec(lastPacketTime, packetTime') = last - now
    BY <1>1, <1>2, SubUsec DEF ClockTypes, LastTurn, Usec
  <1>4. delay' = IF T + (last - now) > 0 \/ delay > 0 THEN delay + (T + (last - now)) ELSE delay
    BY <1>3 DEF Stamp
  <1>5. /\ stamped' = stamped + 1 /\ now' = now /\ test' = test /\ pc' = "write"
        /\ T' = T /\ began' = began /\ pc = "stamp"
    BY DEF Stamp
  <1>12. due' = due + T
    BY <1>1, <1>5, DueGrows DEF due, ClockTypes
  <1>6. /\ now >= due - 1 /\ now >= last /\ now <= last + Rest + 2 * MaxBusy
        /\ due <= last + delay
        /\ Quick => due = last + delay /\ last <= due
    BY <1>1, <1>3, <1>5 DEF PaceInv, TurnInv, RateInv, InLoop
  <1> HIDE DEF T, last
  <1>7. due' <= now + delay'
    BY <1>1, <1>3, <1>4, <1>5, <1>6, <1>12 DEF ClockTypes
  <1>8. ASSUME 2 * MaxBusy <= T
        PROVE  due' = now + delay' /\ now <= due' /\ now <= due' - T + 2 * MaxBusy
    <2>1. due = last + delay /\ last <= due
      BY <1>6, <1>8 DEF Quick, T
    <2>2. now <= due + 2 * MaxBusy
      BY <1>1, <1>3, <1>6, <2>1 DEF ClockTypes, Rest
    <2> QED
      BY <1>1, <1>3, <1>4, <1>5, <1>6, <1>8, <1>12, <2>1, <2>2 DEF ClockTypes
  <1>9. now >= due' - T' - 1
    BY <1>1, <1>5, <1>6, <1>12 DEF ClockTypes
  <1>10. delay' \in Int /\ due' \in Int /\ stamped' \in Nat
    BY <1>1, <1>3, <1>4, <1>5, <1>12 DEF ClockTypes
  <1>11. (Quick' => 2 * MaxBusy <= T) /\ delay_target' = T /\ delay_target \in Targets(test.rate)
    BY <1>1, <1>5 DEF Quick, T, TurnInv
  <1>13. ClockTypes'
    BY <1>1, <1>2, <1>5, <1>10 DEF ClockTypes
  <1>14. TurnInv'
    BY <1>2, <1>5, <1>11 DEF TurnInv, T
  <1>15. RateInv'
    BY <1>2, <1>5, <1>7, <1>8, <1>9, <1>11 DEF RateInv
  <1> QED
    BY <1>13, <1>14, <1>15

\* A write takes some time of the turn.
LEMMA WritePace ==
    ASSUME PaceInv, Write
    PROVE  PaceInv'
  <1> SUFFICES ASSUME test.udp PROVE (ClockTypes /\ TurnInv /\ RateInv)'
    BY DEF Write, PaceInv
  <1>1. PICK d \in Busy : now' = now + d
    BY DEF Write
  <1>2. d \in Nat /\ d <= MaxBusy
    BY <1>1
  <1>3. /\ UNCHANGED <<test, lastPacketTime, packetTime, delay_target, delay, stamped, began, due, Quick>>
        /\ pc = "write" /\ pc' = "delay"
    BY SameDue DEF Write, WriteDatagram
  <1>4. ClockTypes /\ LastTurn \in Int
    BY SubUsec DEF PaceInv, ClockTypes, LastTurn
  <1> QED
    BY <1>1, <1>2, <1>3, <1>4
    DEF PaceInv, ClockTypes, TurnInv, RateInv, InLoop, LastTurn

\* A wait ends no more than the lost microsecond early.
LEMMA DelayPace ==
    ASSUME PaceInv, Delay
    PROVE  PaceInv'
  <1> SUFFICES ASSUME test.udp PROVE (ClockTypes /\ TurnInv /\ RateInv)'
    BY DEF Delay, PaceInv
  <1>1. ClockTypes /\ LastTurn \in Int /\ due \in Int
    BY SubUsec, DueType DEF PaceInv, ClockTypes, LastTurn
  <1>2. /\ UNCHANGED <<test, lastPacketTime, packetTime, delay_target, delay, stamped, began, due, Quick>>
        /\ pc = "delay" /\ pc' = "test"
        /\ now >= LastTurn /\ now <= LastTurn + MaxBusy /\ due <= LastTurn + delay
    BY <1>1, SameDue DEF Delay, PaceInv, ClockTypes, TurnInv, RateInv, InLoop
  <1>3. CASE delay > 0
    <2>1. PICK lost \in Lost(delay), d \in Busy : now' = Usec(add(setnow(now), delay, lost)) + d
      BY <1>3 DEF Delay
    <2>2. d \in Nat /\ d <= MaxBusy /\ delay \in Nat
      BY <1>1, <1>3, <2>1 DEF ClockTypes
    <2>3. now' = now + delay - lost + d /\ lost \in {0, 1}
      BY <1>1, <2>1, <2>2, SetNow, AddIsSum DEF ClockTypes
    <2>4. now' >= due - 1 /\ now' >= LastTurn /\ now' <= LastTurn + delay + 2 * MaxBusy /\ now' \in Int
      BY <1>1, <1>2, <1>3, <2>2, <2>3 DEF ClockTypes
    <2> QED
      BY <1>1, <1>2, <1>3, <2>4
      DEF PaceInv, ClockTypes, TurnInv, RateInv, InLoop, LastTurn, Rest
  <1>4. CASE ~(delay > 0)
    <2>1. now' = now
      BY <1>4 DEF Delay
    <2>2. now' >= due - 1 /\ now' <= LastTurn + 2 * MaxBusy
      BY <1>1, <1>2, <1>4, <2>1 DEF ClockTypes
    <2> QED
      BY <1>1, <1>2, <1>4, <2>1, <2>2
      DEF PaceInv, ClockTypes, TurnInv, RateInv, InLoop, LastTurn, Rest
  <1> QED
    BY <1>3, <1>4

\* Every step of the client, the network and the server keeps the pace.
LEMMA StepPace == PaceInv /\ [Next]_vars => PaceInv'
  <1> SUFFICES ASSUME PaceInv, [Next]_vars
               PROVE  PaceInv'
    OBVIOUS
  <1>1. CASE Begin
    BY <1>1, BeginPace
  <1>2. CASE StartClock
    BY <1>2, StartPace
  <1>3. CASE Stamp
    BY <1>3, StampPace
  <1>4. CASE Write
    BY <1>4, WritePace
  <1>5. CASE WriteFails
    <2>1. UNCHANGED <<due, Quick>>
      BY <1>5, SameDue DEF WriteFails, clock
    <2> QED
      BY <1>5, <2>1 DEF WriteFails, PaceInv, ClockTypes, TurnInv, RateInv, InLoop, clock, LastTurn
  <1>6. CASE Delay
    BY <1>6, DelayPace
  <1>7. CASE TestLoop
    <2>1. UNCHANGED <<due, Quick>>
      BY <1>7, SameDue DEF TestLoop, clock
    <2> QED
      BY <1>7, <2>1 DEF TestLoop, PaceInv, ClockTypes, TurnInv, RateInv, InLoop, clock, LastTurn, Rest
  <1>8. CASE Stop
    <2>1. UNCHANGED <<due, Quick>>
      BY <1>8, SameDue DEF Stop
    <2> QED
      BY <1>8, <2>1 DEF Stop, PaceInv, ClockTypes, TurnInv, RateInv, InLoop, LastTurn
  <1>9. CASE Interrupt \/ Alarm \/ Reset \/ RecvHeader \/ Recv \/ RecvEnd \/ Idle \/ UNCHANGED vars
    <2>1. UNCHANGED <<test, pc, clock>>
      BY <1>9 DEF Interrupt, Alarm, Reset, RecvHeader, Recv, RecvEnd, Idle, vars
    <2> QED
      BY <2>1, SamePace
  <1> QED
    BY <1>1, <1>2, <1>3, <1>4, <1>5, <1>6, <1>7, <1>8, <1>9 DEF Next, Client

\* What is due against the clock, in the terms of the rate.
LEMMA RateTerms ==
    ASSUME NEW r \in Nat, NEW E \in Int, NEW T \in Nat, NEW n \in Nat, NEW e \in Int, r * T <= E,
           NEW m \in Nat
    PROVE  /\ r * T + r >= E /\ e >= n * T - 1 => r * (e + (n + 1)) >= E * n
           /\ e - m <= n * T => r * (e - m) <= E * n
  <1>1. \A a, b \in Int : a >= b => r * a >= r * b
    <2>1. SUFFICES ASSUME NEW a \in Int, NEW b \in Int, a >= b PROVE r * a >= r * b
      OBVIOUS
    <2>2. a - b \in Nat /\ r * a = r * b + r * (a - b)
      BY <2>1
    <2>3. r * (a - b) >= 0
      BY <2>2
    <2> QED
      BY <2>2, <2>3
  <1>2. \A a, b \in Int : a >= b => a * n >= b * n
    <2>1. SUFFICES ASSUME NEW a \in Int, NEW b \in Int, a >= b PROVE a * n >= b * n
      OBVIOUS
    <2>2. a - b \in Nat /\ a * n = b * n + (a - b) * n
      BY <2>1
    <2>3. (a - b) * n >= 0
      BY <2>2
    <2> QED
      BY <2>2, <2>3
  <1>3. n * T \in Int /\ r * T \in Int /\ r * (n * T) = (r * T) * n /\ (r * T) * n \in Int /\ E * n \in Int
    OBVIOUS
  <1>4. ASSUME r * T + r >= E, e >= n * T - 1
        PROVE  r * (e + (n + 1)) >= E * n
    <2>1. r * (e + (n + 1)) >= r * (n * T + n)
      <3>1. e + (n + 1) >= n * T + n
        BY <1>3, <1>4
      <3> QED
        BY <1>1, <1>3, <3>1
    <2>2. r * (n * T + n) = (r * T + r) * n
      BY <1>3
    <2>3. (r * T + r) * n >= E * n
      BY <1>2, <1>3, <1>4
    <2> DEFINE x == r * (e + (n + 1))
               y == (r * T + r) * n
               z == E * n
    <2>4. x \in Int /\ y \in Int /\ z \in Int
      BY <1>3
    <2>5. x >= y /\ y >= z
      BY <2>1, <2>2, <2>3
    <2> HIDE DEF x, y, z
    <2>6. x >= z
      BY <2>4, <2>5
    <2> QED
      BY <2>6 DEF x, z
  <1>5. ASSUME e - m <= n * T
        PROVE  r * (e - m) <= E * n
    <2> DEFINE x == r * (e - m)
               y == (r * T) * n
               z == E * n
    <2>1. x \in Int /\ y \in Int /\ z \in Int
      BY <1>3
    <2>2. y >= x
      BY <1>1, <1>3, <1>5
    <2>3. z >= y
      BY <1>2, <1>3
    <2> HIDE DEF x, y, z
    <2>4. x <= z
      BY <2>1, <2>2, <2>3
    <2> QED
      BY <2>4 DEF x, z
  <1> QED
    BY <1>4, <1>5

\* A UDP client is ahead of the rate asked for by no more than the microsecond each
\* datagram's time is cut short by, and one, and if its turns are quick it is late by
\* one turn at most: for every rate, buffer and number of datagrams.
THEOREM PaceHolds == Spec => []PacedAsAsked
  <1>1. PaceInv => PacedAsAsked
    <2> SUFFICES ASSUME PaceInv, test.udp, stamped > 0, pc # "done"
                 PROVE  NeverFaster /\ KeepsPace
      BY DEF PacedAsAsked
    <2>1. stamped # 0 /\ ClockTypes /\ TurnInv /\ RateInv
      BY DEF PaceInv, ClockTypes
    <2>2. InLoop /\ delay_target \in Targets(test.rate)
      BY <2>1 DEF ClockTypes, TurnInv, InLoop
    <2> DEFINE n == stamped - 1
               T == delay_target
               e == Elapsed
    <2>3. test.rate \in Nat /\ n \in Nat /\ stamped = n + 1 /\ began \in Int /\ 2 * MaxBusy \in Nat
      BY <2>1 DEF ClockTypes, TestType
    <2>4. /\ T \in Nat /\ test.rate * T <= Exact
          /\ test.rate * kMillion >= Exact => test.rate * T + test.rate >= Exact
          /\ test.rate * kMillion < Exact => T = kMillion
      BY <2>2, <2>3, TargetIs
    <2>5. due - T = began + n * T /\ n * T \in Int /\ due \in Int
      BY <2>3, <2>4, DueGrows DEF due
    <2>6. e = LastTurn - began /\ LastTurn \in Int
      BY <2>1, <2>2, SubUsec DEF RateInv, LastTurn, Elapsed, ClockTypes
    <2>7. e >= n * T - 1 /\ (Quick => e - 2 * MaxBusy <= n * T)
      BY <2>1, <2>2, <2>3, <2>4, <2>5, <2>6 DEF RateInv
    <2>8. e \in Int /\ Exact \in Int
      BY <2>3, <2>6 DEF Exact
    <2> HIDE DEF n, T, e
    <2>9. /\ test.rate * T + test.rate >= Exact => test.rate * (e + (n + 1)) >= Exact * n
          /\ Quick => test.rate * (e - 2 * MaxBusy) <= Exact * n
      BY <2>3, <2>4, <2>7, <2>8, RateTerms
    <2>10. NeverFaster
      <3>1. T = kMillion => e >= kMillion * n - 1
        BY <2>3, <2>7, <2>8
      <3> QED
        BY <2>3, <2>4, <2>9, <3>1 DEF NeverFaster, n, e
    <2>11. KeepsPace
      BY <2>9 DEF KeepsPace, n, e
    <2> QED
      BY <2>10, <2>11
  <1> QED
    BY <1>1, InitPace, StepPace, PTL DEF Spec

-----------------------------------------------------------------------------
(* Remainders and multiples.                                               *)

\* A remainder may be taken early.
LEMMA ModSum ==
    ASSUME NEW W \in Nat \ {0}, NEW a \in Int, NEW b \in Int
    PROVE  ((a % W) + b) % W = (a + b) % W
  <1> DEFINE x == a % W
             q == a \div W
             y == (x + b) % W
             p == (x + b) \div W
  <1>1. q \in Int /\ x \in 0 .. W - 1 /\ a = W * q + x
    BY DivMod
  <1>2. x + b \in Int
    BY <1>1
  <1>3. p \in Int /\ y \in 0 .. W - 1 /\ x + b = W * p + y
    BY <1>2, DivMod
  <1> HIDE DEF x, y, q, p
  <1>4. a + b = W * (p + q) + y
    BY <1>1, <1>3
  <1> DEFINE c == a + b
             n == p + q
  <1>5. n \in Int /\ c \in Int /\ c = W * n + y
    BY <1>1, <1>3, <1>4
  <1> HIDE DEF c, n
  <1>6. c % W = y
    BY <1>3, <1>5, DivisionIs
  <1> QED
    BY <1>6 DEF x, y, c

\* Of two multiples the greater one is greater by a length at least.
LEMMA NextBlock ==
    ASSUME NEW W \in Nat \ {0}, NEW k \in Int, NEW m \in Int, W * k < W * m
    PROVE  W * k + W <= W * m
  <1>1. \A n \in Nat : W * n >= 0
    OBVIOUS
  <1>2. CASE k + 1 <= m
    <2>1. m - (k + 1) \in Nat /\ W * (m - (k + 1)) = W * m - (W * k + W)
      BY <1>2
    <2> QED
      BY <1>1, <2>1
  <1>3. CASE m <= k
    <2>1. k - m \in Nat /\ W * (k - m) = W * k - W * m
      BY <1>3
    <2> QED
      BY <1>1, <2>1
  <1> QED
    BY <1>2, <1>3

-----------------------------------------------------------------------------
(* Totals.                                                                 *)

LEMMA Sizes ==
    /\ Word \in Nat \ {0} /\ mBufLen \in Nat \ {0} /\ mBufLen < Word
    /\ Extractor_size \in Nat \ {0}
BY TransferAssumption DEF Extractor_size

LEMMA TestTypes ==
    ASSUME test \in Tests
    PROVE  /\ test.udp \in BOOLEAN /\ test.time \in BOOLEAN /\ test.interval \in BOOLEAN
           /\ test.amount \in Nat /\ test.file \in Int
BY TransferAssumption DEF TestType

LEMMA InitTotals == Init => TotalsInv
  <1> SUFFICES ASSUME Init
               PROVE  TotalsInv
    OBVIOUS
  <1>1. /\ test \in Tests /\ written = 0 /\ nobufs = 0 /\ mAmount = test.amount /\ pos = 0 /\ wire = 0
        /\ reported = 0 /\ totLen = 0 /\ received = 0 /\ serverReport = -1 /\ headerRead = -1
        /\ sInterupted = FALSE /\ reset = FALSE /\ pc = "begin"
    BY DEF Init
  <1>2. test.amount \in Nat /\ test.file \in Int
    BY <1>1, TestTypes
  <1>3. 0 % Word = 0
    BY Sizes, SmallMod
  <1>4. AmountTypes
    <2>1. 0 \in 0 .. Word - 1 /\ 0 \in Nat /\ -1 \in -1 .. ClientHdr
      BY Sizes
    <2> QED
      BY <1>1, <1>2, <2>1, Zenon DEF AmountTypes
  <1>5. ReportedInv
    BY <1>1, <1>3 DEF ReportedInv
  <1>6. AmountInv
    BY <1>1, <1>2 DEF AmountInv
  <1>7. BlocksInv
    <2>1. 0 = mBufLen * 0 /\ 0 = Extractor_size * 0
      BY Sizes
    <2> QED
      BY <1>1, <1>2, <2>1 DEF BlocksInv, FileInv
  <1>8. ServerInv
    BY <1>1 DEF ServerInv
  <1> QED
    BY <1>4, <1>5, <1>6, <1>7, <1>8 DEF TotalsInv

\* The header is ahead of the data.
LEMMA HeaderTypes ==
    ASSUME AmountTypes
    PROVE  HeaderSent \in Nat /\ HeaderTaken \in Nat
BY TransferAssumption DEF AmountTypes, HeaderSent, HeaderTaken

\* The client's steps in which nothing is written or read.
LEMMA ClockTotals ==
    ASSUME TotalsInv, Begin \/ StartClock \/ Stamp \/ Delay \/ TestLoop
    PROVE  TotalsInv'
  <1>1. UNCHANGED <<test, amounts, sInterupted, reset, headerRead, received, serverReport>>
    BY DEF Begin, StartClock, Stamp, Delay, TestLoop, ends, server
  <1>7. IF pc = "begin" THEN pc' = "barrier" /\ wire' = HeaderSent ELSE pc' # "begin" /\ wire' = wire
    BY DEF Begin, StartClock, Stamp, Delay, TestLoop, server
  <1>2. /\ pc # "done" /\ pc' # "done"
        /\ \/ pc \in {"begin", "barrier", "stamp"} /\ pc' \in {"barrier", "stamp", "write"}
           \/ pc = "delay" /\ pc' = "test"
           \/ pc = "test" /\ pc' = "stop"
           \/ pc = "test" /\ pc' \in {"stamp", "write"} /\ ~Over
    BY DEF Begin, StartClock, Stamp, Delay, TestLoop
  <1>3. AmountTypes /\ ReportedInv /\ AmountInv /\ BlocksInv /\ ServerInv
    BY DEF TotalsInv
  <1>8. UNCHANGED <<HeaderSent, HeaderTaken>>
    BY <1>1 DEF HeaderSent, HeaderTaken
  <1>4. AmountTypes' /\ ReportedInv' /\ ServerInv'
    <2>1. wire' \in Nat
      BY <1>3, <1>7, HeaderTypes DEF AmountTypes
    <2>2. AmountTypes'
      BY <1>1, <1>3, <2>1 DEF AmountTypes, amounts
    <2>3. ReportedInv'
      BY <1>1, <1>2, <1>3 DEF ReportedInv, amounts
    <2>4. ServerInv'
      <3>1. CASE pc = "begin"
        <4>1. received = 0 /\ headerRead = -1 /\ written = 0 /\ HeaderTaken = 0 /\ HeaderSent \in Nat
          BY <1>3, <3>1, HeaderTypes DEF ServerInv, HeaderTaken
        <4>2. received + wire' = written + HeaderSent - HeaderTaken
          BY <1>7, <3>1, <4>1
        <4> QED
          BY <1>1, <1>2, <1>3, <1>7, <1>8, <3>1, <4>2 DEF ServerInv, amounts
      <3>2. CASE pc # "begin"
        BY <1>1, <1>2, <1>3, <1>7, <1>8, <3>2 DEF ServerInv, amounts
      <3> QED
        BY <3>1, <3>2
    <2> QED
      BY <2>2, <2>3, <2>4
  <1>5. AmountInv'
    <2>1. SUFFICES ASSUME ~test.time, test.amount > 0, test.amount % mBufLen = 0, Undisturbed
                   PROVE  /\ written <= test.amount
                          /\ pc' \in {"begin", "barrier", "stamp", "write"} => written < test.amount
                          /\ mAmount % Word = (test.amount - written) % Word
                          /\ pc' \in {"delay", "test"} => mAmount < Word
      BY <1>1 DEF AmountInv, Undisturbed, amounts
    <2>2. /\ written <= test.amount
          /\ pc \in {"begin", "barrier", "stamp", "write"} => written < test.amount
          /\ mAmount % Word = (test.amount - written) % Word
          /\ pc \in {"delay", "test"} => mAmount < Word
      BY <1>3, <2>1 DEF AmountInv
    <2>3. CASE pc = "test" /\ pc' \in {"stamp", "write"} /\ ~Over
      <3>1. mAmount # 0
        BY <2>1, <2>3 DEF Over
      <3>2. mAmount % Word = mAmount
        BY <1>3, <2>2, <2>3, Sizes, SmallMod DEF AmountTypes
      <3>3. 0 % Word = 0 /\ test.amount \in Nat /\ written \in Nat
        BY <1>3, Sizes, SmallMod, TestTypes DEF AmountTypes
      <3>4. written # test.amount
        BY <2>2, <3>1, <3>2, <3>3
      <3> QED
        BY <2>2, <2>3, <3>3, <3>4
    <2> QED
      BY <1>2, <2>2, <2>3
  <1>6. BlocksInv'
    <2>1. SUFFICES ASSUME Undisturbed
                   PROVE  \E k \in Nat : written' = mBufLen * k /\ (test'.file >= 0 => FileInv(k)')
      BY <1>1 DEF BlocksInv, Undisturbed, amounts
    <2>2. PICK k \in Nat : written = mBufLen * k /\ (test.file >= 0 => FileInv(k))
      BY <1>3, <2>1 DEF BlocksInv
    <2>3. ASSUME test.file >= 0
          PROVE  FileInv(k)'
      <3>1. UNCHANGED <<test, pos, Extractor_size>>
        BY <1>1 DEF amounts, Extractor_size
      <3>2. FileInv(k)
        BY <2>2, <2>3
      <3>3. test.file \in Int /\ pos \in Nat
        BY <1>3, TestTypes DEF AmountTypes
      <3>4. pc' \in {"stamp", "write"} /\ pc = "test" => pos <= test.file
        BY <1>2, <2>3, <3>3 DEF Over, Extractor_canRead
      <3> QED
        BY <1>2, <3>1, <3>2, <3>3, <3>4 DEF FileInv
    <2> QED
      BY <1>1, <2>2, <2>3 DEF amounts
  <1> QED
    BY <1>4, <1>5, <1>6 DEF TotalsInv

\* The next block of a file: whole, or the rest, with which the file ends.
LEMMA FileAdvances ==
    ASSUME AmountTypes, getNextDataBlock, pc = "write"
    PROVE  /\ pos' \in Nat
           /\ \A k \in Nat : test.file >= 0 /\ FileInv(k) =>
                \/ pos' <= test.file /\ pos' = Extractor_size * (k + 1)
                \/ pos' = test.file + 1 /\ k = test.file \div Extractor_size
  <1>1. test.file \in Int /\ pos \in Nat /\ Extractor_size \in Nat \ {0}
    BY TestTypes, Sizes DEF AmountTypes
  <1>2. /\ test.file < 0 => pos' = pos
        /\ test.file >= 0 /\ pos + Extractor_size <= test.file => pos' = pos + Extractor_size
        /\ test.file >= 0 /\ pos + Extractor_size > test.file => pos' = test.file + 1
    BY <1>1 DEF getNextDataBlock
  <1>3. ASSUME NEW k \in Nat, test.file >= 0, FileInv(k)
        PROVE  \/ pos' <= test.file /\ pos' = Extractor_size * (k + 1)
               \/ pos' = test.file + 1 /\ k = test.file \div Extractor_size
    <2>1. pos <= test.file /\ pos = Extractor_size * k
      BY <1>3 DEF FileInv
    <2> HIDE DEF Extractor_size
    <2>2. Extractor_size * (k + 1) = Extractor_size * k + Extractor_size
      BY <1>1
    <2>3. CASE pos + Extractor_size <= test.file
      BY <1>1, <1>2, <1>3, <2>1, <2>2, <2>3
    <2>4. CASE pos + Extractor_size > test.file
      <3> DEFINE rest == test.file - pos
      <3>1. rest \in 0 .. Extractor_size - 1
        BY <1>1, <2>1, <2>4
      <3>2. test.file = Extractor_size * k + rest
        BY <1>1, <2>1
      <3> HIDE DEF rest
      <3>3. test.file \div Extractor_size = k
        BY <1>1, <3>1, <3>2, DivisionIs
      <3> QED
        BY <1>2, <1>3, <2>4, <3>3
    <2> QED
      BY <1>1, <2>3, <2>4
  <1>4. pos' \in Nat
    BY <1>1, <1>2
  <1> QED
    BY <1>3, <1>4

LEMMA WriteFailsTotals ==
    ASSUME TotalsInv, WriteFails
    PROVE  TotalsInv'
  <1>1. /\ UNCHANGED <<test, mAmount, totLen, reported, written, nobufs, sInterupted, server>>
        /\ pc = "write" /\ pc' = "stop" /\ getNextDataBlock
    BY DEF WriteFails, ends
  <1>2. AmountTypes /\ ReportedInv /\ AmountInv /\ BlocksInv /\ ServerInv
    BY DEF TotalsInv
  <1>3. /\ pos' \in Nat
        /\ \A k \in Nat : test.file >= 0 /\ FileInv(k) =>
             \/ pos' <= test.file
             \/ pos' = test.file + 1 /\ k = test.file \div Extractor_size
    BY <1>1, <1>2, FileAdvances
  <1>4. AmountTypes' /\ ReportedInv' /\ AmountInv' /\ ServerInv'
    BY <1>1, <1>2, <1>3 DEF AmountTypes, ReportedInv, AmountInv, ServerInv, Undisturbed, server, HeaderSent, HeaderTaken
  <1>5. BlocksInv'
    <2>1. SUFFICES ASSUME Undisturbed
                   PROVE  \E k \in Nat : written' = mBufLen * k /\ (test'.file >= 0 => FileInv(k)')
      BY <1>1 DEF BlocksInv, Undisturbed
    <2>2. PICK k \in Nat : written = mBufLen * k /\ (test.file >= 0 => FileInv(k))
      BY <1>2, <2>1 DEF BlocksInv
    <2>3. UNCHANGED <<test, Extractor_size>>
      BY <1>1 DEF Extractor_size
    <2>4. test.file >= 0 => FileInv(k)'
      BY <1>1, <1>3, <2>2, <2>3 DEF FileInv
    <2> QED
      BY <1>1, <2>2, <2>4
  <1> QED
    BY <1>4, <1>5 DEF TotalsInv

\* A write of a full buffer is a step towards the amount and the file's end.
LEMMA FullWrite ==
    ASSUME TotalsInv, pc = "write", pc' \in {"delay", "test"}, UNCHANGED <<test, sInterupted>>,
           Undisturbed' =>
             Undisturbed /\ written' = written + mBufLen /\ LessAmount(mBufLen) /\ getNextDataBlock
    PROVE  AmountInv' /\ BlocksInv'
  <1>1. AmountTypes /\ AmountInv /\ BlocksInv
    BY DEF TotalsInv
  <1>2. written \in Nat /\ mAmount \in Nat /\ test.amount \in Nat
    BY <1>1, TestTypes DEF AmountTypes
  <1>3. AmountInv'
    <2>1. SUFFICES ASSUME ~test.time, test.amount > 0, test.amount % mBufLen = 0, Undisturbed'
                   PROVE  /\ written' <= test.amount
                          /\ mAmount' % Word = (test.amount - written') % Word
                          /\ mAmount' < Word
      BY DEF AmountInv
    <2>2. written < test.amount /\ mAmount % Word = (test.amount - written) % Word
      BY <1>1, <2>1 DEF AmountInv
    <2>3. written' = written + mBufLen /\ mAmount' = (mAmount - mBufLen) % Word
      BY <2>1 DEF LessAmount
    <2>4. PICK k \in Nat : written = mBufLen * k
      BY <1>1, <2>1 DEF BlocksInv
    <2>5. PICK m \in Int : test.amount = mBufLen * m
      <3> DEFINE m == test.amount \div mBufLen
      <3>1. m \in Int /\ test.amount = mBufLen * m + (test.amount % mBufLen)
        <4>1. test.amount \in Int /\ mBufLen \in Nat \ {0}
          BY <1>2, Sizes
        <4> QED
          BY <4>1, DivMod, Zenon
      <3> HIDE DEF m
      <3>2. test.amount = mBufLen * m
        BY <2>1, <3>1, Sizes
      <3> QED
        BY <3>1, <3>2
    <2>6. written' <= test.amount
      BY <2>2, <2>3, <2>4, <2>5, Sizes, NextBlock
    <2> DEFINE left == test.amount - written
               b == -mBufLen
    <2>7. left \in Int /\ b \in Int /\ mAmount \in Int
      BY <1>2, Sizes
    <2>8. /\ mAmount - mBufLen = mAmount + b /\ test.amount - written' = left + b
          /\ mAmount % Word = left % Word
      BY <1>2, <2>2, <2>3, Sizes
    <2> HIDE DEF left, b
    <2>9. (mAmount + b) % Word = (left + b) % Word
      <3>1. ((mAmount % Word) + b) % Word = (mAmount + b) % Word
        BY <2>7, Sizes, ModSum
      <3>2. ((left % Word) + b) % Word = (left + b) % Word
        BY <2>7, Sizes, ModSum
      <3> QED
        BY <2>8, <3>1, <3>2
    <2>10. mAmount' = (left + b) % Word
      BY <2>3, <2>8, <2>9
    <2>11. mAmount' \in 0 .. Word - 1
      <3>1. left + b \in Int
        BY <2>7
      <3> QED
        BY <2>10, <3>1, Sizes, DivMod
    <2>12. mAmount' % Word = mAmount'
      BY <2>11, Sizes, SmallMod
    <2> QED
      BY <2>6, <2>8, <2>10, <2>11, <2>12, Sizes
  <1>4. BlocksInv'
    <2>1. SUFFICES ASSUME Undisturbed'
                   PROVE  \E k \in Nat : written' = mBufLen * k /\ (test'.file >= 0 => FileInv(k)')
      BY DEF BlocksInv
    <2>2. PICK k \in Nat : written = mBufLen * k /\ (test.file >= 0 => FileInv(k))
      BY <1>1, <2>1 DEF BlocksInv
    <2>3. k + 1 \in Nat /\ written' = mBufLen * (k + 1)
      BY <2>1, <2>2, Sizes
    <2>4. UNCHANGED <<test, Extractor_size>>
      BY DEF Extractor_size
    <2>5. ASSUME test.file >= 0
          PROVE  FileInv(k + 1)'
      <3>1. \/ pos' <= test.file /\ pos' = Extractor_size * (k + 1)
            \/ pos' = test.file + 1 /\ k = test.file \div Extractor_size
        BY <1>1, <2>1, <2>2, <2>5, FileAdvances
      <3>2. k + 1 - k \in {0, 1}
        OBVIOUS
      <3> QED
        BY <2>4, <3>1, <3>2 DEF FileInv
    <2> QED
      BY <2>3, <2>4, <2>5
  <1> QED
    BY <1>3, <1>4

LEMMA WriteTotals ==
    ASSUME TotalsInv, Write
    PROVE  TotalsInv'
  <1>1. AmountTypes /\ ReportedInv /\ ServerInv
    BY DEF TotalsInv
  <1>2. /\ UNCHANGED <<test, sInterupted, reset, headerRead, received, serverReport, HeaderSent, HeaderTaken>>
        /\ pc = "write" /\ pc' \in {"delay", "test"} /\ getNextDataBlock
    BY DEF Write, ends, HeaderSent, HeaderTaken
  <1>3. pos' \in Nat
    BY <1>1, <1>2, FileAdvances
  <1>4. \A a \in Int : a % Word \in 0 .. Word - 1
    BY Sizes, DivMod
  <1>5. CASE test.udp
    <2>1. PICK len \in {mBufLen, -1} : WriteDatagram(len)
      BY <1>5 DEF Write
    <2>2. /\ reported' = (reported + len) % Word /\ LessAmount(len)
          /\ written' = IF len > 0 THEN written + len ELSE written
          /\ nobufs' = IF len > 0 THEN nobufs ELSE nobufs + 1
          /\ totLen' = totLen /\ wire' = wire
      BY <2>1 DEF WriteDatagram
    <2>3. len \in Int /\ written \in Nat /\ nobufs \in Nat /\ reported \in Int /\ mAmount \in Nat
      BY <1>1, <2>1, Sizes DEF AmountTypes
    <2>4. /\ reported + len \in Int /\ written' \in Nat /\ nobufs' \in Nat
          /\ written' - nobufs' = (written - nobufs) + len
      BY <2>1, <2>2, <2>3, Sizes
    <2>5. mAmount' \in Nat
      <3>1. mAmount - len \in Int
        BY <2>3
      <3> QED
        BY <1>4, <2>2, <2>3, <3>1, Sizes DEF LessAmount
    <2>6. AmountTypes'
      BY <1>1, <1>2, <1>3, <1>4, <2>2, <2>4, <2>5, Zenon DEF AmountTypes
    <2>7. ReportedInv'
      <3>1. reported' = (((written - nobufs) % Word) + len) % Word
        BY <1>1, <1>5, <2>2 DEF ReportedInv
      <3> DEFINE sum == written - nobufs
      <3>2. sum \in Int
        BY <2>3
      <3> HIDE DEF sum
      <3>3. ((sum % Word) + len) % Word = (sum + len) % Word
        BY <2>3, <3>2, Sizes, ModSum
      <3>4. reported' = (written' - nobufs') % Word
        BY <2>4, <3>1, <3>3 DEF sum
      <3> QED
        BY <1>2, <1>5, <3>4 DEF ReportedInv
    <2>8. ServerInv'
      BY <1>1, <1>2, <1>5 DEF ServerInv
    <2>9. AmountInv' /\ BlocksInv'
      <3>1. Undisturbed' => Undisturbed /\ written' = written + mBufLen /\ LessAmount(mBufLen)
        BY <1>2, <2>1, <2>2, <2>3, Sizes DEF Undisturbed
      <3> QED
        BY <1>2, <3>1, FullWrite
    <2> QED
      BY <2>6, <2>7, <2>8, <2>9 DEF TotalsInv
  <1>6. CASE ~test.udp
    <2>1. PICK len \in Written : WriteStream(len)
      BY <1>6 DEF Write
    <2>2. /\ totLen' = (totLen + len) % Word /\ written' = written + len /\ wire' = wire + len
          /\ reported' = IF test.interval THEN (reported + len) % Word ELSE reported
          /\ LessAmount(len) /\ nobufs' = nobufs
      BY <2>1 DEF WriteStream
    <2>3. len \in Nat /\ (~sInterupted => len = mBufLen)
      BY Sizes DEF Written
    <2>4. /\ written \in Nat /\ nobufs \in Nat /\ reported \in Int /\ mAmount \in Nat /\ totLen \in Int
          /\ wire \in Nat /\ received \in Int
      BY <1>1 DEF AmountTypes
    <2>5. /\ reported + len \in Int /\ totLen + len \in Int /\ written' \in Nat /\ wire' \in Nat
      BY <2>2, <2>3, <2>4
    <2>6. mAmount' \in Nat
      <3>1. mAmount - len \in Int
        BY <2>3, <2>4
      <3> DEFINE rest == mAmount - len
      <3> HIDE DEF rest
      <3>2. rest \in Int
        BY <3>1 DEF rest
      <3>3. rest % Word \in 0 .. Word - 1
        BY <1>4, <3>2
      <3>4. (mAmount - len) % Word \in Nat
        BY <3>3, Sizes DEF rest
      <3> QED
        BY <2>2, <2>4, <3>4, Zenon DEF LessAmount
    <2>7. reported' \in 0 .. Word - 1 /\ totLen' \in 0 .. Word - 1
      BY <1>1, <1>4, <2>2, <2>5, Zenon DEF AmountTypes
    <2>8. AmountTypes'
      BY <1>1, <1>2, <1>3, <2>2, <2>5, <2>6, <2>7, Zenon DEF AmountTypes
    <2>9. (((written % Word) + len) % Word) = written' % Word
      <3>1. written \in Int /\ len \in Int
        BY <2>3, <2>4
      <3>2. ((written % Word) + len) % Word = (written + len) % Word
        BY <3>1, Sizes, ModSum
      <3> QED
        BY <2>2, <3>2
    <2>10. ReportedInv'
      BY <1>1, <1>2, <1>6, <2>2, <2>9 DEF ReportedInv
    <2>11. ServerInv'
      <3> DEFINE sum == written + HeaderSent - HeaderTaken
                 got == received + wire
      <3>1. sum \in Int /\ got \in Int /\ received + wire' = got + len
            /\ written' + HeaderSent - HeaderTaken = sum + len
        BY <1>1, <2>2, <2>3, <2>4, HeaderTypes
      <3> HIDE DEF sum, got
      <3>5. sum \in Int /\ got \in Int /\ len \in Int
        BY <2>3, <3>1
      <3>2. ((sum % Word) + len) % Word = (sum + len) % Word
        BY <3>5, Sizes, ModSum
      <3>4. ((got % Word) + len) % Word = (got + len) % Word
        BY <3>5, Sizes, ModSum
      <3>3. ASSUME ~reset
            PROVE  (received + wire') % Word = (written' + HeaderSent - HeaderTaken) % Word
        <4>1. got % Word = sum % Word
          BY <1>1, <1>2, <1>6, <3>3 DEF ServerInv, sum, got
        <4> QED
          BY <3>1, <3>2, <3>4, <4>1
      <3> QED
        BY <1>1, <1>2, <1>6, <3>3 DEF ServerInv
    <2>12. AmountInv' /\ BlocksInv'
      <3>1. Undisturbed' => Undisturbed /\ written' = written + mBufLen /\ LessAmount(mBufLen)
        BY <1>2, <2>2, <2>3 DEF Undisturbed
      <3> QED
        BY <1>2, <3>1, FullWrite
    <2> QED
      BY <2>8, <2>10, <2>11, <2>12 DEF TotalsInv
  <1> QED
    BY <1>5, <1>6

LEMMA StopTotals ==
    ASSUME TotalsInv, Stop
    PROVE  TotalsInv'
  <1>1. AmountTypes /\ ReportedInv /\ AmountInv /\ BlocksInv /\ ServerInv
    BY DEF TotalsInv
  <1>2. /\ UNCHANGED <<test, mAmount, pos, totLen, written, nobufs, sInterupted, server>>
        /\ pc = "stop" /\ pc' = "done"
        /\ reported' = IF ~test.udp /\ ~test.interval THEN (reported + totLen) % Word ELSE reported
    BY DEF Stop, ends
  <1>3. ~test.udp /\ ~test.interval => reported' = totLen
    <2>1. SUFFICES ASSUME ~test.udp, ~test.interval
                   PROVE  reported' = totLen
      OBVIOUS
    <2>2. reported = 0 /\ totLen \in 0 .. Word - 1
      BY <1>1, <1>2, <2>1 DEF ReportedInv, AmountTypes
    <2>3. reported + totLen = totLen
      BY <2>2
    <2> QED
      BY <1>2, <2>1, <2>2, <2>3, Sizes, SmallMod
  <1>4. AmountTypes'
    BY <1>1, <1>2, <1>3 DEF AmountTypes, server
  <1>5. ReportedInv'
    BY <1>1, <1>2, <1>3 DEF ReportedInv
  <1>6. AmountInv' /\ ServerInv'
    BY <1>1, <1>2 DEF AmountInv, ServerInv, Undisturbed, server, HeaderSent, HeaderTaken
  <1>7. BlocksInv'
    BY <1>1, <1>2 DEF BlocksInv, FileInv, Undisturbed, Extractor_size
  <1> QED
    BY <1>4, <1>5, <1>6, <1>7 DEF TotalsInv

\* The flag ends what is claimed for undisturbed tests only.
LEMMA SignalTotals ==
    ASSUME TotalsInv, Interrupt \/ Alarm
    PROVE  TotalsInv'
  <1>1. UNCHANGED <<test, pc, amounts, server>> /\ sInterupted' = TRUE
    BY DEF Interrupt, Alarm
  <1>2. AmountTypes /\ ReportedInv /\ ServerInv
    BY DEF TotalsInv
  <1>3. AmountTypes'
    BY <1>1, <1>2, Zenon DEF AmountTypes, amounts, server
  <1>4. ReportedInv' /\ ServerInv'
    BY <1>1, <1>2 DEF ReportedInv, ServerInv, amounts, server, HeaderSent, HeaderTaken
  <1>5. AmountInv' /\ BlocksInv'
    BY <1>1 DEF AmountInv, BlocksInv, Undisturbed
  <1> QED
    BY <1>3, <1>4, <1>5 DEF TotalsInv

LEMMA ServerTotals ==
    ASSUME TotalsInv, Reset \/ RecvHeader \/ Recv \/ RecvEnd
    PROVE  TotalsInv'
  <1>1. AmountTypes /\ ReportedInv /\ AmountInv /\ BlocksInv /\ ServerInv
    BY DEF TotalsInv
  <1>2. UNCHANGED <<test, pc, amounts, sInterupted, HeaderSent>> /\ ~test.udp /\ pc # "begin"
    BY <1>1 DEF Reset, RecvHeader, Recv, RecvEnd, Reading, ends, ServerInv, HeaderSent
  <1>3. ReportedInv' /\ AmountInv' /\ BlocksInv'
    BY <1>1, <1>2 DEF ReportedInv, AmountInv, BlocksInv, FileInv, Undisturbed, Extractor_size, amounts
  <1>4. /\ received \in Int /\ wire \in Nat /\ received - 1 \in Int
        /\ received \in 0 .. Word - 1 /\ reset \in BOOLEAN /\ headerRead \in -1 .. ClientHdr
    BY <1>1 DEF AmountTypes
  <1>5. \A a \in Int : a % Word \in 0 .. Word - 1
    BY Sizes, DivMod
  <1>6. ASSUME wire' \in Nat, received' \in 0 .. Word - 1, reset' \in BOOLEAN, headerRead' \in -1 .. ClientHdr
        PROVE  AmountTypes'
    BY <1>1, <1>2, <1>6, Zenon DEF AmountTypes, amounts
  <1>7. CASE Reset
    <2>1. /\ reset' = TRUE /\ wire' = 0 /\ received' = received
          /\ UNCHANGED <<headerRead, serverReport>>
      BY <1>7 DEF Reset
    <2>2. 0 \in Nat
      OBVIOUS
    <2>3. AmountTypes'
      BY <1>4, <1>6, <2>1, <2>2, Zenon
    <2>4. ServerInv'
      BY <1>1, <1>2, <2>1 DEF ServerInv
    <2> QED
      BY <1>3, <2>3, <2>4 DEF TotalsInv
  <1>8. CASE Recv
    <2> DEFINE len == IF wire < mBufLen THEN wire ELSE mBufLen
    <2>1. /\ wire > 0 /\ serverReport = -1 /\ received' = (received + len) % Word
          /\ wire' = wire - len /\ reset' = reset /\ serverReport' = serverReport /\ headerRead' = headerRead
      BY <1>8 DEF Recv, Reading
    <2>2. len \in Nat /\ wire' \in Nat /\ received + len \in Int
      BY <1>4, <2>1, Sizes
    <2> HIDE DEF len
    <2>3. AmountTypes'
      BY <1>4, <1>5, <1>6, <2>1, <2>2, Zenon
    <2>4. (received' + wire') % Word = (received + wire) % Word
      <3>1. (received + len) + wire' = received + wire /\ wire' \in Int
        BY <1>4, <2>1, <2>2
      <3> QED
        BY <2>1, <2>2, <3>1, Sizes, ModSum
    <2>5. ServerInv'
      BY <1>1, <1>2, <2>1, <2>4 DEF ServerInv, amounts, HeaderTaken
    <2> QED
      BY <1>3, <2>3, <2>5 DEF TotalsInv
  <1>9. CASE RecvEnd
    <2>1. /\ received' = received \/ (reset /\ received' = (received - 1) % Word)
          /\ headerRead # -1
          /\ serverReport' = received' /\ wire' = wire /\ reset' = reset /\ headerRead' = headerRead
          /\ ~reset => wire = 0 /\ pc = "done"
      BY <1>9 DEF RecvEnd, Reading
    <2>2. received' \in 0 .. Word - 1
      BY <1>4, <1>5, <2>1
    <2>3. AmountTypes'
      BY <1>4, <1>6, <2>1, <2>2, Zenon
    <2>4. ServerInv'
      BY <1>1, <1>2, <2>1 DEF ServerInv, amounts, HeaderTaken
    <2> QED
      BY <1>3, <2>3, <2>4 DEF TotalsInv
  <1>10. CASE RecvHeader
    <2>1. PICK n \in 0 .. ClientHdr : headerRead' = n /\ wire' = wire - n /\ n <= wire
      BY <1>4, <1>10, TransferAssumption DEF RecvHeader
    <2>2. received' = received /\ reset' = reset /\ serverReport' = serverReport /\ headerRead = -1
      BY <1>10 DEF RecvHeader
    <2>3. wire' \in Nat /\ headerRead' \in -1 .. ClientHdr /\ HeaderTaken = 0 /\ HeaderTaken' = n
      BY <1>4, <2>1, <2>2, TransferAssumption DEF HeaderTaken
    <2>4. AmountTypes'
      BY <1>4, <1>6, <2>2, <2>3, Zenon
    <2>5. ASSUME ~reset
          PROVE  (received' + wire') % Word = (written' + HeaderSent' - HeaderTaken') % Word
      <3> DEFINE sum == written + HeaderSent
                 got == received + wire
                 b == -n
      <3>1. /\ sum \in Int /\ got \in Int /\ b \in Int /\ received' + wire' = got + b
            /\ written' + HeaderSent' - HeaderTaken' = sum + b /\ written + HeaderSent - HeaderTaken = sum
        BY <1>1, <1>2, <1>4, <2>1, <2>2, <2>3, HeaderTypes DEF amounts, AmountTypes
      <3>2. got % Word = sum % Word
        BY <1>1, <1>2, <2>5, <3>1 DEF ServerInv
      <3> HIDE DEF sum, got, b
      <3>3. ((sum % Word) + b) % Word = (sum + b) % Word /\ ((got % Word) + b) % Word = (got + b) % Word
        BY <3>1, Sizes, ModSum
      <3> QED
        BY <3>1, <3>2, <3>3
    <2>6. ServerInv'
      <3>1. serverReport = -1
        BY <1>1, <2>2 DEF ServerInv
      <3> QED
        BY <1>1, <1>2, <2>2, <2>5, <3>1 DEF ServerInv
    <2> QED
      BY <1>3, <2>4, <2>6 DEF TotalsInv
  <1> QED
    BY <1>7, <1>8, <1>9, <1>10

LEMMA StepTotals == TotalsInv /\ [Next]_vars => TotalsInv'
  <1> SUFFICES ASSUME TotalsInv, [Next]_vars
               PROVE  TotalsInv'
    OBVIOUS
  <1>1. CASE Idle \/ UNCHANGED vars
    <2>1. UNCHANGED vars
      BY <1>1 DEF Idle
    <2> QED
      BY <2>1 DEF vars, amounts, ends, server, TotalsInv, AmountTypes, ReportedInv, AmountInv,
         BlocksInv, FileInv, ServerInv, Undisturbed, Extractor_size, HeaderSent, HeaderTaken
  <1> QED
    BY <1>1, ClockTotals, WriteTotals, WriteFailsTotals, StopTotals, SignalTotals, ServerTotals
    DEF Next, Client

\* What the client reports of any test is what was written, and the server of an
\* unbroken connection reports the same but for the header: for every length of a
\* buffer or header, amount, file and number of writes, whoever interrupts it.
THEOREM TotalsHold == Spec => []TotalsAgree
  <1>1. TotalsInv => TotalsAgree
    <2> SUFFICES ASSUME TotalsInv
                 PROVE  TotalsAgree
      OBVIOUS
    <2>1. AmountTypes /\ ReportedInv /\ AmountInv /\ BlocksInv /\ ServerInv
      BY DEF TotalsInv
    <2>2. pc = "done" => reported = (written - nobufs) % Word
      <3>1. CASE ~test.udp
        <4>1. written - nobufs = written
          BY <2>1, <3>1 DEF ReportedInv, AmountTypes
        <4> QED
          BY <2>1, <3>1, <4>1 DEF ReportedInv
      <3> QED
        BY <2>1, <3>1 DEF ReportedInv
    <2>3. ~test.time /\ test.amount > 0 /\ test.amount % mBufLen = 0 /\ Undisturbed =>
            written <= test.amount
      BY <2>1 DEF AmountInv
    <2>4. ASSUME ~Extractor_canRead, Undisturbed, pc = "done"
          PROVE  LET blocks == test.file \div Extractor_size
                 IN  written \in {blocks * mBufLen, (blocks + 1) * mBufLen}
      <3>1. pos > test.file /\ test.file >= 0 /\ test.file \in Int /\ pos \in Nat
        BY <2>1, <2>4, TestTypes DEF Extractor_canRead, AmountTypes
      <3>2. PICK k \in Nat : written = mBufLen * k /\ FileInv(k)
        BY <2>1, <2>4, <3>1 DEF BlocksInv
      <3> DEFINE blocks == test.file \div Extractor_size
      <3>3. k - blocks \in {0, 1}
        BY <3>1, <3>2 DEF FileInv
      <3>4. blocks \in Int
        BY <3>1, Sizes, DivMod
      <3> HIDE DEF blocks
      <3>5. k = blocks \/ k = blocks + 1
        BY <3>3, <3>4
      <3>6. written \in {blocks * mBufLen, (blocks + 1) * mBufLen}
        BY <3>2, <3>4, <3>5, Sizes
      <3> QED
        BY <3>6 DEF blocks
    <2>5. ASSUME serverReport # -1, ~reset
          PROVE  pc = "done" /\ serverReport = (reported + HeaderSent - HeaderTaken) % Word
      <3>1. ~test.udp /\ pc = "done" /\ wire = 0 /\ serverReport = received
            /\ (received + wire) % Word = (written + HeaderSent - HeaderTaken) % Word
        <4>1. ~test.udp
          BY <2>1, <2>5 DEF ServerInv
        <4>2. pc = "done" /\ wire = 0 /\ serverReport = received
          BY <2>1, <2>5, <4>1 DEF ServerInv
        <4> QED
          BY <2>1, <2>5, <4>1, <4>2 DEF ServerInv
      <3>2. received \in 0 .. Word - 1 /\ received + wire = received
        BY <2>1, <3>1 DEF AmountTypes
      <3>3. received % Word = received
        BY <3>2, Sizes, SmallMod
      <3>4. reported = written % Word
        BY <2>1, <3>1 DEF ReportedInv
      <3> DEFINE d == HeaderSent - HeaderTaken
      <3>5. d \in Int /\ written \in Int /\ written + HeaderSent - HeaderTaken = written + d
            /\ reported \in Int /\ reported + HeaderSent - HeaderTaken = reported + d
        BY <2>1, HeaderTypes DEF AmountTypes
      <3> HIDE DEF d
      <3>6. ((written % Word) + d) % Word = (written + d) % Word
        BY <3>5, Sizes, ModSum
      <3> QED
        BY <3>1, <3>2, <3>3, <3>4, <3>5, <3>6
    <2> QED
      BY <2>2, <2>3, <2>4, <2>5 DEF TotalsAgree
  <1> QED
    BY <1>1, InitTotals, StepTotals, PTL DEF Spec
=============================================================================

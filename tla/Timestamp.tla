------------------------------ MODULE Timestamp ------------------------------
(* Class Timestamp: seconds and microseconds kept apart, microseconds below  *)
(* a million.  A time of gettimeofday is an integer of microseconds here.    *)
EXTENDS Integers

CONSTANT kMillion       \* microseconds in a second

ASSUME MillionAssumption == kMillion \in Nat \ {0}

Timestamps == [sec : Int, usec : 0 .. kMillion - 1]

\* The microseconds a timestamp stands for.
Usec(t) == t.sec * kMillion + t.usec

setnow(now) == [sec |-> now \div kMillion, usec |-> now % kMillion]

subUsec(left, right) == (left.sec - right.sec) * kMillion + (left.usec - right.usec)

before(left, right) ==
    \/ left.sec < right.sec
    \/ left.sec = right.sec /\ left.usec < right.usec

\* add( double ): of a fraction of a second that is no binary fraction, the cast
\* to long may leave a microsecond less.
Lost(usec) == IF usec % kMillion = 0 THEN {0} ELSE {0, 1}

add(t, usec, lost) ==
    LET sum   == t.usec + (usec % kMillion) - lost
        carry == IF sum >= kMillion THEN 1 ELSE 0
    IN  [sec |-> t.sec + usec \div kMillion + carry, usec |-> sum - carry * kMillion]
=============================================================================

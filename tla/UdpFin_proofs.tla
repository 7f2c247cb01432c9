---------------------------- MODULE UdpFin_proofs ----------------------------
(***************************************************************************)
(* Proofs about UdpFin, for any length of the test, any numbers of tries,  *)
(* losses and copies, and any delay: whatever the network does, the        *)
(* server's counters agree with the numbers it has heard; and, as long as  *)
(* the server does not run out of acknowledgements, one that waits longer  *)
(* than a datagram lives leaves nothing behind that would start another,   *)
(* and with tries and a wait that outlast what losses and delays can spoil *)
(* the client gets the server's results.                                   *)
(***************************************************************************)
EXTENDS UdpFin, FiniteSetTheorems, TLAPS

LEMMA Bounds ==
    /\ MaxData \in Nat /\ FinTries \in Nat /\ AckTries \in Nat /\ AckWait \in Nat
    /\ Lifetime \in Nat /\ MaxLosses \in Nat /\ MaxCopies \in Nat
BY BoundsAssumption

\* Numbers up to n that were not heard, and how many.
Missing(n, numbers) == (1 .. n) \ numbers

LEMMA MissingFinite ==
    ASSUME NEW n \in Nat, NEW numbers
    PROVE  IsFiniteSet(Missing(n, numbers)) /\ Cardinality(Missing(n, numbers)) \in Nat
  <1>1. IsFiniteSet(1 .. n)
    BY FS_Interval
  <1> QED
    BY <1>1, FS_Subset, FS_CardinalityType DEF Missing

\* A number not above the highest that was missing is missing no longer.
LEMMA MissingFound ==
    ASSUME NEW n \in Nat, NEW numbers, NEW id \in 1 .. n, id \notin numbers
    PROVE  Cardinality(Missing(n, numbers \cup {id})) = Cardinality(Missing(n, numbers)) - 1
  <1>1. Missing(n, numbers \cup {id}) = Missing(n, numbers) \ {id}
    BY DEF Missing
  <1>2. id \in Missing(n, numbers)
    BY DEF Missing
  <1> QED
    BY <1>1, <1>2, MissingFinite, FS_RemoveElement

\* A number above the highest leaves those between them missing.
LEMMA MissingSkipped ==
    ASSUME NEW n \in Nat, NEW numbers \in SUBSET (0 .. n), NEW id \in Nat, id > n
    PROVE  Cardinality(Missing(id, numbers \cup {id})) = Cardinality(Missing(n, numbers)) + (id - n - 1)
  <1> DEFINE skipped == n + 1 .. id - 1
  <1>1. Missing(id, numbers \cup {id}) = Missing(n, numbers) \cup skipped
    BY SMT DEF Missing
  <1>2. Missing(n, numbers) \cap skipped = {}
    BY SMT DEF Missing
  <1>3. IsFiniteSet(skipped) /\ Cardinality(skipped) = id - n - 1
    <2> DEFINE a == n + 1
               b == id - 1
    <2>1. a \in Int /\ b \in Int
      OBVIOUS
    <2>2. IsFiniteSet(a .. b) /\ Cardinality(a .. b) = IF a > b THEN 0 ELSE b - a + 1
      <3> HIDE DEF a, b
      <3> QED
        BY <2>1, FS_Interval
    <2> QED
      BY <2>2
  <1>4. IsFiniteSet(Missing(n, numbers)) /\ Cardinality(Missing(n, numbers)) \in Nat
    BY MissingFinite
  <1>5. Cardinality(Missing(n, numbers) \cup skipped)
            = Cardinality(Missing(n, numbers)) + Cardinality(skipped) - Cardinality({})
    BY <1>2, <1>3, <1>4, FS_Union
  <1>6. Cardinality({}) = 0
    BY FS_EmptySet
  <1>7. Cardinality(Missing(id, numbers \cup {id})) = Cardinality(Missing(n, numbers) \cup skipped)
    BY <1>1
  <1> HIDE DEF skipped
  <1> QED
    BY <1>3, <1>4, <1>5, <1>6, <1>7

\* What one datagram does to the counters and to the numbers heard.
LEMMA CountKeepsSum ==
    ASSUME NEW s \in Stats, NEW numbers \in SUBSET Nat, NEW id \in Nat,
           \A h \in numbers : h <= s.PacketID
    PROVE  LET t == CountDatagram(s, id)
           IN  /\ t \in Stats
               /\ \A h \in numbers \cup {id} : h <= t.PacketID
               /\ id \notin numbers
                    /\ s.cntError - s.cntOutofOrder = Cardinality(Missing(s.PacketID, numbers))
                  => t.cntError - t.cntOutofOrder = Cardinality(Missing(t.PacketID, numbers \cup {id}))
  <1> DEFINE t == CountDatagram(s, id)
             n == s.PacketID
  <1>1. n \in Nat /\ s.cntError \in Nat /\ s.cntOutofOrder \in Nat
    BY DEF Stats
  <1>2. numbers \in SUBSET (0 .. n)
    BY <1>1
  <1>3. t \in Stats
    BY <1>1 DEF CountDatagram, Stats
  <1>4. \A h \in numbers \cup {id} : h <= t.PacketID
    BY <1>1 DEF CountDatagram
  <1>5. ASSUME id \notin numbers, s.cntError - s.cntOutofOrder = Cardinality(Missing(n, numbers))
        PROVE  t.cntError - t.cntOutofOrder = Cardinality(Missing(t.PacketID, numbers \cup {id}))
    <2>1. CASE id = 0
      <3>1. t.PacketID = n /\ t.cntError = s.cntError /\ t.cntOutofOrder = s.cntOutofOrder
        BY <1>1, <2>1 DEF CountDatagram
      <3>2. Missing(n, numbers \cup {id}) = Missing(n, numbers)
        BY <2>1, <1>1 DEF Missing
      <3> QED
        BY <1>5, <3>1, <3>2
    <2>2. CASE id \in 1 .. n
      <3>1. t.PacketID = n /\ t.cntError = s.cntError /\ t.cntOutofOrder = s.cntOutofOrder + 1
        BY <1>1, <2>2 DEF CountDatagram
      <3>2. Cardinality(Missing(n, numbers \cup {id})) = Cardinality(Missing(n, numbers)) - 1
        BY <1>1, <1>5, <2>2, MissingFound
      <3> QED
        BY <1>1, <1>5, <3>1, <3>2
    <2>3. CASE id > n
      <3>1. /\ t.PacketID = id /\ t.cntOutofOrder = s.cntOutofOrder
            /\ t.cntError = s.cntError + (id - n - 1)
        BY <1>1, <2>3 DEF CountDatagram
      <3>2. Cardinality(Missing(id, numbers \cup {id})) = Cardinality(Missing(n, numbers)) + (id - n - 1)
        BY <1>1, <1>2, <2>3, MissingSkipped
      <3> QED
        BY <1>1, <1>5, <3>1, <3>2
    <2> QED
      BY <1>1, <2>1, <2>2, <2>3
  <1> QED
    BY <1>3, <1>4, <1>5

-----------------------------------------------------------------------------
USE Bounds

\* Nothing sent, nothing counted.
LEMMA InitHeard == Init => HeardInv
  <1> SUFFICES ASSUME Init
               PROVE  HeardInv
    OBVIOUS
  <1>1. TypeOK
    <2>1. NoStats \in Stats
      BY DEF NoStats, Stats
    <2>2. /\ 0 \in 0 .. MaxLosses /\ 0 \in 0 .. MaxCopies /\ 0 \in 0 .. MaxData /\ 0 \in 0 .. MaxData + 1
          /\ 0 \in 0 .. FinTries /\ 0 \in 0 .. MaxServers /\ 0 \in 0 .. AckWait /\ 0 \in 0 .. AckTries
      BY DEF MaxServers
    <2> QED
      BY <2>1, <2>2, Zenon DEF Init, TypeOK
  <1>2. stats.PacketID = 0 /\ stats.cntError = 0 /\ stats.cntOutofOrder = 0 /\ heard = {}
    BY DEF Init, NoStats
  <1>3. Cardinality((1 .. 0) \ {}) = 0
    <2>1. (1 .. 0) \ {} = {}
      BY SMT
    <2> QED
      BY <2>1, FS_EmptySet
  <1> QED
    BY <1>1, <1>2, <1>3 DEF HeardInv, LossesAddUp

\* The counters and the numbers heard are the server's business.
LEMMA OthersKeepHeard ==
    ASSUME HeardInv, TypeOK', UNCHANGED <<stats, heard, twice>>
    PROVE  HeardInv'
BY DEF HeardInv, LossesAddUp

LEMMA ClientKeepsHeard ==
    ASSUME HeardInv, Client
    PROVE  HeardInv'
  <1> USE DEF HeardInv, LossesAddUp, server, results, network
  <1>1. TypeOK
    OBVIOUS
  <1>2. CASE SendData
    <2>1. TypeOK'
      BY <1>1, <1>2 DEF SendData, TypeOK, Datagram
    <2> QED
      BY <1>2, <2>1, OthersKeepHeard DEF SendData
  <1>3. CASE CloseReport
    <2>1. TypeOK'
      BY <1>1, <1>3 DEF CloseReport, TypeOK
    <2> QED
      BY <1>3, <2>1, OthersKeepHeard DEF CloseReport
  <1>4. CASE write_UDP_FIN
    <2>1. Datagram(-finID) \in [id : -(MaxData + 1) .. MaxData, age : 0 .. Lifetime]
      BY <1>1 DEF Datagram, TypeOK
    <2>2. /\ toServer' \subseteq toServer \cup {Datagram(-finID)}
          /\ toClient' \subseteq toClient
      BY <1>4 DEF write_UDP_FIN
    <2>3. tries' \in 0 .. FinTries /\ cpc' \in {"data", "fin", "wait", "done"} /\ due' = FALSE
      <3>1. CASE tries < FinTries
        BY <1>1, <1>4, <3>1 DEF write_UDP_FIN, TypeOK
      <3>2. CASE ~(tries < FinTries)
        BY <1>1, <1>4, <3>2 DEF write_UDP_FIN, TypeOK
      <3> QED
        BY <3>1, <3>2
    <2>4. UNCHANGED <<losses, copies, sent, finID, acked, server>>
      BY <1>4 DEF write_UDP_FIN
    <2>5. TypeOK'
      BY <1>1, <2>1, <2>2, <2>3, <2>4 DEF TypeOK
    <2> QED
      BY <2>4, <2>5, OthersKeepHeard
  <1>5. CASE ReadAck
    <2>1. TypeOK'
      BY <1>1, <1>5 DEF ReadAck, TypeOK
    <2> QED
      BY <1>5, <2>1, OthersKeepHeard DEF ReadAck
  <1> QED
    BY <1>2, <1>3, <1>4, <1>5 DEF Client

-----------------------------------------------------------------------------
\* The server's part of TypeOK.
ServerTypes ==
    /\ servers \in 0 .. MaxServers /\ spc \in {"none", "recv", "ack", "wait"}
    /\ waited \in 0 .. AckWait /\ acks \in 0 .. AckTries
    /\ stats \in Stats /\ info \in Stats
    /\ heard \subseteq 0 .. MaxData + 1 /\ twice \in BOOLEAN

SumInv == ~twice => stats.cntError - stats.cntOutofOrder = Cardinality((1 .. stats.PacketID) \ heard)

BoundInv == \A id \in heard : id <= stats.PacketID

\* Whoever reads it, a datagram is counted as the numbers heard say.
LEMMA ReadKeepsHeard ==
    ASSUME HeardInv, NEW m \in toServer, Accept(m) \/ Run(m) \/ ReadAgain(m)
    PROVE  ServerTypes' /\ SumInv' /\ BoundInv'
  <1> USE DEF HeardInv, LossesAddUp, SumInv, BoundInv
  <1>1. ServerTypes /\ m.id \in -(MaxData + 1) .. MaxData
    BY DEF TypeOK, ServerTypes
  <1>2. CASE Accept(m) /\ UNCHANGED <<servers, spc, stats, heard, twice>>
    BY <1>1, <1>2 DEF Accept, ServerTypes
  <1>3. CASE Accept(m) /\ stats' = NoStats /\ heard' = {} /\ twice' = FALSE
    <2>1. ServerTypes'
      <3>1. NoStats \in Stats
        BY DEF NoStats, Stats
      <3>2. servers' \in 0 .. MaxServers /\ spc' \in {"none", "recv", "ack", "wait"}
        BY <1>1, <1>3 DEF Accept, ServerTypes, MaxServers
      <3> QED
        BY <1>1, <1>3, <3>1, <3>2 DEF Accept, ServerTypes
    <2>2. (1 .. stats'.PacketID) \ heard' = {}
      BY <1>3 DEF NoStats
    <2> QED
      BY <1>3, <2>1, <2>2, FS_EmptySet DEF NoStats
  <1>4. CASE Run(m)
    <2> DEFINE id == IF m.id < 0 THEN -m.id ELSE m.id
    <2>1. id \in Nat /\ id \in 0 .. MaxData + 1
      BY <1>1
    <2>2. /\ stats' = CountDatagram(stats, id)
          /\ heard' = heard \cup {id}
          /\ twice' = (twice \/ id \in heard)
      BY <1>4 DEF Run
    <2>3. stats \in Stats /\ heard \in SUBSET Nat /\ BoundInv
      BY <1>1 DEF ServerTypes
    <2> HIDE DEF id
    <2>4. /\ stats' \in Stats
          /\ BoundInv'
          /\ ~twice' => stats'.cntError - stats'.cntOutofOrder = Cardinality(Missing(stats'.PacketID, heard'))
      <3>1. ~twice => stats.cntError - stats.cntOutofOrder = Cardinality(Missing(stats.PacketID, heard))
        BY DEF Missing
      <3> QED
        BY <2>1, <2>2, <2>3, <3>1, CountKeepsSum
    <2>5. info' \in Stats
      <3>1. FinalStats(stats') \in Stats
        BY <2>4 DEF FinalStats, Stats
      <3> QED
        BY <1>1, <1>4, <3>1 DEF Run, ServerTypes
    <2>6. ServerTypes'
      <3>1. spc' \in {"none", "recv", "ack", "wait"} /\ acks' \in 0 .. AckTries
        BY <1>1, <1>4 DEF Run, ServerTypes
      <3>2. servers' = servers /\ waited' = waited
        BY <1>4 DEF Run
      <3>3. heard' \subseteq 0 .. MaxData + 1 /\ twice' \in BOOLEAN
        BY <1>1, <2>1, <2>2 DEF ServerTypes
      <3> QED
        BY <1>1, <2>4, <2>5, <3>1, <3>2, <3>3 DEF ServerTypes
    <2> QED
      BY <2>4, <2>6 DEF Missing
  <1>5. CASE ReadAgain(m)
    BY <1>1, <1>5 DEF ReadAgain, results, ServerTypes
  <1> QED
    BY <1>2, <1>3, <1>4, <1>5 DEF Accept

LEMMA ReadDatagramKeepsHeard ==
    ASSUME HeardInv, ReadDatagram
    PROVE  HeardInv'
  <1>1. PICK m \in toServer :
            /\ Accept(m) \/ Run(m) \/ ReadAgain(m)
            /\ \/ toServer' = toServer \ {m} /\ UNCHANGED copies
               \/ copies < MaxCopies /\ copies' = copies + 1 /\ UNCHANGED toServer
            /\ UNCHANGED <<toClient, losses, client>>
    BY DEF ReadDatagram
  <1>2. ServerTypes' /\ SumInv' /\ BoundInv'
    BY <1>1, ReadKeepsHeard
  <1>3. TypeOK'
    <2>1. TypeOK
      BY DEF HeardInv, LossesAddUp
    <2>2. /\ toServer' \subseteq [id : -(MaxData + 1) .. MaxData, age : 0 .. Lifetime]
          /\ copies' \in 0 .. MaxCopies
      BY <1>1, <2>1 DEF TypeOK
    <2> QED
      BY <1>1, <1>2, <2>1, <2>2 DEF TypeOK, ServerTypes, client
  <1> QED
    BY <1>2, <1>3 DEF HeardInv, LossesAddUp, SumInv, BoundInv

LEMMA ServerKeepsHeard ==
    ASSUME HeardInv, Server
    PROVE  HeardInv'
  <1>1. TypeOK
    BY DEF HeardInv, LossesAddUp
  <1>2. CASE write_UDP_AckFIN
    <2>1. toClient' \subseteq 0 .. Lifetime
      <3>1. toClient' \subseteq toClient \cup {0}
        BY <1>2 DEF write_UDP_AckFIN
      <3>2. toClient \subseteq 0 .. Lifetime /\ 0 \in 0 .. Lifetime
        BY <1>1 DEF TypeOK
      <3> QED
        BY <3>1, <3>2
    <2>2. spc' \in {"none", "recv", "ack", "wait"} /\ waited' \in 0 .. AckWait /\ acks' \in 0 .. AckTries
      BY <1>1, <1>2 DEF write_UDP_AckFIN, TypeOK
    <2>3. UNCHANGED <<toServer, losses, copies, client, servers, results>>
      BY <1>2 DEF write_UDP_AckFIN
    <2>4. TypeOK'
      BY <1>1, <2>1, <2>2, <2>3 DEF TypeOK, client, results
    <2> QED
      BY <2>3, <2>4, OthersKeepHeard DEF results
  <1>3. CASE AckTimeout
    <2>1. TypeOK'
      BY <1>1, <1>3 DEF AckTimeout, TypeOK, network, client, results
    <2> QED
      BY <1>3, <2>1, OthersKeepHeard DEF AckTimeout, results
  <1> QED
    BY <1>2, <1>3 DEF Server

-----------------------------------------------------------------------------
LEMMA LoseKeepsHeard ==
    ASSUME HeardInv, Lose
    PROVE  HeardInv'
  <1>1. TypeOK
    BY DEF HeardInv, LossesAddUp
  <1>2. /\ toServer' \subseteq [id : -(MaxData + 1) .. MaxData, age : 0 .. Lifetime]
        /\ toClient' \subseteq 0 .. Lifetime
        /\ losses' \in 0 .. MaxLosses
    <2>1. toServer' \subseteq toServer /\ toClient' \subseteq toClient
      BY DEF Lose
    <2>2. losses' \in 0 .. MaxLosses
      BY <1>1 DEF Lose, TypeOK
    <2> QED
      BY <1>1, <2>1, <2>2 DEF TypeOK
  <1>3. UNCHANGED <<copies, client, server>>
    BY DEF Lose
  <1>4. TypeOK'
    BY <1>1, <1>2, <1>3 DEF TypeOK, client, server, results
  <1> QED
    BY <1>3, <1>4, OthersKeepHeard DEF server, results

LEMMA TickKeepsHeard ==
    ASSUME HeardInv, Tick
    PROVE  HeardInv'
  <1>1. TypeOK
    BY DEF HeardInv, LossesAddUp
  <1>2. toServer' \subseteq [id : -(MaxData + 1) .. MaxData, age : 0 .. Lifetime]
    <2> SUFFICES ASSUME NEW m \in toServer
                 PROVE  [m EXCEPT !.age = @ + 1] \in [id : -(MaxData + 1) .. MaxData, age : 0 .. Lifetime]
      BY DEF Tick
    <2>1. m \in [id : -(MaxData + 1) .. MaxData, age : 0 .. Lifetime] /\ m.age < Lifetime
      BY <1>1 DEF TypeOK, Tick, Quiet
    <2> QED
      BY <2>1
  <1>3. toClient' \subseteq 0 .. Lifetime
    BY <1>1 DEF TypeOK, Tick, Quiet
  <1>4. waited' \in 0 .. AckWait /\ due' \in BOOLEAN
    BY <1>1 DEF TypeOK, Tick, Quiet
  <1>5. TypeOK'
    BY <1>1, <1>2, <1>3, <1>4 DEF Tick, TypeOK, results
  <1> QED
    BY <1>5, OthersKeepHeard DEF Tick, results

-----------------------------------------------------------------------------
LEMMA StepHeard == HeardInv /\ [Next]_vars => HeardInv'
  <1> SUFFICES ASSUME HeardInv, [Next]_vars
               PROVE  HeardInv'
    OBVIOUS
  <1>1. CASE UNCHANGED vars
    BY <1>1 DEF vars, network, client, server, results, HeardInv, LossesAddUp, TypeOK
  <1> QED
    BY <1>1, ClientKeepsHeard, ReadDatagramKeepsHeard, ServerKeepsHeard, LoseKeepsHeard, TickKeepsHeard
    DEF Next

\* However the network loses, delays, reorders and copies: while no number comes
\* twice, what the server counts as lost, less what came out of order, is the
\* numbers up to the highest that it has not heard (reporter_handle_packet), and
\* all variables keep their types.
THEOREM CountersHold == Spec => []LossesAddUp
  <1>1. HeardInv => LossesAddUp
    BY DEF HeardInv
  <1> QED
    BY InitHeard, StepHeard, <1>1, PTL DEF Spec

-----------------------------------------------------------------------------
(* No server is started by what is late.  The client has sent everything   *)
(* of the test before its closing datagram, so what is still on its way    *)
(* when the server hears that ages as the server waits.                    *)

Closing == cpc \in {"wait", "done"}

\* Datagrams on their way that would start a server.
Late == {m \in toServer : m.id >= 0}

\* The server is about to end after its last acknowledgement while some are late.
Hurried == spc = "ack" /\ acks = AckTries /\ Late # {}

\* What the client has sent: closings after everything else, one a tick.
SentInv ==
    /\ \A m \in toServer : m.id < 0 => Closing /\ finID > 0
    /\ spc \in {"ack", "wait"} \/ (spc = "none" /\ servers > 0) => Closing /\ finID > 0
    /\ cpc \in {"data", "fin"} => tries = 0
    /\ due => cpc = "wait"
    /\ Closing /\ finID > 0 =>
          \A m \in Late : tries + (IF due THEN 1 ELSE 0) <= m.age + 1

\* What late datagrams there are when the server waits are as old as its wait.
WaitInv ==
    /\ servers <= 1
    /\ servers = 0 => spc = "none"
    /\ spc = "wait" => \A m \in Late : m.age >= waited
    /\ spc = "none" /\ servers > 0 => Late = {}

LEMMA InitSent == Init => SentInv /\ WaitInv
BY DEF Init, SentInv, WaitInv, Late, Closing

Datagrams == [id : -(MaxData + 1) .. MaxData, age : 0 .. Lifetime]

\* Nothing that goes leaves more behind.
LEMMA FewerLate ==
    ASSUME toServer' \subseteq toServer
    PROVE  Late' \subseteq Late
BY DEF Late

LEMMA ClientKeepsSent ==
    ASSUME TypeOK, SentInv, Client
    PROVE  SentInv'
  <1>1. toServer \subseteq Datagrams /\ sent \in Nat /\ finID \in Nat /\ tries \in Nat
    BY DEF TypeOK, Datagrams
  <1>2. CASE SendData
    <2>1. /\ cpc = "data" /\ toServer' = toServer \cup {Datagram(sent)}
          /\ UNCHANGED <<finID, tries, cpc, due, servers, spc>>
      BY <1>2 DEF SendData, server
    <2>2. ~(Datagram(sent).id < 0)
      BY <1>1 DEF Datagram
    <2>3. ~Closing /\ ~Closing'
      BY <2>1 DEF Closing
    <2>4. \A m \in toServer' : ~(m.id < 0)
      BY <2>1, <2>2, <2>3 DEF SentInv
    <2>5. ~(spc' \in {"ack", "wait"} \/ (spc' = "none" /\ servers' > 0))
      BY <2>1, <2>3 DEF SentInv
    <2> QED
      BY <2>1, <2>3, <2>4, <2>5 DEF SentInv
  <1>3. CASE CloseReport
    <2>1. /\ cpc = "data" /\ cpc' = "fin" /\ UNCHANGED <<toServer, tries, due, servers, spc>>
      BY <1>3 DEF CloseReport, server, network
    <2> QED
      BY <2>1 DEF SentInv, Closing
  <1>4. CASE write_UDP_FIN
    <2>1. /\ cpc = "fin" \/ (cpc = "wait" /\ due)
          /\ due' = FALSE
          /\ UNCHANGED <<finID, servers, spc>>
      BY <1>4 DEF write_UDP_FIN, server
    <2>2. CASE tries < FinTries
      <3>1. /\ toServer' = toServer \cup {Datagram(-finID)} /\ tries' = tries + 1 /\ cpc' = "wait"
        BY <1>4, <2>2 DEF write_UDP_FIN
      <3>2. Closing'
        BY <3>1 DEF Closing
      <3>3. \A m \in toServer' : m.id < 0 => finID > 0
        <4>1. Datagram(-finID).id < 0 => finID > 0
          BY <1>1 DEF Datagram
        <4> QED
          BY <3>1, <4>1 DEF SentInv
      <3>4. ASSUME finID > 0, NEW m \in Late'
            PROVE  tries + 1 <= m.age + 1
        <4>1. m # Datagram(-finID)
          BY <1>1, <3>4 DEF Late, Datagram
        <4>2. m \in Late /\ m.age \in Nat
          BY <1>1, <3>1, <3>4, <4>1 DEF Late, Datagrams
        <4>3. CASE cpc = "fin"
          BY <1>1, <4>2, <4>3 DEF SentInv
        <4>4. CASE cpc = "wait" /\ due
          BY <1>1, <3>4, <4>2, <4>4 DEF SentInv, Closing
        <4> QED
          BY <2>1, <4>3, <4>4
      <3>5. spc \in {"ack", "wait"} \/ (spc = "none" /\ servers > 0) => finID > 0
        BY DEF SentInv
      <3> QED
        BY <2>1, <3>1, <3>2, <3>3, <3>4, <3>5 DEF SentInv
    <2>3. CASE ~(tries < FinTries)
      <3>1. UNCHANGED <<toServer, tries>> /\ cpc' = "done"
        BY <1>4, <2>3 DEF write_UDP_FIN
      <3>2. CASE cpc = "fin"
        <4>1. tries = 0 /\ \A m \in Late : m.age \in Nat
          BY <1>1, <3>2 DEF SentInv, Late, Datagrams
        <4> QED
          BY <2>1, <3>1, <4>1 DEF SentInv, Closing, Late
      <3>3. CASE cpc = "wait" /\ due
        <4>1. \A m \in Late : m.age \in Nat
          BY <1>1 DEF Late, Datagrams
        <4> QED
          BY <1>1, <2>1, <3>1, <3>3, <4>1 DEF SentInv, Closing, Late
      <3> QED
        BY <2>1, <3>2, <3>3
    <2> QED
      BY <2>2, <2>3
  <1>5. CASE ReadAck
    <2>1. /\ cpc = "wait" /\ cpc' = "done" /\ due' = FALSE
          /\ UNCHANGED <<toServer, finID, tries, servers, spc>>
      BY <1>5 DEF ReadAck, server
    <2>2. \A m \in Late : m.age \in Nat
      BY <1>1 DEF Late, Datagrams
    <2> QED
      BY <1>1, <2>1, <2>2 DEF SentInv, Closing, Late
  <1> QED
    BY <1>2, <1>3, <1>4, <1>5 DEF Client

\* The server hears of the end from a closing datagram only.
LEMMA ReadKeepsSent ==
    ASSUME TypeOK, SentInv, ReadDatagram
    PROVE  SentInv'
  <1>1. PICK m \in toServer :
            /\ Accept(m) \/ Run(m) \/ ReadAgain(m)
            /\ toServer' = toServer \ {m} \/ UNCHANGED toServer
            /\ UNCHANGED client
    BY DEF ReadDatagram
  <1>2. toServer' \subseteq toServer /\ Late' \subseteq Late
    BY <1>1, FewerLate
  <1>3. UNCHANGED <<finID, tries, cpc, due>>
    BY <1>1 DEF client
  <1>4. spc' \in {"ack", "wait"} \/ (spc' = "none" /\ servers' > 0) => Closing /\ finID > 0
    <2>1. CASE Accept(m)
      BY <2>1 DEF Accept, SentInv
    <2>2. CASE Run(m)
      BY <2>2 DEF Run, SentInv
    <2>3. CASE ReadAgain(m)
      BY <2>3 DEF ReadAgain, SentInv
    <2> QED
      BY <1>1, <2>1, <2>2, <2>3
  <1> QED
    BY <1>2, <1>3, <1>4 DEF SentInv, Closing

LEMMA ServerKeepsSent ==
    ASSUME SentInv, Server
    PROVE  SentInv'
  <1>1. UNCHANGED <<toServer, finID, tries, cpc, due, servers>>
    BY DEF Server, write_UDP_AckFIN, AckTimeout, client, network
  <1>2. spc \in {"ack", "wait"}
    BY DEF Server, write_UDP_AckFIN, AckTimeout
  <1>3. Closing' /\ finID' > 0
    BY <1>1, <1>2 DEF SentInv, Closing
  <1> QED
    BY <1>1, <1>3 DEF SentInv, Closing, Late

LEMMA LoseKeepsSent ==
    ASSUME SentInv, Lose
    PROVE  SentInv'
  <1>1. toServer' \subseteq toServer /\ UNCHANGED <<finID, tries, cpc, due, servers, spc>>
    BY DEF Lose, client, server
  <1> QED
    BY <1>1, FewerLate DEF SentInv, Closing

\* A tick makes datagrams older and leaves their numbers.
LEMMA TickAges ==
    ASSUME TypeOK, Tick, NEW m \in toServer'
    PROVE  \E n \in toServer : m.id = n.id /\ m.age = n.age + 1 /\ n.age \in Nat
  <1>1. PICK n \in toServer : m = [n EXCEPT !.age = @ + 1]
    BY DEF Tick
  <1>2. n \in Datagrams
    BY DEF TypeOK, Datagrams
  <1> QED
    BY <1>1, <1>2 DEF Datagrams

LEMMA TickKeepsSent ==
    ASSUME TypeOK, SentInv, Tick
    PROVE  SentInv'
  <1>1. /\ ~due /\ due' = (cpc = "wait")
        /\ UNCHANGED <<finID, tries, cpc, servers, spc>>
    BY DEF Tick, Quiet
  <1>2. Closing' = Closing
    BY <1>1 DEF Closing
  <1>3. \A m \in toServer' : m.id < 0 => Closing /\ finID > 0
    BY TickAges DEF SentInv
  <1>4. ASSUME Closing, finID > 0, NEW m \in Late'
        PROVE  tries + 1 <= m.age + 1
    <2>1. PICK n \in toServer : m.id = n.id /\ m.age = n.age + 1 /\ n.age \in Nat
      BY <1>4, TickAges DEF Late
    <2>2. n \in Late /\ tries \in Nat
      BY <1>4, <2>1 DEF Late, TypeOK
    <2> QED
      BY <1>1, <1>4, <2>1, <2>2 DEF SentInv
  <1>5. \A m \in Late' : m.age \in Nat
    BY TickAges DEF Late
  <1>6. tries \in Nat
    BY DEF TypeOK
  <1>7. Closing' /\ finID' > 0 => \A m \in Late' : tries' + (IF due' THEN 1 ELSE 0) <= m.age + 1
    BY <1>1, <1>2, <1>4, <1>5, <1>6
  <1> QED
    BY <1>1, <1>2, <1>3, <1>7 DEF SentInv

LEMMA StepSent == TypeOK /\ SentInv /\ [Next]_vars => SentInv'
  <1> SUFFICES ASSUME TypeOK, SentInv, [Next]_vars
               PROVE  SentInv'
    OBVIOUS
  <1>1. CASE UNCHANGED vars
    BY <1>1 DEF vars, network, client, server, SentInv, Closing, Late
  <1> QED
    BY <1>1, ClientKeepsSent, ReadKeepsSent, ServerKeepsSent, LoseKeepsSent, TickKeepsSent DEF Next

-----------------------------------------------------------------------------
LEMMA ClientKeepsWait ==
    ASSUME TypeOK, SentInv, WaitInv, Client
    PROVE  WaitInv'
  <1>1. UNCHANGED <<servers, spc, waited>>
    BY DEF Client, SendData, CloseReport, write_UDP_FIN, ReadAck, server
  <1>2. CASE spc = "recv" \/ servers = 0
    BY <1>1, <1>2 DEF WaitInv
  <1>3. CASE spc # "recv" /\ servers # 0
    <2>1. Closing /\ finID > 0
      <3>1. spc \in {"ack", "wait"} \/ (spc = "none" /\ servers > 0)
        BY <1>3 DEF TypeOK
      <3> QED
        BY <3>1 DEF SentInv
    <2>2. toServer' \subseteq toServer \cup {Datagram(-finID)}
      BY <2>1 DEF Client, SendData, CloseReport, write_UDP_FIN, ReadAck, network, Closing
    <2>3. ~(Datagram(-finID).id >= 0)
      BY <2>1 DEF Datagram, TypeOK
    <2>4. Late' \subseteq Late
      BY <2>2, <2>3 DEF Late
    <2> QED
      BY <1>1, <2>4 DEF WaitInv
  <1> QED
    BY <1>2, <1>3

\* After the first server there is nothing that would start another.
LEMMA ReadKeepsWait ==
    ASSUME TypeOK, SentInv, WaitInv, ReadDatagram
    PROVE  WaitInv'
  <1>1. PICK m \in toServer :
            /\ Accept(m) \/ Run(m) \/ ReadAgain(m)
            /\ toServer' = toServer \ {m} \/ UNCHANGED toServer
    BY DEF ReadDatagram
  <1>2. Late' \subseteq Late
    BY <1>1, FewerLate
  <1>3. servers \in 0 .. MaxServers
    BY DEF TypeOK
  <1>4. CASE Accept(m) /\ UNCHANGED <<servers, spc>>
    BY <1>2, <1>4 DEF Accept, WaitInv
  <1>5. CASE Accept(m) /\ servers' = servers + 1 /\ spc' = "recv" /\ m.id >= 0
    <2>1. m \in Late
      BY <1>5 DEF Late
    <2>2. servers = 0
      BY <1>3, <1>5, <2>1 DEF Accept, WaitInv
    <2> QED
      BY <1>5, <2>2 DEF WaitInv
  <1>6. CASE Run(m)
    <2>1. spc = "recv" /\ spc' \in {"recv", "ack"} /\ UNCHANGED servers
      BY <1>6 DEF Run
    <2> QED
      BY <2>1 DEF WaitInv
  <1>7. CASE ReadAgain(m)
    BY <1>7 DEF ReadAgain, WaitInv
  <1>8. Accept(m) => \/ UNCHANGED <<servers, spc>>
                     \/ servers' = servers + 1 /\ spc' = "recv" /\ m.id >= 0
    BY DEF Accept
  <1> QED
    BY <1>1, <1>4, <1>5, <1>6, <1>7, <1>8

\* The server ends when it has waited longer than a datagram lives.
LEMMA ServerKeepsWait ==
    ASSUME Lifetime < AckWait, TypeOK, WaitInv, ~Hurried, Server
    PROVE  WaitInv'
  <1>1. toServer \subseteq Datagrams /\ acks \in 0 .. AckTries
    BY DEF TypeOK, Datagrams
  <1>2. CASE write_UDP_AckFIN
    <2>1. spc = "ack" /\ UNCHANGED <<toServer, servers>> /\ servers # 0
      BY <1>2 DEF write_UDP_AckFIN, WaitInv
    <2>2. CASE acks < AckTries
      <3>1. spc' = "wait" /\ waited' = 0
        BY <1>2, <2>2 DEF write_UDP_AckFIN
      <3>2. \A m \in Late' : m.age >= 0
        BY <1>1, <2>1 DEF Late, Datagrams
      <3> QED
        BY <2>1, <3>1, <3>2 DEF WaitInv
    <2>3. CASE ~(acks < AckTries)
      <3>1. spc' = "none" /\ acks = AckTries
        BY <1>1, <1>2, <2>3 DEF write_UDP_AckFIN
      <3>2. Late' = {}
        BY <2>1, <3>1 DEF Hurried, Late
      <3> QED
        BY <2>1, <3>1, <3>2 DEF WaitInv
    <2> QED
      BY <2>2, <2>3
  <1>3. CASE AckTimeout
    <2>1. spc = "wait" /\ waited = AckWait /\ spc' = "none" /\ UNCHANGED <<toServer, servers>>
      BY <1>3 DEF AckTimeout, network
    <2>2. Late = {}
      <3> SUFFICES ASSUME NEW m \in Late
                   PROVE  FALSE
        OBVIOUS
      <3>1. m.age >= AckWait
        BY <2>1 DEF WaitInv
      <3>2. m.age \in 0 .. Lifetime
        BY <1>1 DEF Late, Datagrams
      <3> QED
        BY <3>1, <3>2
    <2> QED
      BY <2>1, <2>2 DEF WaitInv, Late
  <1> QED
    BY <1>2, <1>3 DEF Server

LEMMA LoseKeepsWait ==
    ASSUME WaitInv, Lose
    PROVE  WaitInv'
  <1>1. toServer' \subseteq toServer /\ UNCHANGED <<servers, spc, waited>>
    BY DEF Lose, server
  <1> QED
    BY <1>1, FewerLate DEF WaitInv

LEMMA TickKeepsWait ==
    ASSUME TypeOK, WaitInv, Tick
    PROVE  WaitInv'
  <1>1. UNCHANGED <<servers, spc>> /\ (spc = "wait" => waited' = waited + 1)
    BY DEF Tick
  <1>2. \A m \in Late' : \E n \in Late : m.age = n.age + 1 /\ n.age \in Nat
    BY TickAges DEF Late
  <1>3. waited \in Nat
    BY DEF TypeOK
  <1>4. spc' = "wait" => \A m \in Late' : m.age >= waited'
    BY <1>1, <1>2, <1>3 DEF WaitInv
  <1> QED
    BY <1>1, <1>2, <1>4 DEF WaitInv

LEMMA StepWait ==
    Lifetime < AckWait => (TypeOK /\ SentInv /\ WaitInv /\ ~Hurried /\ [Next]_vars => WaitInv')
  <1> SUFFICES ASSUME Lifetime < AckWait, TypeOK, SentInv, WaitInv, ~Hurried, [Next]_vars
               PROVE  WaitInv'
    OBVIOUS
  <1>1. CASE UNCHANGED vars
    BY <1>1 DEF vars, network, client, server, WaitInv, Late
  <1> QED
    BY <1>1, ClientKeepsWait, ReadKeepsWait, ServerKeepsWait, LoseKeepsWait, TickKeepsWait DEF Next

\* For any test, tries, losses and copies: when the server waits longer than a
\* datagram is on its way (a second), and does not run out of acknowledgements
\* while there are some, a late datagram starts no server (Listener::Accept after
\* write_UDP_AckFIN).
THEOREM WaitIsEnough ==
    ASSUME Lifetime < AckWait
    PROVE  Spec /\ []~Hurried => []NoGhostServer
  <1>1. LossesAddUp => TypeOK
    BY DEF LossesAddUp
  <1>2. WaitInv => NoGhostServer
    BY DEF WaitInv, NoGhostServer
  <1>3. TypeOK /\ SentInv /\ WaitInv /\ ~Hurried /\ [Next]_vars => WaitInv'
    BY StepWait
  <1> QED
    BY CountersHold, InitSent, StepSent, <1>1, <1>2, <1>3, PTL DEF Spec

-----------------------------------------------------------------------------
(* The result arrives.  The clock is the number of closings sent, and one  *)
(* more when the next is due; closing number i is Clock - i ticks old.  Up *)
(* to Span of them may come before the server starts, an acknowledgement   *)
(* that is lost may have been for Span of them, and a loss takes one.  So  *)
(* after losing n the server has acknowledged by Span * (n + 2).           *)

Clock == tries + (IF due THEN 1 ELSE 0)
Span == Lifetime + 1
Reach(n) == Span * n

\* The last closing that may be gone without a loss: an acknowledgement was for
\* it, or there was no server.
Since == IF spc = "recv" THEN Span ELSE Clock - waited
Gone == {i \in Since + 1 .. tries : [id |-> -finID, age |-> Clock - i] \notin toServer}

\* Some acknowledgement on its way was sent in time.
AckNear == toClient # {} => \E age \in toClient : Clock - age <= Reach(losses + 2)

RecvInv == spc = "recv" => toClient = {} /\ Cardinality(Gone) <= losses

WaitingInv ==
    spc = "wait" =>
        /\ \A age \in toClient : age >= waited
        /\ Cardinality(Gone) <= losses
        /\ toClient = {} => Cardinality(Gone) < losses
        /\ Since <= Reach(losses - Cardinality(Gone) + Cardinality(toClient) + 1)
        /\ AckNear

AckInv ==
    spc = "ack" =>
        /\ Clock <= Reach(losses + Cardinality(toClient) + (IF 0 \in toClient THEN 1 ELSE 2))
        /\ AckNear

\* While the client closes.
ServerInv == spc # "none" /\ RecvInv /\ WaitingInv /\ AckInv

EndInv ==
    /\ cpc \in {"data", "fin"} => toClient = {} /\ (servers > 0 => spc = "recv")
    /\ servers = 0 => spc = "none" /\ toClient = {}
    /\ finID > 0 /\ cpc = "wait" /\ servers > 0 => ServerInv
    /\ finID > 0 /\ cpc = "done" /\ ~acked => servers = 0 /\ Late = {}

\* The server has no acknowledgement left while the client waits for one.
Exhausted == cpc = "wait" /\ finID > 0 /\ spc = "ack" /\ acks = AckTries

\* What the bounds must be: the wait outlasts the losses and a delay, and the tries
\* what the losses and delays can spoil.
Patient == MaxLosses + Lifetime < AckWait
Persistent == Reach(MaxLosses + 2) + Lifetime <= FinTries

LEMMA ReachType == Span \in Nat /\ Span > 0 /\ \A n \in Int : Reach(n) \in Int
BY Bounds DEF Span, Reach

LEMMA ReachAdds ==
    ASSUME NEW m \in Int, NEW n \in Int
    PROVE  Reach(m + n) = Reach(m) + Reach(n)
BY ReachType DEF Reach

LEMMA ReachGrows ==
    ASSUME NEW n \in Nat
    PROVE  n <= Reach(n) /\ Reach(n) \in Nat
  <1>1. Reach(n) = n + Lifetime * n /\ Lifetime * n \in Nat
    BY Bounds DEF Reach, Span
  <1> QED
    BY <1>1

LEMMA ReachMore ==
    ASSUME NEW m \in Int, NEW n \in Int, m <= n
    PROVE  Reach(m) <= Reach(n)
  <1>1. Reach(n) = Reach(m) + Reach(n - m)
    <2>1. m + (n - m) = n /\ n - m \in Int
      OBVIOUS
    <2> QED
      BY <2>1, ReachAdds
  <1>2. n - m \in Nat
    OBVIOUS
  <1>3. Reach(n - m) >= 0 /\ Reach(m) \in Int /\ Reach(n) \in Int /\ Reach(n - m) \in Int
    BY <1>2, ReachGrows, ReachType
  <1> QED
    BY <1>1, <1>3

LEMMA ReachSmall == Reach(1) = Span /\ Reach(2) = Span + Span
BY ReachType DEF Reach

LEMMA Numbers ==
    ASSUME TypeOK
    PROVE  /\ Clock \in Nat /\ tries \in Nat /\ waited \in Nat /\ Since \in Int /\ losses \in Nat
           /\ finID \in Nat /\ tries <= Clock /\ Clock <= tries + 1
           /\ losses <= MaxLosses /\ waited <= AckWait
BY ReachType, Bounds DEF TypeOK, Clock, Since

LEMMA GoneFinite ==
    ASSUME TypeOK
    PROVE  IsFiniteSet(Gone) /\ Cardinality(Gone) \in Nat
  <1>1. IsFiniteSet(Since + 1 .. tries)
    BY Numbers, FS_Interval
  <1>2. Gone \in SUBSET (Since + 1 .. tries)
    BY DEF Gone
  <1> QED
    BY <1>1, <1>2, FS_Subset, FS_CardinalityType

LEMMA AcksFinite ==
    ASSUME TypeOK
    PROVE  /\ IsFiniteSet(toClient) /\ Cardinality(toClient) \in Nat
           /\ Cardinality(toClient) = 0 <=> toClient = {}
  <1>1. IsFiniteSet(0 .. Lifetime) /\ toClient \in SUBSET (0 .. Lifetime)
    BY Bounds, FS_Interval DEF TypeOK
  <1>2. IsFiniteSet(toClient)
    BY <1>1, FS_Subset
  <1> QED
    BY <1>2, FS_CardinalityType, FS_EmptySet

\* What is older than a lifetime is gone.
LEMMA GoneIsOld ==
    ASSUME TypeOK
    PROVE  Clock <= Span + Since + Cardinality(Gone)
  <1> DEFINE old == Since + 1 .. Clock - Span
  <1>1. /\ Clock \in Nat /\ tries \in Nat /\ Since \in Int /\ Span \in Nat /\ Span > 0
        /\ Clock <= tries + 1 /\ finID \in Nat
    BY Numbers, ReachType
  <1>2. old \subseteq Gone
    <2> SUFFICES ASSUME NEW i \in old
                 PROVE  i \in Gone
      OBVIOUS
    <2>1. i \in Since + 1 .. tries /\ Clock - i > Lifetime
      BY <1>1, Bounds DEF Span
    <2>2. [id |-> -finID, age |-> Clock - i] \notin toServer
      <3> SUFFICES ASSUME [id |-> -finID, age |-> Clock - i] \in toServer
                   PROVE  FALSE
        OBVIOUS
      <3>1. Clock - i \in 0 .. Lifetime
        BY DEF TypeOK
      <3> QED
        BY <2>1, <3>1, <1>1, Bounds
    <2> QED
      BY <2>1, <2>2 DEF Gone
  <1>3. IsFiniteSet(Gone) /\ Cardinality(Gone) \in Nat
    BY GoneFinite
  <1>4. Cardinality(old) <= Cardinality(Gone)
    BY <1>2, <1>3, FS_Subset
  <1>5. Cardinality(old) = IF Since + 1 > Clock - Span THEN 0 ELSE Clock - Span - (Since + 1) + 1
    BY <1>1, FS_Interval
  <1> QED
    BY <1>1, <1>3, <1>4, <1>5

\* How far the clock can have come when the server reads something, and how far
\* without an acknowledgement on its way.
LEMMA RecvReach ==
    ASSUME TypeOK, spc = "recv", RecvInv
    PROVE  Clock <= Reach(losses + 2)
  <1>1. Since = Span /\ Cardinality(Gone) <= losses /\ Cardinality(Gone) \in Nat
    BY GoneFinite DEF RecvInv, Since
  <1>2. Clock <= Span + Span + Cardinality(Gone)
    BY <1>1, GoneIsOld
  <1>3. losses \in Nat /\ Clock \in Nat /\ Span \in Nat
    BY Numbers, ReachType
  <1>4. Reach(losses + 2) = Reach(losses) + Reach(2)
    BY <1>3, ReachAdds
  <1>5. losses <= Reach(losses) /\ Reach(losses) \in Nat
    BY <1>3, ReachGrows
  <1> QED
    BY <1>1, <1>2, <1>3, <1>4, <1>5, ReachSmall

LEMMA WaitReach ==
    ASSUME TypeOK, spc = "wait", WaitingInv
    PROVE  Clock <= Reach(losses + Cardinality(toClient) + 2)
  <1> DEFINE g == Cardinality(Gone)
             c == Cardinality(toClient)
  <1>1. g \in Nat /\ c \in Nat /\ losses \in Nat /\ Clock \in Nat /\ Span \in Nat /\ Since \in Int
    BY GoneFinite, AcksFinite, Numbers, ReachType
  <1>2. Clock <= Span + Since + g
    BY GoneIsOld
  <1>3. Since <= Reach(losses - g + c + 1)
    BY DEF WaitingInv
  <1> HIDE DEF g, c
  <1>4. Reach((losses - g + c + 1) + g) = Reach(losses - g + c + 1) + Reach(g)
    BY <1>1, ReachAdds
  <1>5. Reach(((losses - g + c + 1) + g) + 1) = Reach((losses - g + c + 1) + g) + Span
    BY <1>1, ReachAdds, ReachSmall
  <1>6. ((losses - g + c + 1) + g) + 1 = losses + c + 2
    BY <1>1
  <1>7. g <= Reach(g) /\ Reach(g) \in Int /\ Reach(losses - g + c + 1) \in Int
    BY <1>1, ReachGrows, ReachType
  <1>8. Clock <= Reach(losses + c + 2)
    BY <1>1, <1>2, <1>3, <1>4, <1>5, <1>6, <1>7
  <1> QED
    BY <1>8 DEF c

LEMMA InitEnd == Init => EndInv
BY DEF Init, EndInv

\* What the actions leave alone.
LEMMA SameGone ==
    ASSUME UNCHANGED <<toServer, finID, tries, due, spc, waited>>
    PROVE  Gone' = Gone /\ Clock' = Clock /\ Since' = Since
BY DEF Gone, Since, Clock

LEMMA ReadReach ==
    ASSUME TypeOK, ServerInv
    PROVE  Clock <= Reach(losses + Cardinality(toClient) + 2)
  <1>1. CASE spc = "recv"
    <2>1. toClient = {} /\ Cardinality(toClient) = 0 /\ losses \in Nat
      BY <1>1, AcksFinite, Numbers DEF ServerInv, RecvInv
    <2>2. Clock <= Reach(losses + 2)
      BY <1>1, RecvReach DEF ServerInv
    <2>3. losses + Cardinality(toClient) + 2 = losses + 2
      BY <2>1
    <2> QED
      BY <2>2, <2>3
  <1>2. CASE spc = "wait"
    BY <1>2, WaitReach DEF ServerInv
  <1>3. CASE spc = "ack"
    <2> DEFINE c == Cardinality(toClient)
    <2>1. losses \in Nat /\ c \in Nat /\ Clock \in Nat
      BY AcksFinite, Numbers
    <2>2. Clock <= Reach(losses + c + (IF 0 \in toClient THEN 1 ELSE 2))
      BY <1>3 DEF ServerInv, AckInv
    <2> HIDE DEF c
    <2>3. Reach(losses + c + 1) <= Reach(losses + c + 2)
      BY <2>1, ReachMore
    <2>4. Reach(losses + c + 1) \in Int /\ Reach(losses + c + 2) \in Int
      BY <2>1, ReachType
    <2>5. Clock <= Reach(losses + c + 2)
      BY <2>1, <2>2, <2>3, <2>4
    <2> QED
      BY <2>5 DEF c
  <1> QED
    BY <1>1, <1>2, <1>3 DEF ServerInv, TypeOK

\* A datagram read after the first closing, or that one.
LEMMA NowAck ==
    ASSUME TypeOK, ServerInv, spc \in {"recv", "wait"}, spc' = "ack",
           UNCHANGED <<toClient, tries, due, losses>>
    PROVE  ServerInv'
  <1> DEFINE c == Cardinality(toClient)
  <1>1. Clock' = Clock /\ losses' = losses /\ toClient' = toClient
    BY DEF Clock
  <1>2. Clock <= Reach(losses + c + 2)
    BY ReadReach
  <1>3. ASSUME 0 \in toClient
        PROVE  Clock <= Reach(losses + c + 1)
    <2>1. spc = "wait"
      BY <1>3 DEF ServerInv, RecvInv
    <2>2. waited = 0
      BY <1>3, <2>1, Numbers DEF ServerInv, WaitingInv
    <2>3. Since = Clock
      BY <2>1, <2>2, Numbers DEF Since
    <2>4. Clock <= Reach(losses - Cardinality(Gone) + c + 1) /\ Cardinality(Gone) \in Nat
      BY <2>1, <2>3, GoneFinite DEF ServerInv, WaitingInv
    <2>5. losses \in Nat /\ c \in Nat /\ Clock \in Nat
      BY AcksFinite, Numbers
    <2> HIDE DEF c
    <2>6. Reach(losses - Cardinality(Gone) + c + 1) <= Reach(losses + c + 1)
      BY <2>4, <2>5, ReachMore
    <2>7. Reach(losses - Cardinality(Gone) + c + 1) \in Int /\ Reach(losses + c + 1) \in Int
      BY <2>4, <2>5, ReachType
    <2> QED
      BY <2>4, <2>5, <2>6, <2>7
  <1>4. AckNear
    BY DEF ServerInv, RecvInv, WaitingInv, AckNear
  <1>5. AckNear'
    BY <1>1, <1>4 DEF AckNear, Reach, Span
  <1>6. Clock' <= Reach(losses' + Cardinality(toClient') + (IF 0 \in toClient' THEN 1 ELSE 2))
    BY <1>1, <1>2, <1>3 DEF Reach, Span
  <1>7. AckInv'
    BY <1>5, <1>6 DEF AckInv, Reach, Span
  <1> QED
    BY <1>7 DEF ServerInv, RecvInv, WaitingInv

\* A datagram of the test is no closing.
LEMMA DataRead ==
    ASSUME TypeOK, ServerInv, finID > 0, NEW m \in toServer, m.id >= 0, spc = "recv",
           toServer' = toServer \ {m} \/ UNCHANGED toServer,
           UNCHANGED <<toClient, finID, tries, due, losses, spc, waited>>
    PROVE  ServerInv'
  <1>1. Clock' = Clock /\ Since' = Since
    BY DEF Clock, Since
  <1>2. Gone' = Gone
    <2> SUFFICES ASSUME NEW i \in Since + 1 .. tries
                 PROVE  [id |-> -finID, age |-> Clock - i] \in toServer' <=>
                        [id |-> -finID, age |-> Clock - i] \in toServer
      BY <1>1 DEF Gone
    <2>1. [id |-> -finID, age |-> Clock - i].id = -finID /\ finID \in Nat
      BY Numbers
    <2>2. -finID # m.id
      BY <2>1 DEF TypeOK
    <2>3. [id |-> -finID, age |-> Clock - i] # m
      BY <2>1, <2>2
    <2> QED
      BY <2>3
  <1>3. RecvInv'
    BY <1>2 DEF ServerInv, RecvInv
  <1> QED
    BY <1>3 DEF ServerInv, WaitingInv, AckInv

\* The first server starts while Span closings may have gone.
LEMMA NowRecv ==
    ASSUME TypeOK, TypeOK', tries' <= Span, spc' = "recv", toClient' = {}
    PROVE  ServerInv'
  <1>1. Since' = Span /\ tries' \in Nat
    BY DEF Since, TypeOK, Span
  <1>2. Gone' = {}
    BY <1>1, ReachType DEF Gone
  <1>3. Cardinality(Gone') = 0 /\ losses' \in Nat
    BY <1>2, FS_EmptySet DEF TypeOK
  <1>4. RecvInv'
    BY <1>3 DEF RecvInv
  <1> QED
    BY <1>4 DEF ServerInv, WaitingInv, AckInv

LEMMA ReadKeepsEnd ==
    ASSUME TypeOK, TypeOK', SentInv, EndInv, ReadDatagram
    PROVE  EndInv'
  <1>1. PICK m \in toServer :
            /\ Accept(m) \/ Run(m) \/ ReadAgain(m)
            /\ toServer' = toServer \ {m} \/ UNCHANGED toServer
            /\ UNCHANGED <<toClient, losses, client>>
    BY DEF ReadDatagram
  <1>2. UNCHANGED <<toClient, losses, finID, tries, cpc, due, acked>>
    BY <1>1 DEF client
  <1>3. toServer' \subseteq toServer /\ Late' \subseteq Late
    BY <1>1, FewerLate
  <1>4. CASE Accept(m) /\ m.id >= 0 /\ servers < MaxServers
    <2>1. spc = "none" /\ servers' = servers + 1 /\ spc' = "recv" /\ m \in Late
      BY <1>4 DEF Accept, Late
    <2>2. servers \in Nat
      BY DEF TypeOK, MaxServers
    <2>3. ~(finID > 0 /\ cpc = "done" /\ ~acked)
      BY <2>1 DEF EndInv
    <2>4. cpc \in {"data", "fin", "wait"} => servers = 0 \/ ~(finID > 0)
      BY <2>1, <2>2 DEF EndInv, ServerInv, TypeOK
    <2>5. ASSUME finID > 0, cpc = "wait"
          PROVE  ServerInv'
      <3>1. servers = 0 /\ toClient = {}
        BY <2>4, <2>5 DEF EndInv
      <3>2. tries + (IF due THEN 1 ELSE 0) <= m.age + 1 /\ m.age \in 0 .. Lifetime
        BY <2>1, <2>5 DEF SentInv, Closing, TypeOK
      <3>3. tries <= Span
        BY <3>2, Bounds DEF Span, TypeOK
      <3>4. tries' <= Span /\ toClient' = {}
        BY <1>2, <3>1, <3>3
      <3> QED
        BY <2>1, <3>4, NowRecv
    <2>6. cpc \in {"data", "fin"} => toClient = {}
      BY DEF EndInv
    <2> QED
      BY <1>2, <2>1, <2>2, <2>3, <2>5, <2>6 DEF EndInv
  <1>5. CASE Accept(m) /\ ~(m.id >= 0 /\ servers < MaxServers)
    <2>1. spc = "none" /\ UNCHANGED <<servers, spc, waited>>
      BY <1>5 DEF Accept
    <2>2. ~(finID > 0 /\ cpc = "wait" /\ servers > 0)
      BY <2>1 DEF EndInv, ServerInv
    <2>3. finID > 0 /\ cpc = "done" /\ ~acked => servers = 0 /\ Late = {}
      BY DEF EndInv
    <2> QED
      BY <1>2, <1>3, <2>1, <2>2, <2>3 DEF EndInv
  <1>6. CASE Run(m) \/ ReadAgain(m)
    <2>1. /\ spc \in {"recv", "wait"} /\ UNCHANGED <<servers, waited>>
          /\ spc' = "ack" \/ (spc = "recv" /\ spc' = "recv" /\ m.id >= 0)
      BY <1>6 DEF Run, ReadAgain, results, TypeOK
    <2>2. servers > 0
      BY <2>1 DEF EndInv, TypeOK, MaxServers
    <2>3. ~(finID > 0 /\ cpc = "done" /\ ~acked)
      BY <2>2 DEF EndInv
    <2>4. cpc \in {"data", "fin"} => spc' = "recv" /\ toClient = {}
      <3>1. SUFFICES ASSUME cpc \in {"data", "fin"}
                     PROVE  spc' = "recv" /\ toClient = {}
        OBVIOUS
      <3>2. spc = "recv" /\ toClient = {} /\ ~Closing
        BY <2>2, <3>1 DEF EndInv, Closing
      <3>3. ~(m.id < 0)
        BY <3>2 DEF SentInv
      <3>4. Run(m)
        BY <1>6, <3>2 DEF ReadAgain
      <3> QED
        BY <3>2, <3>3, <3>4 DEF Run
    <2>5. ASSUME finID > 0, cpc = "wait"
          PROVE  ServerInv'
      <3>1. ServerInv
        BY <2>2, <2>5 DEF EndInv
      <3>2. CASE spc' = "ack"
        BY <1>2, <2>1, <3>1, <3>2, NowAck
      <3>3. CASE spc = "recv" /\ spc' = "recv" /\ m.id >= 0
        BY <1>1, <1>2, <2>1, <2>5, <3>1, <3>3, DataRead
      <3> QED
        BY <2>1, <3>2, <3>3
    <2> QED
      BY <1>2, <2>1, <2>2, <2>3, <2>4, <2>5 DEF EndInv
  <1> QED
    BY <1>1, <1>4, <1>5, <1>6

\* The tries have brought an acknowledgement before they are used up.
LEMMA TriesLeft ==
    ASSUME Persistent, TypeOK, ServerInv, tries >= FinTries
    PROVE  ~due
  <1> SUFFICES ASSUME due
               PROVE  FALSE
    OBVIOUS
  <1>1. Clock = tries + 1 /\ tries \in Nat /\ losses \in 0 .. MaxLosses /\ losses + 2 \in Int
    BY Bounds DEF Clock, TypeOK
  <1>2. Reach(losses + 2) <= Reach(MaxLosses + 2)
    BY <1>1, Bounds, ReachMore
  <1>3. Reach(losses + 2) \in Int /\ Reach(MaxLosses + 2) \in Int
    BY <1>1, Bounds, ReachType
  <1>4. Clock > Reach(losses + 2) + Lifetime
    BY <1>1, <1>2, <1>3, Bounds DEF Persistent
  <1>5. CASE toClient = {}
    <2>1. Cardinality(toClient) = 0
      BY <1>5, AcksFinite
    <2>2. losses + Cardinality(toClient) + 2 = losses + 2
      BY <1>1, <2>1
    <2>3. Clock <= Reach(losses + 2)
      BY <2>2, ReadReach
    <2> QED
      BY <1>1, <1>3, <1>4, <2>3, Bounds
  <1>6. CASE toClient # {}
    <2>1. AckNear
      BY <1>6 DEF ServerInv, RecvInv, WaitingInv, AckInv, TypeOK
    <2>2. PICK age \in toClient : Clock - age <= Reach(losses + 2)
      BY <1>6, <2>1 DEF AckNear
    <2>3. age \in 0 .. Lifetime
      BY DEF TypeOK
    <2> QED
      BY <1>1, <1>3, <1>4, <2>2, <2>3, Bounds
  <1> QED
    BY <1>5, <1>6

\* Another closing is on its way.
LEMMA ClosingSent ==
    ASSUME TypeOK, TypeOK', ServerInv, due, due' = FALSE, tries' = tries + 1,
           toServer' = toServer \cup {Datagram(-finID)},
           UNCHANGED <<toClient, finID, losses, spc, waited>>
    PROVE  ServerInv'
  <1>1. Clock' = Clock /\ tries' = Clock /\ Since' = Since /\ Clock \in Nat /\ finID \in Nat /\ Since \in Int
    BY Numbers DEF Clock, Since
  <1>2. Gone' \subseteq Gone
    <2> SUFFICES ASSUME NEW i \in Gone'
                 PROVE  i \in Gone
      OBVIOUS
    <2>1. i \in Since + 1 .. tries + 1 /\ [id |-> -finID, age |-> Clock - i] \notin toServer'
      BY <1>1 DEF Gone
    <2>2. i # tries + 1
      <3> SUFFICES ASSUME i = tries + 1
                   PROVE  FALSE
        OBVIOUS
      <3>1. Clock - i = 0
        BY <1>1
      <3>2. [id |-> -finID, age |-> Clock - i] = Datagram(-finID)
        BY <3>1 DEF Datagram
      <3> QED
        BY <2>1, <3>2
    <2>3. i \in Since + 1 .. tries
      BY <1>1, <2>1, <2>2, Numbers
    <2> QED
      BY <2>1, <2>3 DEF Gone
  <1>3. Cardinality(Gone') <= Cardinality(Gone) /\ Cardinality(Gone') \in Nat /\ Cardinality(Gone) \in Nat
    <2>1. IsFiniteSet(Gone) /\ Cardinality(Gone) \in Nat
      BY GoneFinite
    <2>2. IsFiniteSet(Gone') /\ Cardinality(Gone') <= Cardinality(Gone)
      BY <1>2, <2>1, FS_Subset
    <2> QED
      BY <2>1, <2>2, FS_CardinalityType
  <1>4. AckNear => AckNear'
    BY <1>1 DEF AckNear, Reach, Span
  <1>5. losses \in Nat /\ losses' = losses
    BY Numbers
  <1>6. RecvInv'
    BY <1>3, <1>5 DEF ServerInv, RecvInv
  <1>7. WaitingInv'
    <2> SUFFICES ASSUME spc = "wait"
                 PROVE  WaitingInv'
      BY DEF WaitingInv
    <2> DEFINE g == Cardinality(Gone)
               h == Cardinality(Gone')
               c == Cardinality(toClient)
    <2>1. /\ \A age \in toClient : age >= waited
          /\ g <= losses /\ (toClient = {} => g < losses)
          /\ Since <= Reach(losses - g + c + 1)
          /\ AckNear
      BY DEF ServerInv, WaitingInv
    <2>2. h <= g /\ h \in Nat /\ g \in Nat /\ c \in Nat
      BY <1>3, AcksFinite
    <2> HIDE DEF g, h, c
    <2>3. Reach(losses - g + c + 1) <= Reach(losses - h + c + 1)
      BY <1>5, <2>2, ReachMore
    <2>4. Reach(losses - g + c + 1) \in Int /\ Reach(losses - h + c + 1) \in Int
      BY <1>5, <2>2, ReachType
    <2>5. Since <= Reach(losses - h + c + 1)
      BY <1>1, <2>1, <2>3, <2>4
    <2>6. /\ h <= losses /\ (toClient = {} => h < losses)
      BY <1>5, <2>1, <2>2
    <2>7. /\ Since' <= Reach(losses' - h + Cardinality(toClient') + 1)
      BY <1>1, <2>5 DEF c
    <2> QED
      BY <1>1, <1>4, <1>5, <2>1, <2>6, <2>7 DEF WaitingInv, h, Reach, Span
  <1>8. AckInv'
    BY <1>1, <1>4 DEF ServerInv, AckInv, Reach, Span
  <1> QED
    BY <1>6, <1>7, <1>8 DEF ServerInv

LEMMA ClientKeepsEnd ==
    ASSUME Persistent, TypeOK, TypeOK', SentInv, EndInv, Client
    PROVE  EndInv'
  <1>1. UNCHANGED <<losses, servers, spc, waited>>
    BY DEF Client, SendData, CloseReport, write_UDP_FIN, ReadAck, server, network
  <1>2. CASE SendData \/ CloseReport
    <2>1. cpc = "data" /\ cpc' \in {"data", "fin"} /\ UNCHANGED toClient
      BY <1>2 DEF SendData, CloseReport, network
    <2> QED
      BY <1>1, <2>1 DEF EndInv
  <1>3. CASE ReadAck
    <2>1. toClient' = {} /\ acked' = TRUE /\ cpc' = "done"
      BY <1>3 DEF ReadAck
    <2> QED
      BY <1>1, <2>1 DEF EndInv
  <1>4. CASE write_UDP_FIN /\ tries < FinTries
    <2>1. /\ cpc = "fin" \/ (cpc = "wait" /\ due)
          /\ toServer' = toServer \cup {Datagram(-finID)}
          /\ tries' = tries + 1 /\ cpc' = "wait" /\ due' = FALSE
          /\ UNCHANGED <<toClient, finID, acked>>
      BY <1>4 DEF write_UDP_FIN
    <2>2. ASSUME finID > 0, servers > 0
          PROVE  ServerInv'
      <3>1. CASE cpc = "fin"
        <4>1. spc = "recv" /\ toClient = {} /\ tries = 0
          BY <2>2, <3>1 DEF EndInv, SentInv
        <4>2. tries' <= Span
          BY <2>1, <4>1, ReachType
        <4> QED
          BY <1>1, <2>1, <4>1, <4>2, NowRecv
      <3>2. CASE cpc = "wait" /\ due
        <4>1. ServerInv
          BY <2>2, <3>2 DEF EndInv
        <4> QED
          BY <1>1, <2>1, <3>2, <4>1, ClosingSent
      <3> QED
        BY <2>1, <3>1, <3>2
    <2> QED
      BY <1>1, <2>1, <2>2 DEF EndInv
  <1>5. CASE write_UDP_FIN /\ ~(tries < FinTries)
    <2>1. /\ cpc = "fin" \/ (cpc = "wait" /\ due)
          /\ cpc' = "done" /\ toClient' = {} /\ due' = FALSE
          /\ UNCHANGED <<toServer, tries, finID, acked>>
      BY <1>5 DEF write_UDP_FIN
    <2>2. tries \in Nat /\ FinTries \in Nat /\ FinTries # 0 /\ tries >= FinTries
      BY <1>5, BoundsAssumption DEF TypeOK
    <2>3. cpc = "wait" /\ due
      BY <2>1, <2>2 DEF SentInv
    <2>4. ASSUME finID > 0
          PROVE  servers = 0 /\ Late = {}
      <3>1. servers = 0
        <4>1. ~ServerInv
          BY <2>2, <2>3, TriesLeft
        <4> QED
          BY <2>3, <2>4, <4>1, Numbers DEF EndInv, TypeOK
      <3>2. ASSUME NEW m \in Late
            PROVE  FALSE
        <4>1. tries + 1 <= m.age + 1 /\ m.age \in 0 .. Lifetime
          BY <2>3, <2>4, <3>2 DEF SentInv, Closing, Late, TypeOK
        <4>2. FinTries > Lifetime
          <5>1. Reach(MaxLosses + 2) \in Nat /\ MaxLosses + 2 <= Reach(MaxLosses + 2)
            BY Bounds, ReachGrows
          <5> QED
            BY <5>1, Bounds DEF Persistent
        <4> QED
          BY <2>2, <4>1, <4>2, Bounds
      <3> QED
        BY <3>1, <3>2
    <2> QED
      BY <1>1, <2>1, <2>4 DEF EndInv, Late
  <1> QED
    BY <1>2, <1>3, <1>4, <1>5 DEF Client

\* The server acknowledges: the count begins anew.
LEMMA AckSent ==
    ASSUME TypeOK, TypeOK', AckInv, spc = "ack", spc' = "wait", waited' = 0,
           toClient' = toClient \cup {0}, UNCHANGED <<finID, tries, due, losses>>
    PROVE  ServerInv'
  <1>1. /\ Clock' = Clock /\ Clock \in Nat /\ tries \in Nat /\ tries <= Clock
        /\ losses \in Nat /\ losses' = losses
    BY Numbers DEF Clock
  <1>2. Since' = Clock
    BY <1>1 DEF Since
  <1>3. Gone' = {}
    BY <1>1, <1>2 DEF Gone
  <1>4. Cardinality(Gone') = 0
    BY <1>3, FS_EmptySet
  <1> DEFINE c == Cardinality(toClient)
             d == Cardinality(toClient')
  <1>5. c \in Nat /\ d = (IF 0 \in toClient THEN c ELSE c + 1)
    BY AcksFinite, FS_AddElement
  <1>6. Clock <= Reach(losses + c + (IF 0 \in toClient THEN 1 ELSE 2))
    BY DEF AckInv
  <1> HIDE DEF c, d
  <1>7. losses + c + (IF 0 \in toClient THEN 1 ELSE 2) = losses - 0 + d + 1
    BY <1>1, <1>5
  <1>8. Since' <= Reach(losses' - Cardinality(Gone') + Cardinality(toClient') + 1)
    BY <1>1, <1>2, <1>4, <1>6, <1>7 DEF d
  <1>9. \E age \in toClient' : Clock - age <= Reach(losses + 2)
    <2>1. CASE toClient # {}
      BY <2>1 DEF AckInv, AckNear
    <2>2. CASE toClient = {}
      <3>1. c = 0 /\ 0 \notin toClient
        BY <2>2, AcksFinite DEF c
      <3>2. losses + c + 2 = losses + 2
        BY <1>1, <3>1
      <3>3. Clock - 0 <= Reach(losses + 2)
        BY <1>1, <1>6, <3>1, <3>2
      <3> QED
        BY <3>3
    <2> QED
      BY <2>1, <2>2
  <1>10. AckNear'
    BY <1>1, <1>9 DEF AckNear, Reach, Span
  <1>11. \A age \in toClient' : age >= waited'
    BY DEF TypeOK
  <1>12. WaitingInv'
    BY <1>1, <1>4, <1>8, <1>10, <1>11 DEF WaitingInv
  <1> QED
    BY <1>12 DEF ServerInv, RecvInv, AckInv

\* The wait outlasts what the network can do to the closings that follow.
LEMMA NoTimeout ==
    ASSUME Patient, TypeOK, ServerInv
    PROVE  ~(spc = "wait" /\ waited = AckWait)
  <1> SUFFICES ASSUME spc = "wait", waited = AckWait
               PROVE  FALSE
    OBVIOUS
  <1>1. WaitingInv
    BY DEF ServerInv
  <1>2. toClient = {}
    <2> SUFFICES ASSUME NEW age \in toClient
                 PROVE  FALSE
      OBVIOUS
    <2>1. age >= AckWait /\ age \in 0 .. Lifetime
      BY <1>1 DEF WaitingInv, TypeOK
    <2> QED
      BY <2>1, Bounds DEF Patient
  <1>3. Cardinality(Gone) < losses /\ Cardinality(Gone) \in Nat
    BY <1>1, <1>2, GoneFinite DEF WaitingInv
  <1>4. Clock <= Span + Since + Cardinality(Gone) /\ Since = Clock - AckWait
    BY GoneIsOld DEF Since
  <1>5. Clock \in Nat /\ losses \in Nat /\ losses <= MaxLosses /\ Span = Lifetime + 1
    BY Numbers DEF Span
  <1> QED
    BY <1>3, <1>4, <1>5, Bounds DEF Patient

LEMMA ServerKeepsEnd ==
    ASSUME Patient, TypeOK, TypeOK', SentInv, EndInv, ~Exhausted, Server
    PROVE  EndInv'
  <1>1. UNCHANGED <<toServer, losses, finID, tries, cpc, due, acked, servers>>
    BY DEF Server, write_UDP_AckFIN, AckTimeout, client, network
  <1>2. spc \in {"ack", "wait"} /\ Closing /\ finID > 0
    BY DEF Server, write_UDP_AckFIN, AckTimeout, SentInv
  <1>3. servers > 0 /\ servers' > 0
    BY <1>1, <1>2 DEF EndInv, TypeOK, MaxServers
  <1>4. CASE cpc = "done"
    BY <1>1, <1>3, <1>4 DEF EndInv
  <1>5. CASE cpc = "wait"
    <2>1. ServerInv
      BY <1>2, <1>3, <1>5 DEF EndInv
    <2>2. write_UDP_AckFIN
      BY <2>1, NoTimeout DEF Server, AckTimeout
    <2>3. acks < AckTries
      BY <1>2, <1>5, <2>2, Bounds DEF Exhausted, write_UDP_AckFIN, TypeOK
    <2>4. spc = "ack" /\ spc' = "wait" /\ waited' = 0 /\ toClient' = toClient \cup {0}
      BY <1>5, <2>2, <2>3 DEF write_UDP_AckFIN
    <2>5. ServerInv'
      BY <1>1, <2>1, <2>4, AckSent DEF ServerInv
    <2> QED
      BY <1>1, <1>3, <1>5, <2>5 DEF EndInv
  <1> QED
    BY <1>2, <1>4, <1>5 DEF Closing

\* A loss takes one closing, or the acknowledgements of one tick.
LEMMA LossesReach ==
    ASSUME TypeOK, losses' = losses + 1, Clock' = Clock, toClient' \subseteq toClient
    PROVE  AckNear => AckNear'
  <1> SUFFICES ASSUME AckNear, toClient' # {}
               PROVE  \E age \in toClient' : Clock' - age <= Reach(losses' + 2)
    BY DEF AckNear, Reach, Span
  <1>1. PICK age \in toClient : Clock - age <= Reach(losses + 2)
    BY DEF AckNear
  <1>2. PICK other \in toClient' : TRUE
    OBVIOUS
  <1>3. age \in 0 .. Lifetime /\ other \in 0 .. Lifetime
    BY <1>2 DEF TypeOK
  <1>4. losses \in Nat /\ Clock \in Nat
    BY Numbers
  <1>5. Reach((losses + 2) + 1) = Reach(losses + 2) + Reach(1) /\ Reach(losses + 2) \in Int
    BY <1>4, ReachAdds, ReachType
  <1>6. (losses + 2) + 1 = losses' + 2
    BY <1>4
  <1>7. Clock - other <= Reach(losses + 2) + Span
    BY <1>1, <1>3, <1>4, <1>5, Bounds DEF Span
  <1>8. Clock' - other <= Reach(losses' + 2)
    BY <1>5, <1>6, <1>7, ReachSmall
  <1> QED
    BY <1>8

\* What the lost one leaves: g closings gone, c acknowledgements on their way.
LEMMA OneLost ==
    ASSUME TypeOK, TypeOK', ServerInv, losses' = losses + 1,
           Cardinality(Gone') \in Nat,
           \/ toClient' = toClient /\ Cardinality(Gone') <= Cardinality(Gone) + 1
           \/ /\ toClient' \subseteq toClient /\ Cardinality(Gone') = Cardinality(Gone)
              /\ Cardinality(toClient') = Cardinality(toClient) - 1,
           UNCHANGED <<tries, due, spc, waited>>
    PROVE  ServerInv'
  <1>1. Clock' = Clock /\ Since' = Since /\ Clock \in Nat /\ Since \in Int /\ losses \in Nat
    BY Numbers DEF Clock, Since
  <1> DEFINE g == Cardinality(Gone)
             h == Cardinality(Gone')
             c == Cardinality(toClient)
             d == Cardinality(toClient')
  <1>2. /\ g \in Nat /\ h \in Nat /\ c \in Nat /\ d \in Nat
        /\ c = 0 <=> toClient = {}
        /\ d = 0 <=> toClient' = {}
    <2>1. IsFiniteSet(toClient')
      <3>1. IsFiniteSet(toClient) /\ toClient' \subseteq toClient
        BY AcksFinite
      <3> QED
        BY <3>1, FS_Subset
    <2> QED
      BY <2>1, GoneFinite, AcksFinite, FS_CardinalityType, FS_EmptySet
  <1>3. toClient' \subseteq toClient
    OBVIOUS
  <1>4. AckNear => AckNear'
    BY <1>1, <1>3, LossesReach
  <1>5. (h <= g + 1 /\ d = c) \/ (h = g /\ d = c - 1)
    OBVIOUS
  <1>6. ASSUME spc = "recv"
        PROVE  toClient' = {} /\ h <= losses'
    <2>1. toClient = {} /\ g <= losses
      BY <1>6 DEF ServerInv, RecvInv
    <2>2. toClient' = {} /\ c = 0 /\ d = 0
      BY <1>2, <1>3, <2>1
    <2> HIDE DEF g, h, c, d
    <2>3. h <= losses'
      BY <1>1, <1>2, <1>5, <2>1, <2>2
    <2> QED
      BY <2>2, <2>3
  <1>7. ASSUME spc = "wait"
        PROVE  WaitingInv'
    <2>1. /\ \A age \in toClient : age >= waited
          /\ g <= losses /\ (toClient = {} => g < losses)
          /\ Since <= Reach(losses - g + c + 1)
          /\ AckNear
      BY <1>7 DEF ServerInv, WaitingInv
    <2> HIDE DEF g, h, c, d
    <2>2. h <= losses' /\ (toClient' = {} => h < losses')
      BY <1>1, <1>2, <1>5, <2>1
    <2>3. Since <= Reach(losses' - h + d + 1)
      <3>1. losses - g + c + 1 <= losses' - h + d + 1 /\ losses' \in Int
        BY <1>1, <1>2, <1>5
      <3>2. Reach(losses - g + c + 1) <= Reach(losses' - h + d + 1)
        BY <1>1, <1>2, <3>1, ReachMore
      <3>3. Reach(losses - g + c + 1) \in Int /\ Reach(losses' - h + d + 1) \in Int
        BY <1>1, <1>2, <3>1, ReachType
      <3> QED
        BY <1>1, <2>1, <3>2, <3>3
    <2> QED
      BY <1>1, <1>3, <1>4, <2>1, <2>2, <2>3 DEF WaitingInv, h, d, Reach, Span
  <1>8. ASSUME spc = "ack"
        PROVE  AckInv'
    <2>1. AckNear' /\ Clock <= Reach(losses + c + (IF 0 \in toClient THEN 1 ELSE 2))
      BY <1>4, <1>8 DEF ServerInv, AckInv
    <2> DEFINE n == IF 0 \in toClient THEN 1 ELSE 2
               k == IF 0 \in toClient' THEN 1 ELSE 2
    <2>2. n \in Nat /\ k \in Nat /\ n <= k
      BY <1>3
    <2> HIDE DEF g, h, c, d, n, k
    <2>3. losses + c + n <= losses' + d + k /\ losses' \in Int
      BY <1>1, <1>2, <1>5, <2>2
    <2>4. Reach(losses + c + n) <= Reach(losses' + d + k)
      BY <1>1, <1>2, <2>2, <2>3, ReachMore
    <2>5. Reach(losses + c + n) \in Int /\ Reach(losses' + d + k) \in Int
      BY <1>1, <1>2, <2>2, <2>3, ReachType
    <2>6. Clock' <= Reach(losses' + d + k)
      BY <1>1, <2>1, <2>4, <2>5 DEF n
    <2> QED
      BY <2>1, <2>6 DEF AckInv, d, k, Reach, Span
  <1>9. RecvInv'
    BY <1>6 DEF RecvInv
  <1> QED
    BY <1>7, <1>8, <1>9 DEF ServerInv, WaitingInv, AckInv

LEMMA LoseKeepsEnd ==
    ASSUME TypeOK, TypeOK', EndInv, Lose
    PROVE  EndInv'
  <1>1. /\ losses' = losses + 1
        /\ UNCHANGED <<finID, tries, cpc, due, acked, servers, spc, waited>>
        /\ toServer' \subseteq toServer /\ toClient' \subseteq toClient
    BY DEF Lose, client, server
  <1>2. Late' \subseteq Late
    BY <1>1, FewerLate
  <1>3. Clock' = Clock /\ Since' = Since
    BY <1>1 DEF Clock, Since
  <1>4. ASSUME ServerInv
        PROVE  ServerInv'
    <2>1. CASE \E m \in toServer : toServer' = toServer \ {m} /\ UNCHANGED toClient
      <3>1. PICK m \in toServer : toServer' = toServer \ {m} /\ UNCHANGED toClient
        BY <2>1
      <3>2. Gone' \subseteq Gone \cup {Clock - m.age}
        <4> SUFFICES ASSUME NEW i \in Gone', i \notin Gone
                     PROVE  i = Clock - m.age
          OBVIOUS
        <4>1. i \in Since + 1 .. tries /\ [id |-> -finID, age |-> Clock - i] \notin toServer'
          BY <1>1, <1>3 DEF Gone
        <4>2. [id |-> -finID, age |-> Clock - i] = m
          BY <3>1, <4>1 DEF Gone
        <4>3. Clock - i = m.age /\ i \in Int /\ Clock \in Int
          BY <4>1, <4>2, Numbers
        <4> QED
          BY <4>3
      <3>3. IsFiniteSet(Gone) /\ Cardinality(Gone) \in Nat
        BY GoneFinite
      <3>4. /\ IsFiniteSet(Gone \cup {Clock - m.age})
            /\ Cardinality(Gone \cup {Clock - m.age}) <= Cardinality(Gone) + 1
        BY <3>3, FS_AddElement
      <3>5. /\ IsFiniteSet(Gone')
            /\ Cardinality(Gone') <= Cardinality(Gone \cup {Clock - m.age})
        BY <3>2, <3>4, FS_Subset
      <3>6. Cardinality(Gone') \in Nat /\ Cardinality(Gone \cup {Clock - m.age}) \in Nat
        BY <3>4, <3>5, FS_CardinalityType
      <3>7. Cardinality(Gone') <= Cardinality(Gone) + 1
        BY <3>3, <3>4, <3>5, <3>6
      <3> QED
        BY <1>1, <1>4, <3>1, <3>6, <3>7, OneLost
    <2>2. CASE \E age \in toClient : toClient' = toClient \ {age} /\ UNCHANGED toServer
      <3>1. PICK age \in toClient : toClient' = toClient \ {age} /\ UNCHANGED toServer
        BY <2>2
      <3>2. Gone' = Gone
        BY <1>1, <3>1, SameGone
      <3>3. Cardinality(toClient') = Cardinality(toClient) - 1
        BY <3>1, AcksFinite, FS_RemoveElement
      <3> QED
        BY <1>1, <1>4, <3>1, <3>2, <3>3, GoneFinite, OneLost
    <2> QED
      BY <2>1, <2>2 DEF Lose
  <1> QED
    BY <1>1, <1>2, <1>4 DEF EndInv

\* No acknowledgement is lost as they age.
LEMMA AcksAge ==
    ASSUME TypeOK, toClient' = {age + 1 : age \in toClient}
    PROVE  Cardinality(toClient') = Cardinality(toClient)
  <1> DEFINE f == [age \in toClient |-> age + 1]
  <1>1. f \in [toClient -> toClient'] /\ \A t \in toClient' : \E s \in toClient : f[s] = t
    OBVIOUS
  <1>2. \A s, t \in toClient : f[s] = f[t] => s = t
    BY DEF TypeOK
  <1> HIDE DEF f
  <1>3. f \in Bijection(toClient, toClient')
    BY <1>1, <1>2, Zenon DEF Bijection, Injection, Surjection, IsInjective
  <1>4. ExistsBijection(toClient, toClient')
    BY <1>3 DEF ExistsBijection
  <1> QED
    BY <1>4, AcksFinite, FS_Bijection

\* As time passes none of the closings on their way is lost, and no acknowledgement.
LEMMA TickKeepsEnd ==
    ASSUME TypeOK, TypeOK', SentInv, EndInv, Tick
    PROVE  EndInv'
  <1>0. ~due /\ (cpc = "wait" => due')
    BY Zenon DEF Tick, Quiet
  <1>1. /\ spc # "ack" /\ cpc # "fin"
        /\ toServer' = {[m EXCEPT !.age = @ + 1] : m \in toServer}
        /\ toClient' = {age + 1 : age \in toClient}
        /\ waited' = IF spc = "wait" THEN waited + 1 ELSE waited
        /\ UNCHANGED <<losses, finID, tries, cpc, acked, servers, spc>>
    BY DEF Tick, Quiet
  <1>2. toClient = {} => toClient' = {}
    BY <1>1
  <1>3. Late = {} => Late' = {}
    <2> SUFFICES ASSUME NEW m \in Late'
                 PROVE  Late # {}
      OBVIOUS
    <2>1. \E n \in toServer : m.id = n.id
      BY TickAges DEF Late
    <2> QED
      BY <2>1 DEF Late
  <1>4. ASSUME ServerInv, cpc = "wait"
        PROVE  ServerInv'
    <2>1. /\ Clock' = Clock + 1 /\ losses' = losses
          /\ Clock \in Nat /\ tries \in Nat /\ waited \in Nat /\ losses \in Nat
      BY <1>0, <1>1, <1>4, Numbers DEF Clock
    <2>2. Since' = Since
      <3>1. Lifetime' = Lifetime /\ Span' = Span /\ spc' = spc
        BY <1>1 DEF Span
      <3>2. CASE spc = "wait"
        <4>1. waited' = waited + 1
          BY <1>1, <3>2
        <4>2. Clock' - waited' = Clock - waited
          BY <2>1, <4>1
        <4> QED
          BY <3>1, <3>2, <4>2 DEF Since
      <3>3. CASE spc # "wait"
        <4>1. spc = "recv"
          BY <1>1, <1>4, <3>3 DEF ServerInv, TypeOK
        <4> QED
          BY <3>1, <4>1 DEF Since
      <3> QED
        BY <3>2, <3>3
    <2>3. Gone' \subseteq Gone
      <3> SUFFICES ASSUME NEW i \in Since + 1 .. tries,
                          [id |-> -finID, age |-> Clock - i] \in toServer
                   PROVE  [id |-> -finID, age |-> Clock' - i] \in toServer'
        BY <1>1, <2>2 DEF Gone
      <3>1. [[id |-> -finID, age |-> Clock - i] EXCEPT !.age = @ + 1] \in toServer'
        BY <1>1
      <3>2. [[id |-> -finID, age |-> Clock - i] EXCEPT !.age = @ + 1]
                = [id |-> -finID, age |-> (Clock - i) + 1]
        OBVIOUS
      <3>3. (Clock - i) + 1 = Clock' - i
        BY <2>1, Numbers
      <3> QED
        BY <3>1, <3>2, <3>3
    <2>4. IsFiniteSet(Gone) /\ Cardinality(Gone) \in Nat
      BY GoneFinite
    <2>5. Cardinality(Gone') <= Cardinality(Gone) /\ Cardinality(Gone') \in Nat
      <3>1. IsFiniteSet(Gone') /\ Cardinality(Gone') <= Cardinality(Gone)
        BY <2>3, <2>4, FS_Subset
      <3> QED
        BY <3>1, FS_CardinalityType
    <2>6. Cardinality(toClient') = Cardinality(toClient)
      BY <1>1, AcksAge
    <2>7. AckNear => AckNear'
      <3> SUFFICES ASSUME AckNear, toClient' # {}
                   PROVE  \E age \in toClient' : Clock' - age <= Reach(losses + 2)
        BY <2>1 DEF AckNear, Reach, Span
      <3>1. PICK age \in toClient : Clock - age <= Reach(losses + 2)
        BY <1>2 DEF AckNear
      <3>2. age + 1 \in toClient' /\ age \in Int
        BY <1>1 DEF TypeOK
      <3>3. Clock' - (age + 1) = Clock - age
        BY <2>1, <3>2
      <3> QED
        BY <3>1, <3>2, <3>3
    <2>8. RecvInv'
      <3> SUFFICES ASSUME spc = "recv"
                   PROVE  toClient' = {} /\ Cardinality(Gone') <= losses'
        BY <1>1 DEF RecvInv
      <3>1. toClient = {} /\ Cardinality(Gone) <= losses
        BY <1>4 DEF ServerInv, RecvInv
      <3>2. toClient' = {}
        BY <1>2, <3>1
      <3> QED
        BY <2>1, <2>4, <2>5, <3>1, <3>2
    <2>9. ASSUME spc = "wait"
          PROVE  WaitingInv'
      <3> DEFINE g == Cardinality(Gone)
                 h == Cardinality(Gone')
                 c == Cardinality(toClient)
      <3>1. /\ \A age \in toClient : age >= waited
            /\ g <= losses /\ (toClient = {} => g < losses)
            /\ Since <= Reach(losses - g + c + 1)
            /\ AckNear
        <4>1. WaitingInv
          BY <1>4 DEF ServerInv
        <4> QED
          BY <2>9, <4>1 DEF WaitingInv
      <3>2. h <= g /\ h \in Nat /\ g \in Nat /\ c \in Nat /\ Since \in Int
        BY <2>4, <2>5, AcksFinite, Numbers
      <3>3. \A age \in toClient' : age >= waited'
        <4>1. \A age \in toClient : age \in Int
          BY DEF TypeOK
        <4> QED
          BY <1>1, <2>1, <2>9, <3>1, <4>1
      <3>4. toClient' = {} => toClient = {}
        BY <1>1
      <3> HIDE DEF g, h, c
      <3>5. h <= losses /\ (toClient' = {} => h < losses)
        BY <2>1, <3>1, <3>2, <3>4
      <3>6. Reach(losses - g + c + 1) <= Reach(losses - h + c + 1)
        BY <2>1, <3>2, ReachMore
      <3>7. Reach(losses - g + c + 1) \in Int /\ Reach(losses - h + c + 1) \in Int
        BY <2>1, <3>2, ReachType
      <3>8. Since <= Reach(losses - h + c + 1)
        BY <3>1, <3>2, <3>6, <3>7
      <3>9. Since' <= Reach(losses' - h + Cardinality(toClient') + 1)
        BY <2>1, <2>2, <2>6, <3>8 DEF c
      <3> QED
        BY <2>1, <2>7, <3>1, <3>3, <3>5, <3>9 DEF WaitingInv, h, Reach, Span
    <2>10. spc' = spc /\ spc' # "none" /\ spc' # "ack"
      BY <1>1, <1>4 DEF ServerInv
    <2>11. WaitingInv'
      BY <2>9, <2>10 DEF WaitingInv
    <2>12. AckInv'
      BY <2>10 DEF AckInv
    <2> QED
      BY <2>8, <2>10, <2>11, <2>12 DEF ServerInv
  <1> QED
    BY <1>1, <1>2, <1>3, <1>4 DEF EndInv

LEMMA StepEnd ==
    ASSUME Patient, Persistent
    PROVE  TypeOK /\ TypeOK' /\ SentInv /\ EndInv /\ ~Exhausted /\ [Next]_vars => EndInv'
  <1> SUFFICES ASSUME TypeOK, TypeOK', SentInv, EndInv, ~Exhausted, [Next]_vars
               PROVE  EndInv'
    OBVIOUS
  <1>1. CASE UNCHANGED vars
    <2>1. UNCHANGED <<toServer, toClient, losses, finID, tries, cpc, due, acked, servers, spc, waited>>
      BY <1>1 DEF vars, network, client, server
    <2>2. Gone' = Gone /\ Clock' = Clock /\ Since' = Since
      BY <2>1, SameGone
    <2>3. Late' = Late
      BY <2>1 DEF Late
    <2>4. ServerInv => ServerInv'
      BY <2>1, <2>2 DEF ServerInv, RecvInv, WaitingInv, AckInv, AckNear, Reach, Span
    <2> QED
      BY <2>1, <2>3, <2>4 DEF EndInv
  <1> QED
    BY <1>1, ClientKeepsEnd, ReadKeepsEnd, ServerKeepsEnd, LoseKeepsEnd, TickKeepsEnd DEF Next

\* For any test, any tries and any delays, losses and copies the bounds allow: when the
\* wait outlasts them, and the tries, the client gets an acknowledgement from any
\* server there was, as long as the server has some left (write_UDP_FIN and
\* write_UDP_AckFIN).
THEOREM TriesSuffice ==
    ASSUME MaxLosses + Lifetime < AckWait,
           (Lifetime + 1) * (MaxLosses + 2) + Lifetime <= FinTries
    PROVE  Spec /\ []~Exhausted => []ResultArrives
  <1>1. Patient /\ Persistent
    BY DEF Patient, Persistent, Reach, Span
  <1>2. LossesAddUp => TypeOK
    BY DEF LossesAddUp
  <1>3. TypeOK /\ EndInv => ResultArrives
    <2>1. TypeOK => (servers > 0 => servers # 0)
      OBVIOUS
    <2> QED
      BY DEF EndInv, ResultArrives, TypeOK
  <1>4. TypeOK /\ TypeOK' /\ SentInv /\ EndInv /\ ~Exhausted /\ [Next]_vars => EndInv'
    BY <1>1, StepEnd
  <1> QED
    BY CountersHold, InitSent, InitEnd, StepSent, <1>2, <1>3, <1>4, PTL DEF Spec
=============================================================================

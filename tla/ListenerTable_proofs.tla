------------------------ MODULE ListenerTable_proofs ------------------------
(***************************************************************************)
(* Proofs about ListenerTable, for any streams and hosts, any datagrams    *)
(* and any kind of listener: the table and the servers agree, the hosts    *)
(* admitted are those of the command line, and a test back is started only *)
(* as asked for.                                                           *)
(***************************************************************************)
EXTENDS ListenerTable, SequenceTheorems, FiniteSetTheorems, WellFoundedInduction, TLAPS

Datagrams == [peer : Streams, fin : BOOLEAN]
Entries == [peer : Streams, holder : Nat]
Headers == {"none", "normal", "dual", "tradeoff"}
Serving == {"running", "acking"}

\* The listener has a stream in hand: it decides on it, or starts its server.
Dealing == lpc \in {"verify", "register", "header", "start"}

\* What the steps decide on (not the counts of datagrams, nor the inboxes).
TypeInv ==
    /\ mode \in Modes
    /\ stream \in [Streams -> {"idle", "connecting", "sending", "aborted", "refused", "ended"}]
    /\ queue \in Seq(Datagrams)
    /\ clients \in Seq(Entries) /\ groupID \in Nat
    /\ lpc \in {"accept", "lookup", "verify", "register", "header", "start", "next", "done"}
    /\ Dealing \/ lpc = "lookup" => cur \in Datagrams
    /\ buf \in Headers /\ client \in BOOLEAN
    /\ server \in [Streams -> {"none", "running", "acking", "gone"}]
    /\ speaker \in [Streams -> {"none", "now", "next", "never"}]

\* The peers of the table are distinct, its groups were made.
TableInv ==
    /\ \A i, j \in DOMAIN clients : clients[i].peer = clients[j].peer => i = j
    /\ \A i \in DOMAIN clients : clients[i].holder <= groupID
    /\ \A i, j \in DOMAIN clients :
         (clients[i].holder = clients[j].holder) = (Host[clients[i].peer] = Host[clients[j].peer])

\* It holds the streams being served, and the one in hand has no server yet.
ServerInv ==
    /\ Peers = {c \in Streams : server[c] \in Serving} \cup Registered
    /\ Dealing => server[cur.peer] \notin Serving

\* A TCP stream is accepted once: those in the backlog had no server, and the
\* one in hand is not among them.
BacklogInv ==
    ~mode.udp =>
        /\ \A i \in DOMAIN queue :
             /\ server[queue[i].peer] = "none" /\ stream[queue[i].peer] # "idle"
             /\ Dealing => queue[i].peer # cur.peer
        /\ \A i, j \in DOMAIN queue : queue[i].peer = queue[j].peer => i = j
        /\ \A c \in Streams : stream[c] = "idle" => server[c] = "none"
        /\ Dealing => stream[cur.peer] # "idle"
        /\ lpc # "lookup"

\* While anybody is in the table, the host of all of them is the one admitted.
HostInv ==
    /\ mode.singleClient /\ (clients # <<>> \/ lpc = "register") => client
    /\ mode.singleClient => \A c \in Peers : Host[c] = peer
    /\ mode.mHost # None /\ ~mode.singleClient =>
         client /\ peer = mode.mHost /\ \A c \in Peers : Host[c] = peer
    /\ lpc = "register" /\ client => Host[cur.peer] = peer

\* The header in the buffer of a UDP listener is that of the stream in hand.
HeaderInv ==
    mode.udp /\ lpc \in {"lookup", "verify", "register", "header"} /\ cur.peer \notin Short =>
        buf = Asks[cur.peer]

-----------------------------------------------------------------------------
(* A least index, and a sequence without one of its elements.              *)

Smaller == {p \in Nat \X Nat : p[1] < p[2]}

LEMMA SmallerWellFounded == IsWellFoundedOn(Smaller, Nat)
  <1>1. IsWellFoundedOn(OpToRel(<, Nat), Nat)
    BY NatLessThanWellFounded, Zenon
  <1>2. OpToRel(<, Nat) = Smaller
    BY Zenon DEF OpToRel, Smaller
  <1> QED
    BY <1>1, <1>2, Zenon

\* Min is the least of any set of indices there are.
LEMMA MinIsLeast ==
    ASSUME NEW I, I \subseteq Nat, I # {}
    PROVE  Min(I) \in I /\ \A j \in I : Min(I) <= j
  <1>1. PICK i \in I : \A j \in I : ~(<<j, i>> \in Smaller)
    BY SmallerWellFounded, WFMin, Zenon
  <1>2. ASSUME NEW j \in I
        PROVE  i <= j
    <2>1. i \in Nat /\ j \in Nat
      OBVIOUS
    <2>2. j < i => <<j, i>> \in Smaller
      BY <2>1 DEF Smaller
    <2> QED
      BY <1>1, <2>1, <2>2
  <1> QED
    BY <1>2, Zenon DEF Min

\* RemoveAt closes the gap.
LEMMA RemoveAtProperties ==
    ASSUME NEW S, NEW s \in Seq(S), NEW k \in 1 .. Len(s)
    PROVE  /\ RemoveAt(s, k) \in Seq(S)
           /\ Len(RemoveAt(s, k)) = Len(s) - 1
           /\ \A i \in 1 .. Len(s) - 1 : RemoveAt(s, k)[i] = IF i < k THEN s[i] ELSE s[i + 1]
  <1> DEFINE front == SubSeq(s, 1, k - 1)
             back == SubSeq(s, k + 1, Len(s))
  <1>1. Len(s) \in Nat /\ k \in Nat /\ k - 1 \in Nat /\ k + 1 \in Nat
    OBVIOUS
  <1>2. /\ front \in Seq(S) /\ Len(front) = k - 1
        /\ \A i \in 1 .. k - 1 : front[i] = s[i]
    <2>1. \A i \in 1 .. k - 1 : s[i] \in S
      BY <1>1, ElementOfSeq
    <2>2. /\ front \in Seq(S)
          /\ Len(front) = IF 1 <= k - 1 THEN (k - 1) - 1 + 1 ELSE 0
          /\ \A i \in 1 .. (k - 1) - 1 + 1 : front[i] = s[1 + i - 1]
      BY <1>1, <2>1, SubSeqProperties
    <2> QED
      BY <1>1, <2>2
  <1>3. /\ back \in Seq(S) /\ Len(back) = Len(s) - k
        /\ \A i \in 1 .. Len(s) - k : back[i] = s[k + i]
    <2>1. \A i \in k + 1 .. Len(s) : s[i] \in S
      BY <1>1, ElementOfSeq
    <2>2. /\ back \in Seq(S)
          /\ Len(back) = IF k + 1 <= Len(s) THEN Len(s) - (k + 1) + 1 ELSE 0
          /\ \A i \in 1 .. Len(s) - (k + 1) + 1 : back[i] = s[(k + 1) + i - 1]
      BY <1>1, <2>1, SubSeqProperties
    <2> QED
      BY <1>1, <2>2
  <1>4. RemoveAt(s, k) = front \o back
    BY DEF RemoveAt
  <1> HIDE DEF front, back
  <1>5. /\ front \o back \in Seq(S)
        /\ Len(front \o back) = Len(front) + Len(back)
        /\ \A i \in 1 .. Len(front) + Len(back) :
             (front \o back)[i] = IF i <= Len(front) THEN front[i] ELSE back[i - Len(front)]
    BY <1>2, <1>3, ConcatProperties
  <1> QED
    BY <1>1, <1>2, <1>3, <1>4, <1>5

\* A new entry in front.
LEMMA PushProperties ==
    ASSUME NEW S, NEW s \in Seq(S), NEW e \in S
    PROVE  /\ <<e>> \o s \in Seq(S)
           /\ Len(<<e>> \o s) = Len(s) + 1
           /\ \A i \in 1 .. Len(s) + 1 : (<<e>> \o s)[i] = IF i = 1 THEN e ELSE s[i - 1]
  <1>1. <<e>> \in Seq(S) /\ Len(<<e>>) = 1 /\ <<e>>[1] = e
    OBVIOUS
  <1>2. Len(s) \in Nat
    OBVIOUS
  <1> QED
    BY <1>1, <1>2, ConcatProperties

-----------------------------------------------------------------------------
(* The table.                                                              *)

\* What is in the table when an entry is taken out: everything else.
LEMMA DeleteProperties ==
    ASSUME TypeInv, TableInv, groupID' = groupID, NEW c \in Streams, Iperf_delete(c)
    PROVE  /\ clients' \in Seq(Entries)
           /\ TableInv'
           /\ Peers' = Peers \ {c}
           /\ clients' # <<>> => clients # <<>>
  <1>1. clients \in Seq(Entries) /\ Len(clients) \in Nat /\ DOMAIN clients = 1 .. Len(clients)
    BY DEF TypeInv
  <1>2. CASE ~Iperf_present(c)
    <2>1. clients' = clients
      BY <1>2 DEF Iperf_delete
    <2>2. c \notin Peers
      BY <1>2 DEF Iperf_present, OfPeer, Peers
    <2> QED
      BY <1>1, <2>1, <2>2 DEF TableInv, Peers
  <1>3. CASE Iperf_present(c)
    <2> DEFINE k == Min(OfPeer(c))
    <2>1. k \in 1 .. Len(clients) /\ clients[k].peer = c
      <3>1. OfPeer(c) \subseteq Nat /\ OfPeer(c) # {}
        BY <1>1, <1>3 DEF OfPeer, Iperf_present
      <3>2. k \in OfPeer(c)
        BY <3>1, MinIsLeast
      <3> QED
        BY <1>1, <3>2 DEF OfPeer
    <2>2. clients' = RemoveAt(clients, k)
      BY <1>3 DEF Iperf_delete
    <2> HIDE DEF k
    <2>3. /\ clients' \in Seq(Entries) /\ Len(clients') = Len(clients) - 1
          /\ DOMAIN clients' = 1 .. Len(clients) - 1
          /\ \A i \in 1 .. Len(clients) - 1 :
               clients'[i] = IF i < k THEN clients[i] ELSE clients[i + 1]
      <3>1. /\ RemoveAt(clients, k) \in Seq(Entries)
            /\ Len(RemoveAt(clients, k)) = Len(clients) - 1
            /\ \A i \in 1 .. Len(clients) - 1 :
                 RemoveAt(clients, k)[i] = IF i < k THEN clients[i] ELSE clients[i + 1]
        BY <1>1, <2>1, RemoveAtProperties
      <3>2. /\ clients' \in Seq(Entries) /\ Len(clients') = Len(clients) - 1
            /\ \A i \in 1 .. Len(clients) - 1 :
                 clients'[i] = IF i < k THEN clients[i] ELSE clients[i + 1]
        BY <2>2, <3>1, Zenon
      <3> QED
        BY <3>2
    <2> DEFINE from(i) == IF i < k THEN i ELSE i + 1
    <2>4. \A i \in DOMAIN clients' :
            from(i) \in DOMAIN clients /\ from(i) # k /\ clients'[i] = clients[from(i)]
      BY <1>1, <2>1, <2>3
    <2>5. \A i, j \in DOMAIN clients' : from(i) = from(j) => i = j
      BY <1>1, <2>1, <2>3
    <2>6. \A j \in DOMAIN clients : j # k => \E i \in DOMAIN clients' : clients'[i] = clients[j]
      <3> SUFFICES ASSUME NEW j \in DOMAIN clients, j # k
                   PROVE  \E i \in DOMAIN clients' : clients'[i] = clients[j]
        OBVIOUS
      <3>1. CASE j < k
        BY <1>1, <2>1, <2>3, <3>1
      <3>2. CASE j > k
        <4>1. j - 1 \in DOMAIN clients' /\ clients'[j - 1] = clients[j]
          BY <1>1, <2>1, <2>3, <3>2
        <4> QED
          BY <4>1
      <3> QED
        BY <1>1, <2>1, <3>1, <3>2
    <2>7. TableInv'
      <3> HIDE DEF from
      <3> QED
        BY <2>4, <2>5 DEF TableInv
    <2>8. Peers' = Peers \ {c}
      <3> HIDE DEF from
      <3>1. \A i \in DOMAIN clients : clients[i].peer = c => i = k
        BY <1>1, <2>1 DEF TableInv
      <3> QED
        BY <1>1, <2>1, <2>4, <2>6, <3>1 DEF Peers
    <2>9. clients # <<>>
      BY <2>1, <1>1
    <2> QED
      BY <2>3, <2>7, <2>8, <2>9
  <1> QED
    BY <1>2, <1>3

\* Register pushes an entry with a holder.
LEMMA RegisterHolder ==
    ASSUME TypeInv, Register
    PROVE  \E h \in Nat :
             /\ Iperf_pushback(Entry(cur.peer, h))
             /\ IF Iperf_hostpresent(cur.peer) THEN h = HolderOf(cur.peer) /\ groupID' = groupID
                ELSE h = groupID + 1 /\ groupID' = groupID + 1
  <1>1. CASE Iperf_hostpresent(cur.peer)
    <2>1. HolderOf(cur.peer) \in Nat
      <3>1. clients \in Seq(Entries) /\ DOMAIN clients = 1 .. Len(clients) /\ Len(clients) \in Nat
        BY DEF TypeInv
      <3>2. OfHost(cur.peer) \subseteq Nat /\ OfHost(cur.peer) # {}
        BY <1>1, <3>1 DEF OfHost, Iperf_hostpresent
      <3>3. Min(OfHost(cur.peer)) \in DOMAIN clients
        BY <3>2, MinIsLeast DEF OfHost
      <3>4. clients[Min(OfHost(cur.peer))] \in Entries
        BY <3>1, <3>3
      <3> QED
        BY <3>4 DEF HolderOf, Entries
    <2> QED
      BY <1>1, <2>1 DEF Register
  <1>2. CASE ~Iperf_hostpresent(cur.peer)
    <2>1. groupID + 1 \in Nat
      BY DEF TypeInv
    <2> QED
      BY <1>2, <2>1 DEF Register
  <1> QED
    BY <1>1, <1>2

\* The group a stream gets is that of its host, or one that nobody has.
LEMMA RegisterProperties ==
    ASSUME TypeInv, TableInv, NEW c \in Streams, c \notin Peers,
           NEW h \in Nat, Iperf_pushback(Entry(c, h)),
           IF Iperf_hostpresent(c) THEN h = HolderOf(c) /\ groupID' = groupID
           ELSE h = groupID + 1 /\ groupID' = groupID + 1
    PROVE  /\ clients' \in Seq(Entries) /\ groupID' \in Nat
           /\ TableInv'
           /\ Peers' = Peers \cup {c}
           /\ clients' # <<>>
  <1>1. /\ clients \in Seq(Entries) /\ Len(clients) \in Nat /\ DOMAIN clients = 1 .. Len(clients)
        /\ groupID \in Nat
    BY DEF TypeInv
  <1>2. Entry(c, h) \in Entries /\ Entry(c, h).peer = c /\ Entry(c, h).holder = h
    BY DEF Entry, Entries
  <1>3. /\ clients' \in Seq(Entries) /\ Len(clients') = Len(clients) + 1
        /\ DOMAIN clients' = 1 .. Len(clients) + 1
        /\ \A i \in 1 .. Len(clients) + 1 :
             clients'[i] = IF i = 1 THEN Entry(c, h) ELSE clients[i - 1]
    BY <1>1, <1>2, PushProperties DEF Iperf_pushback
  <1>4. \A i \in DOMAIN clients : clients[i].peer \in Streams /\ clients[i].holder \in Nat
    <2>1. \A i \in DOMAIN clients : clients[i] \in Entries
      BY <1>1
    <2> QED
      BY <2>1 DEF Entries
  \* The holder is above all others, or that of the host's first entry.
  <1>5. /\ \A i \in DOMAIN clients : (clients[i].holder = h) = (Host[clients[i].peer] = Host[c])
        /\ h <= groupID' /\ groupID <= groupID' /\ groupID' \in Nat
    <2>1. CASE Iperf_hostpresent(c)
      <3> DEFINE k == Min(OfHost(c))
      <3>1. k \in DOMAIN clients /\ Host[clients[k].peer] = Host[c]
        <4>1. OfHost(c) \subseteq Nat /\ OfHost(c) # {}
          BY <1>1, <2>1 DEF OfHost, Iperf_hostpresent
        <4>2. k \in OfHost(c)
          BY <4>1, MinIsLeast
        <4> QED
          BY <4>2 DEF OfHost, SockAddr_Hostare_Equal
      <3>2. h = clients[k].holder /\ groupID' = groupID
        BY <2>1 DEF HolderOf
      <3> HIDE DEF k
      <3> QED
        BY <1>1, <3>1, <3>2 DEF TableInv
    <2>2. CASE ~Iperf_hostpresent(c)
      <3>1. \A i \in DOMAIN clients : Host[clients[i].peer] # Host[c]
        BY <2>2 DEF Iperf_hostpresent, OfHost, SockAddr_Hostare_Equal
      <3>2. \A i \in DOMAIN clients : clients[i].holder <= groupID
        BY DEF TableInv
      <3> QED
        BY <1>1, <1>4, <2>2, <3>1, <3>2
    <2> QED
      BY <2>1, <2>2
  <1>6. \A i \in DOMAIN clients' :
          \/ i = 1 /\ clients'[i].peer = c /\ clients'[i].holder = h
          \/ i - 1 \in DOMAIN clients /\ clients'[i] = clients[i - 1]
    BY <1>1, <1>2, <1>3
  <1>7. \A i \in DOMAIN clients : clients[i].peer # c
    BY DEF Peers
  <1>8. TableInv'
    <2>1. \A i \in DOMAIN clients' : i \in Nat
      BY <1>1, <1>3
    <2>2. \A i, j \in DOMAIN clients' : clients'[i].peer = clients'[j].peer => i = j
      BY <1>6, <1>7, <2>1 DEF TableInv
    <2>3. \A i \in DOMAIN clients' : clients'[i].holder <= groupID'
      BY <1>1, <1>4, <1>5, <1>6 DEF TableInv
    <2>4. \A i, j \in DOMAIN clients' :
            (clients'[i].holder = clients'[j].holder)
                = (Host[clients'[i].peer] = Host[clients'[j].peer])
      <3> SUFFICES ASSUME NEW i \in DOMAIN clients', NEW j \in DOMAIN clients'
                   PROVE  (clients'[i].holder = clients'[j].holder)
                              = (Host[clients'[i].peer] = Host[clients'[j].peer])
        OBVIOUS
      <3>1. CASE i = 1 /\ j = 1
        BY <3>1
      <3>2. CASE i = 1 /\ j # 1
        <4>1. clients'[i].peer = c /\ clients'[i].holder = h
          BY <1>1, <1>6, <3>2
        <4>2. j - 1 \in DOMAIN clients /\ clients'[j] = clients[j - 1]
          BY <1>6, <3>2
        <4>3. clients'[j].holder = h <=> Host[clients'[j].peer] = Host[c]
          BY <1>5, <4>2
        <4> QED
          BY <4>1, <4>3
      <3>3. CASE i # 1 /\ j = 1
        <4>1. clients'[j].peer = c /\ clients'[j].holder = h
          BY <1>1, <1>6, <3>3
        <4>2. i - 1 \in DOMAIN clients /\ clients'[i] = clients[i - 1]
          BY <1>6, <3>3
        <4>3. clients'[i].holder = h <=> Host[clients'[i].peer] = Host[c]
          BY <1>5, <4>2
        <4> QED
          BY <4>1, <4>3
      <3>4. CASE i # 1 /\ j # 1
        BY <1>6, <3>4 DEF TableInv
      <3> QED
        BY <3>1, <3>2, <3>3, <3>4
    <2> QED
      BY <2>2, <2>3, <2>4 DEF TableInv
  <1>9. Peers' = Peers \cup {c}
    <2>1. \A i \in DOMAIN clients : i + 1 \in DOMAIN clients' /\ clients'[i + 1] = clients[i]
      BY <1>1, <1>3
    <2>2. 1 \in DOMAIN clients' /\ clients'[1].peer = c
      BY <1>1, <1>2, <1>3
    <2> QED
      BY <1>6, <2>1, <2>2 DEF Peers
  <1> QED
    BY <1>1, <1>3, <1>5, <1>8, <1>9

-----------------------------------------------------------------------------
(* Types.                                                                  *)

\* A stream refused was not idle, or is no longer.
LEMMA RefusedProperties ==
    ASSUME TypeInv, NEW backlog
    PROVE  /\ Refused(backlog) \in
                [Streams -> {"idle", "connecting", "sending", "aborted", "refused", "ended"}]
           /\ \A c \in Streams : Refused(backlog)[c] = "idle" => stream[c] = "idle"
BY DEF TypeInv, Refused

LEMMA InitType == Init => TypeInv
  <1> SUFFICES ASSUME Init
               PROVE  TypeInv
    OBVIOUS
  <1>1. <<>> \in Seq(Datagrams) /\ <<>> \in Seq(Entries)
    BY EmptySeq
  <1>2. mode \in Modes /\ lpc = "accept" /\ client \in BOOLEAN /\ buf = "none" /\ queue = <<>> /\ clients = <<>>
    BY DEF Init
  <1>3. /\ stream \in [Streams -> {"idle", "connecting", "sending", "aborted", "refused", "ended"}]
        /\ server \in [Streams -> {"none", "running", "acking", "gone"}]
        /\ speaker \in [Streams -> {"none", "now", "next", "never"}]
        /\ groupID = 0
    BY DEF Init
  <1> QED
    BY <1>1, <1>2, <1>3 DEF TypeInv, Dealing, Headers

\* A stream's step changes its own state, and adds at most a datagram of its
\* own (or its connection) to the queue.
LEMMA ClientEffect ==
    ASSUME TypeInv, NEW c \in Streams, Client(c)
    PROVE  /\ UNCHANGED others
           /\ \E s \in {"connecting", "sending", "aborted", "ended"} : stream' = [stream EXCEPT ![c] = s]
           /\ \/ queue' = queue
              \/ \E d \in Datagrams : /\ queue' = Append(queue, d)
                                      /\ ~mode.udp => stream[c] = "idle" /\ d.peer = c
  <1>1. Data(c) \in Datagrams /\ Fin(c) \in Datagrams /\ Data(c).peer = c
    BY DEF Data, Fin, Datagrams
  <1>2. ASSUME NEW d, Deliver(d)
        PROVE  queue' = queue \/ queue' = Append(queue, d)
    BY <1>2 DEF Deliver
  <1>3. CASE Connect(c)
    BY <1>1, <1>3 DEF Connect
  <1>4. CASE SendHeader(c)
    BY <1>4 DEF SendHeader
  <1>5. CASE Close(c)
    <2>1. \E s \in {"aborted", "ended"} : stream' = [stream EXCEPT ![c] = s]
      BY <1>5, Zenon DEF Close
    <2>2. queue' = queue /\ UNCHANGED others
      BY <1>5 DEF Close
    <2> QED
      BY <2>1, <2>2, Zenon
  <1>6. CASE Send(c)
    <2>1. mode.udp /\ stream' = [stream EXCEPT ![c] = "sending"] /\ Deliver(Data(c)) /\ UNCHANGED others
      BY <1>6 DEF Send
    <2> QED
      BY <1>1, <1>2, <2>1, Zenon
  <1>7. CASE SendFin(c)
    <2>1. mode.udp /\ Deliver(Fin(c)) /\ UNCHANGED others
      BY <1>7 DEF SendFin
    <2>2. \E s \in {"sending", "ended"} : stream' = [stream EXCEPT ![c] = s]
      BY <1>7, Zenon DEF SendFin
    <2> QED
      BY <1>1, <1>2, <2>1, <2>2, Zenon
  <1> QED
    BY <1>3, <1>4, <1>5, <1>6, <1>7 DEF Client

LEMMA ClientType ==
    ASSUME TypeInv, NEW c \in Streams, Client(c)
    PROVE  TypeInv'
  <1>1. PICK s \in {"connecting", "sending", "aborted", "ended"} : stream' = [stream EXCEPT ![c] = s]
    BY ClientEffect
  <1>2. queue' \in Seq(Datagrams)
    <2>1. queue \in Seq(Datagrams)
      BY DEF TypeInv
    <2>2. CASE queue' = queue
      BY <2>1, <2>2
    <2>3. CASE \E d \in Datagrams : queue' = Append(queue, d)
      BY <2>1, <2>3, AppendProperties
    <2> QED
      BY <2>2, <2>3, ClientEffect
  <1>3. UNCHANGED <<mode, clients, groupID, lpc, cur, buf, client, server, speaker>>
    BY ClientEffect DEF others, listening
  <1> QED
    BY <1>1, <1>2, <1>3 DEF TypeInv, Dealing

\* What the listener takes from the front of its queue.
LEMMA TakeProperties ==
    ASSUME TypeInv, queue # <<>>
    PROVE  /\ Head(queue) \in Datagrams /\ Head(queue) = queue[1] /\ 1 \in DOMAIN queue
           /\ Tail(queue) \in Seq(Datagrams)
           /\ \A i \in DOMAIN Tail(queue) : i + 1 \in DOMAIN queue /\ Tail(queue)[i] = queue[i + 1]
  <1>1. queue \in Seq(Datagrams)
    BY DEF TypeInv
  <1> QED
    BY <1>1, HeadTailProperties

\* What the buffer holds after any step of the listener.
LEMMA ListenerBuffer ==
    ASSUME TypeInv, Listener
    PROVE  buf' \in Headers
  <1>1. \A c \in Streams : Asks[c] \in Headers
    BY StreamsAssumption DEF Headers
  <1>2. queue # <<>> => Head(queue).peer \in Streams
    BY TakeProperties DEF Datagrams
  <1>3. CASE Accept
    BY <1>1, <1>2, <1>3 DEF Accept, TypeInv
  <1>4. CASE Receive
    BY <1>1, <1>2, <1>4 DEF Receive, TypeInv
  <1>5. CASE ReadHeader
    <2>1. cur.peer \in Streams
      BY <1>5 DEF ReadHeader, TypeInv, Dealing, Datagrams
    <2> QED
      BY <1>1, <1>5, <2>1 DEF ReadHeader, TypeInv
  <1>6. CASE Lookup \/ Verify \/ Register \/ StartServer \/ NextClient
    BY <1>6 DEF Lookup, Verify, Register, StartServer, NextClient, TypeInv
  <1> QED
    BY <1>3, <1>4, <1>5, <1>6 DEF Listener

LEMMA ListenerType ==
    ASSUME TypeInv, TableInv, ServerInv, Listener
    PROVE  TypeInv'
  <1>9. buf' \in Headers
    BY ListenerBuffer
  <1>1. CASE Accept
    <2>1. /\ cur' = Head(queue) /\ queue' = Tail(queue) /\ lpc' \in {"lookup", "verify"} /\ queue # <<>>
          /\ UNCHANGED <<mode, stream, clients, groupID, client, server, speaker>>
      BY <1>1 DEF Accept, remote
    <2> QED
      BY <1>9, <2>1, TakeProperties DEF TypeInv, Dealing
  <1>2. CASE Lookup
    <2>1. /\ lpc = "lookup" /\ lpc' \in {"accept", "verify"} /\ queue' \in {queue, <<>>} /\ cur' = cur
          /\ UNCHANGED <<mode, stream, clients, groupID, client, server, speaker>>
      BY <1>2 DEF Lookup, remote
    <2>2. queue' \in Seq(Datagrams)
      BY <2>1, EmptySeq DEF TypeInv
    <2> QED
      BY <1>9, <2>1, <2>2 DEF TypeInv, Dealing
  <1>3. CASE Receive
    <2> DEFINE known == Iperf_present(cur'.peer)
               ends == known /\ cur'.fin
    <2>1. /\ cur' = Head(queue) /\ queue' = Tail(queue) /\ lpc' \in {"accept", "verify"} /\ queue # <<>>
          /\ UNCHANGED <<mode, stream, groupID, client, speaker>>
          /\ IF ends THEN Iperf_delete(cur'.peer) ELSE UNCHANGED clients
          /\ server' = IF ends THEN [server EXCEPT ![cur'.peer] = "gone"] ELSE server
      BY <1>3 DEF Receive, remote
    <2>2. cur' \in Datagrams /\ cur'.peer \in Streams /\ queue' \in Seq(Datagrams)
      BY <2>1, TakeProperties DEF Datagrams
    <2>3. clients' \in Seq(Entries)
      <3>1. CASE ends
        BY <2>1, <2>2, <3>1, DeleteProperties
      <3>2. CASE ~ends
        BY <2>1, <3>2 DEF TypeInv
      <3> QED
        BY <3>1, <3>2
    <2>4. server' \in [Streams -> {"none", "running", "acking", "gone"}]
      BY <2>1, <2>2 DEF TypeInv
    <2> HIDE DEF known, ends
    <2> QED
      BY <1>9, <2>1, <2>2, <2>3, <2>4 DEF TypeInv, Dealing
  <1>4. CASE Verify
    <2>1. lpc = "verify" /\ UNCHANGED <<mode, clients, groupID, cur, server, speaker>>
      BY <1>4 DEF Verify
    <2>2. lpc' \in {"accept", "done", "register"}
      BY <1>4 DEF Verify, Again
    <2>3. client' \in BOOLEAN
      <3>1. client' = (client \/ FirstOfSingleClient)
        BY <1>4 DEF Verify
      <3> QED
        BY <3>1
    <2>4. queue' \in Seq(Datagrams)
      <3>1. queue' \in {queue, <<>>}
        BY <1>4 DEF Verify
      <3> QED
        BY <3>1, EmptySeq DEF TypeInv
    <2>5. stream' \in [Streams -> {"idle", "connecting", "sending", "aborted", "refused", "ended"}]
      <3>1. stream' = stream \/ \E backlog : stream' = Refused(backlog)
        BY <1>4, Zenon DEF Verify
      <3> QED
        BY <3>1, RefusedProperties DEF TypeInv
    <2> QED
      BY <1>9, <2>1, <2>2, <2>3, <2>4, <2>5 DEF TypeInv, Dealing
  <1>5. CASE Register
    <2>1. PICK h \in Nat :
            /\ Iperf_pushback(Entry(cur.peer, h))
            /\ IF Iperf_hostpresent(cur.peer) THEN h = HolderOf(cur.peer) /\ groupID' = groupID
               ELSE h = groupID + 1 /\ groupID' = groupID + 1
      BY <1>5, RegisterHolder
    <2>2. /\ lpc = "register" /\ lpc' = "header"
          /\ UNCHANGED <<mode, stream, queue, cur, client, server, speaker>>
      BY <1>5 DEF Register, remote
    <2>3. cur \in Datagrams /\ cur.peer \in Streams /\ cur.peer \notin Peers
      BY <2>2 DEF TypeInv, Dealing, Datagrams, ServerInv, Registered
    <2>4. clients' \in Seq(Entries) /\ groupID' \in Nat
      BY <2>1, <2>3, RegisterProperties
    <2> QED
      BY <1>9, <2>2, <2>3, <2>4 DEF TypeInv, Dealing
  <1>6. CASE ReadHeader
    <2>1. /\ lpc = "header" /\ lpc' = "start"
          /\ UNCHANGED <<mode, stream, queue, clients, groupID, cur, client, server>>
      BY <1>6 DEF ReadHeader, remote
    <2>2. speaker' \in [Streams -> {"none", "now", "next", "never"}]
      <3>1. PICK s \in {"none", SpeakerFor(buf')} : speaker' = [speaker EXCEPT ![cur.peer] = s]
        BY <1>6 DEF ReadHeader
      <3>2. SpeakerFor(buf') \in {"none", "now", "next", "never"}
        BY <1>9 DEF SpeakerFor, Headers
      <3> QED
        BY <3>1, <3>2 DEF TypeInv
    <2> QED
      BY <1>9, <2>1, <2>2 DEF TypeInv, Dealing
  <1>7. CASE StartServer
    <2>1. /\ lpc = "start" /\ lpc' = "next" /\ server' = [server EXCEPT ![cur.peer] = "running"]
          /\ UNCHANGED <<mode, stream, queue, clients, groupID, client, speaker>>
      BY <1>7 DEF StartServer, remote
    <2> QED
      BY <1>9, <2>1 DEF TypeInv, Dealing
  <1>8. CASE NextClient
    <2>1. /\ lpc' \in {"accept", "done"}
          /\ stream' = stream \/ stream' = Refused(queue)
          /\ queue' \in {queue, <<>>}
          /\ UNCHANGED <<mode, clients, groupID, client, server, speaker>>
      BY <1>8 DEF NextClient, Again
    <2>2. queue' \in Seq(Datagrams)
      BY <2>1, EmptySeq DEF TypeInv
    <2> QED
      BY <1>9, <2>1, <2>2, RefusedProperties DEF TypeInv, Dealing
  <1> QED
    BY <1>1, <1>2, <1>3, <1>4, <1>5, <1>6, <1>7, <1>8 DEF Listener

LEMMA ServerType ==
    ASSUME TypeInv, TableInv, NEW c \in Streams, Server(c)
    PROVE  TypeInv'
  <1>1. CASE Run(c)
    <2>1. /\ server' = server \/ server' = [server EXCEPT ![c] = "acking"]
          /\ UNCHANGED <<mode, stream, queue, clients, groupID, lpc, cur, buf, client, speaker>>
      BY <1>1 DEF Run, remote, listening
    <2> QED
      BY <2>1 DEF TypeInv, Dealing
  <1>2. CASE Leave(c)
    <2>1. /\ server' = [server EXCEPT ![c] = "gone"] /\ Iperf_delete(c)
          /\ UNCHANGED <<mode, stream, queue, groupID, lpc, cur, buf, client, speaker>>
      BY <1>2 DEF Leave, remote, listening
    <2>2. clients' \in Seq(Entries)
      BY <2>1, DeleteProperties
    <2> QED
      BY <2>1, <2>2 DEF TypeInv, Dealing
  <1> QED
    BY <1>1, <1>2 DEF Server

-----------------------------------------------------------------------------
(* The table and the servers.                                              *)

LEMMA InitServed == Init => TableInv /\ ServerInv /\ BacklogInv
  <1> SUFFICES ASSUME Init
               PROVE  TableInv /\ ServerInv /\ BacklogInv
    OBVIOUS
  <1>1. /\ clients = <<>> /\ queue = <<>> /\ lpc = "accept"
        /\ server = [c \in Streams |-> "none"]
    BY DEF Init
  <1>2. DOMAIN clients = {} /\ DOMAIN queue = {}
    BY <1>1
  <1>3. Peers = {}
    BY <1>2 DEF Peers
  <1> QED
    BY <1>1, <1>2, <1>3 DEF TableInv, ServerInv, BacklogInv, Registered, Dealing, Serving

\* Streams do not touch the table; a TCP stream connects once.
LEMMA ClientServed ==
    ASSUME TypeInv, TableInv, ServerInv, BacklogInv, NEW c \in Streams, Client(c)
    PROVE  TableInv' /\ ServerInv' /\ BacklogInv'
  <1>1. UNCHANGED <<mode, clients, groupID, lpc, cur, server>>
    BY ClientEffect DEF others, listening
  <1>2. TableInv' /\ ServerInv'
    BY <1>1 DEF TableInv, ServerInv, Peers, Registered, Dealing
  <1>3. PICK s \in {"connecting", "sending", "aborted", "ended"} : stream' = [stream EXCEPT ![c] = s]
    BY ClientEffect
  <1>4. \A d \in Streams : stream'[d] = "idle" => stream[d] = "idle"
    BY <1>3 DEF TypeInv
  <1>5. queue \in Seq(Datagrams)
    BY DEF TypeInv
  <1>6. BacklogInv'
    <2> SUFFICES ASSUME ~mode.udp
                 PROVE  BacklogInv'
      BY <1>1 DEF BacklogInv
    <2>1. \A i \in DOMAIN queue : queue[i].peer \in Streams
      <3>1. \A i \in DOMAIN queue : queue[i] \in Datagrams
        BY <1>5
      <3> QED
        BY <3>1 DEF Datagrams
    <2>2. Dealing => cur.peer \in Streams
      BY DEF TypeInv, Datagrams
    <2>3. CASE queue' = queue
      BY <1>1, <1>4, <2>1, <2>2, <2>3 DEF BacklogInv, Dealing
    <2>4. CASE \E d \in Datagrams : queue' = Append(queue, d) /\ stream[c] = "idle" /\ d.peer = c
      <3>1. PICK d \in Datagrams : queue' = Append(queue, d) /\ stream[c] = "idle" /\ d.peer = c
        BY <2>4
      <3>2. \A i \in DOMAIN queue' : \/ i \in DOMAIN queue /\ queue'[i] = queue[i]
                                     \/ i = Len(queue) + 1 /\ queue'[i] = d
        BY <1>5, <3>1, AppendProperties
      <3>3. server[c] = "none" /\ stream'[c] # "idle" /\ (Dealing => cur.peer # c)
        BY <1>3, <3>1 DEF BacklogInv, TypeInv
      <3>4. \A i \in DOMAIN queue : queue[i].peer # c
        BY <3>1 DEF BacklogInv
      <3> QED
        BY <1>1, <1>4, <2>1, <2>2, <3>1, <3>2, <3>3, <3>4 DEF BacklogInv, Dealing
    <2> QED
      BY <2>3, <2>4, ClientEffect
  <1> QED
    BY <1>2, <1>6

\* A step of the listener that leaves the table and the servers alone.
LEMMA TableKept ==
    ASSUME TableInv, ServerInv, UNCHANGED <<clients, groupID, server>>, Registered' = Registered,
           Dealing' => server[cur'.peer] \notin Serving
    PROVE  TableInv' /\ ServerInv'
BY DEF TableInv, ServerInv, Peers

\* A step that takes nothing new from the backlog, and may drop all of it.
LEMMA BacklogKept ==
    ASSUME TypeInv, BacklogInv, UNCHANGED <<mode, cur>>, queue' \in {queue, <<>>},
           Dealing' => Dealing, lpc' # "lookup", stream' = stream \/ \E backlog : stream' = Refused(backlog),
           ~mode.udp => \A c \in Streams : server'[c] = server[c] \/ (Dealing /\ ~Dealing' /\ c = cur.peer)
    PROVE  BacklogInv'
  <1> SUFFICES ASSUME ~mode.udp
               PROVE  BacklogInv'
    BY DEF BacklogInv
  <1>1. \A c \in Streams : stream'[c] = "idle" => stream[c] = "idle"
    BY RefusedProperties
  <1>2. \A i \in DOMAIN queue : queue[i].peer \in Streams
    <2>1. \A i \in DOMAIN queue : queue[i] \in Datagrams
      BY DEF TypeInv
    <2> QED
      BY <2>1 DEF Datagrams
  <1>3. Dealing => cur.peer \in Streams
    BY DEF TypeInv, Datagrams
  <1>4. \A i \in DOMAIN queue' : i \in DOMAIN queue /\ queue'[i] = queue[i]
    OBVIOUS
  <1>5. \A c \in Streams : (stream[c] = "idle" \/ \E i \in DOMAIN queue : queue[i].peer = c) =>
                               server'[c] = "none"
    BY <1>3 DEF BacklogInv
  <1> QED
    BY <1>1, <1>2, <1>3, <1>4, <1>5 DEF BacklogInv

LEMMA AcceptServed ==
    ASSUME TypeInv, TableInv, ServerInv, BacklogInv, Accept
    PROVE  TableInv' /\ ServerInv' /\ BacklogInv'
  <1>1. /\ lpc = "accept" /\ queue # <<>> /\ cur' = Head(queue) /\ queue' = Tail(queue)
        /\ lpc' = IF mode.udp THEN "lookup" ELSE "verify"
        /\ UNCHANGED <<mode, stream, clients, groupID, server>>
    BY DEF Accept, remote
  <1>2. /\ cur' = queue[1] /\ 1 \in DOMAIN queue
        /\ \A i \in DOMAIN queue' : i + 1 \in DOMAIN queue /\ queue'[i] = queue[i + 1] /\ i \in Nat
    <2>1. queue' \in Seq(Datagrams)
      BY <1>1, TakeProperties
    <2>2. \A i \in DOMAIN queue' : i \in Nat /\ i # 0
      BY <2>1
    <2> QED
      BY <1>1, <2>2, TakeProperties
  <1>3. ~mode.udp => server[cur'.peer] = "none"
    BY <1>2 DEF BacklogInv
  <1>4. TableInv' /\ ServerInv'
    <2>1. Registered = {} /\ Registered' = {}
      BY <1>1 DEF Registered
    <2>2. Dealing' => server[cur'.peer] \notin Serving
      BY <1>1, <1>3 DEF Dealing, Serving
    <2> QED
      BY <1>1, <2>1, <2>2, TableKept
  <1>5. BacklogInv'
    <2> SUFFICES ASSUME ~mode.udp
                 PROVE  BacklogInv'
      BY <1>1 DEF BacklogInv
    <2>1. \A i \in DOMAIN queue' :
            /\ server[queue'[i].peer] = "none" /\ stream[queue'[i].peer] # "idle"
            /\ queue'[i].peer # cur'.peer
      <3> SUFFICES ASSUME NEW i \in DOMAIN queue'
                   PROVE  /\ server[queue'[i].peer] = "none" /\ stream[queue'[i].peer] # "idle"
                          /\ queue'[i].peer # cur'.peer
        OBVIOUS
      <3>1. i + 1 \in DOMAIN queue /\ queue'[i] = queue[i + 1] /\ i + 1 # 1
        <4>1. queue' \in Seq(Datagrams)
          BY <1>1, TakeProperties
        <4>2. i # 0 /\ i \in Nat
          BY <4>1
        <4> QED
          BY <1>2, <4>2
      <3> QED
        BY <1>2, <3>1 DEF BacklogInv
    <2>2. \A i, j \in DOMAIN queue' : queue'[i].peer = queue'[j].peer => i = j
      <3> SUFFICES ASSUME NEW i \in DOMAIN queue', NEW j \in DOMAIN queue', queue'[i].peer = queue'[j].peer
                   PROVE  i = j
        OBVIOUS
      <3>1. i + 1 = j + 1
        BY <1>2 DEF BacklogInv
      <3> QED
        BY <1>2, <3>1
    <2>3. stream[cur'.peer] # "idle" /\ \A c \in Streams : stream[c] = "idle" => server[c] = "none"
      BY <1>2 DEF BacklogInv
    <2> QED
      BY <1>1, <2>1, <2>2, <2>3 DEF BacklogInv
  <1> QED
    BY <1>4, <1>5

LEMMA LookupServed ==
    ASSUME TypeInv, TableInv, ServerInv, BacklogInv, Lookup
    PROVE  TableInv' /\ ServerInv' /\ BacklogInv'
  <1>1. /\ lpc = "lookup" /\ lpc' \in {"accept", "verify"}
        /\ lpc' = "verify" => ~Iperf_present(cur.peer)
        /\ UNCHANGED <<mode, cur, stream, clients, groupID, server>>
    BY DEF Lookup, remote
  <1>2. mode.udp
    BY <1>1 DEF BacklogInv
  <1>3. Registered = {} /\ Registered' = {}
    BY <1>1 DEF Registered
  <1>4. Dealing' => server[cur'.peer] \notin Serving
    <2>1. cur.peer \in Streams
      BY <1>1 DEF TypeInv, Datagrams
    <2>2. ~Iperf_present(cur.peer) => cur.peer \notin Peers
      BY DEF Iperf_present, OfPeer, Peers
    <2> QED
      BY <1>1, <1>3, <2>1, <2>2 DEF ServerInv, Dealing
  <1>5. TableInv' /\ ServerInv'
    BY <1>1, <1>3, <1>4, TableKept
  <1>6. BacklogInv'
    BY <1>1, <1>2 DEF BacklogInv
  <1> QED
    BY <1>5, <1>6

\* With -U a closing datagram ends the stream's server, which is no thread.
LEMMA ReceiveServed ==
    ASSUME TypeInv, TableInv, ServerInv, BacklogInv, Receive
    PROVE  TableInv' /\ ServerInv' /\ BacklogInv'
  <1> DEFINE known == Iperf_present(cur'.peer)
             ends == known /\ cur'.fin
  <1>1. /\ lpc = "accept" /\ mode.singleUDP /\ queue # <<>> /\ cur' = Head(queue)
        /\ lpc' = IF known \/ cur'.fin THEN "accept" ELSE "verify"
        /\ IF ends THEN Iperf_delete(cur'.peer) ELSE UNCHANGED clients
        /\ server' = IF ends THEN [server EXCEPT ![cur'.peer] = "gone"] ELSE server
        /\ UNCHANGED <<mode, groupID>>
    BY DEF Receive, remote
  <1>2. mode.udp
    BY <1>1, ModesAssumption DEF TypeInv
  <1>3. BacklogInv'
    BY <1>1, <1>2 DEF BacklogInv
  <1>4. cur'.peer \in Streams
    BY <1>1, TakeProperties DEF Datagrams
  <1>5. Registered = {} /\ Registered' = {}
    BY <1>1 DEF Registered
  <1>6. CASE ends
    <2>1. TableInv' /\ Peers' = Peers \ {cur'.peer}
      BY <1>1, <1>4, <1>6, DeleteProperties
    <2>2. /\ server' = [server EXCEPT ![cur'.peer] = "gone"]
          /\ server \in [Streams -> {"none", "running", "acking", "gone"}]
      BY <1>1, <1>6 DEF TypeInv
    <2>3. ~Dealing'
      BY <1>1, <1>6 DEF Dealing
    <2> HIDE DEF known, ends
    <2>4. {c \in Streams : server'[c] \in Serving} = {c \in Streams : server[c] \in Serving} \ {cur'.peer}
      BY <1>4, <2>2 DEF Serving
    <2> QED
      BY <1>3, <1>5, <2>1, <2>3, <2>4 DEF ServerInv
  <1>7. CASE ~ends
    <2>1. ~known => cur'.peer \notin Peers
      BY DEF Iperf_present, OfPeer, Peers
    <2>2. UNCHANGED <<clients, groupID, server>>
      BY <1>1, <1>7
    <2>3. Dealing' => ~known
      BY <1>1 DEF Dealing
    <2>4. Dealing' => server[cur'.peer] \notin Serving
      BY <1>4, <1>5, <2>1, <2>3 DEF ServerInv
    <2> HIDE DEF known, ends
    <2> QED
      BY <1>3, <1>5, <2>2, <2>4, TableKept
  <1> QED
    BY <1>6, <1>7

LEMMA VerifyServed ==
    ASSUME TypeInv, TableInv, ServerInv, BacklogInv, Verify
    PROVE  TableInv' /\ ServerInv' /\ BacklogInv'
  <1>1. lpc = "verify" /\ UNCHANGED <<mode, clients, groupID, cur, server>>
    BY DEF Verify
  <1>2. lpc' \in {"accept", "done", "register"} /\ queue' \in {queue, <<>>}
    BY DEF Verify, Again
  <1>3. stream' = stream \/ \E backlog : stream' = Refused(backlog)
    BY Zenon DEF Verify
  <1>4. Registered = {} /\ Registered' = {}
    BY <1>1, <1>2 DEF Registered
  <1>5. Dealing /\ server[cur.peer] \notin Serving
    BY <1>1 DEF ServerInv, Dealing
  <1>6. TableInv' /\ ServerInv'
    BY <1>1, <1>4, <1>5, TableKept
  <1>7. BacklogInv'
    BY <1>1, <1>2, <1>3, <1>5, BacklogKept
  <1> QED
    BY <1>6, <1>7

LEMMA RegisterServed ==
    ASSUME TypeInv, TableInv, ServerInv, BacklogInv, Register
    PROVE  TableInv' /\ ServerInv' /\ BacklogInv' /\ Peers' = Peers \cup {cur.peer}
  <1>1. /\ lpc = "register" /\ lpc' = "header"
        /\ UNCHANGED <<mode, stream, queue, cur, server>>
    BY DEF Register, remote
  <1>2. cur \in Datagrams /\ cur.peer \in Streams /\ Dealing
    BY <1>1 DEF TypeInv, Dealing, Datagrams
  <1>3. Registered = {} /\ Registered' = {cur.peer} /\ Dealing'
    BY <1>1 DEF Registered, Dealing
  <1>4. cur.peer \notin Peers
    BY <1>2, <1>3 DEF ServerInv
  <1>5. PICK h \in Nat :
          /\ Iperf_pushback(Entry(cur.peer, h))
          /\ IF Iperf_hostpresent(cur.peer) THEN h = HolderOf(cur.peer) /\ groupID' = groupID
             ELSE h = groupID + 1 /\ groupID' = groupID + 1
    BY RegisterHolder
  <1>6. TableInv' /\ Peers' = Peers \cup {cur.peer}
    BY <1>2, <1>4, <1>5, RegisterProperties
  <1>7. ServerInv'
    BY <1>1, <1>2, <1>3, <1>6 DEF ServerInv
  <1>8. BacklogInv'
    BY <1>1, <1>2, BacklogKept
  <1> QED
    BY <1>6, <1>7, <1>8

LEMMA ReadHeaderServed ==
    ASSUME TypeInv, TableInv, ServerInv, BacklogInv, ReadHeader
    PROVE  TableInv' /\ ServerInv' /\ BacklogInv'
  <1>1. /\ lpc = "header" /\ lpc' = "start"
        /\ UNCHANGED <<mode, stream, queue, clients, groupID, cur, server>>
    BY DEF ReadHeader, remote
  <1>2. Registered' = Registered /\ Dealing
    BY <1>1 DEF Registered, Dealing
  <1>3. TableInv' /\ ServerInv'
    BY <1>1, <1>2, TableKept DEF ServerInv
  <1>4. BacklogInv'
    BY <1>1, <1>2, BacklogKept
  <1> QED
    BY <1>3, <1>4

LEMMA StartServed ==
    ASSUME TypeInv, TableInv, ServerInv, BacklogInv, StartServer
    PROVE  TableInv' /\ ServerInv' /\ BacklogInv'
  <1>1. /\ lpc = "start" /\ lpc' = "next" /\ server' = [server EXCEPT ![cur.peer] = "running"]
        /\ UNCHANGED <<mode, stream, queue, clients, groupID, cur>>
    BY DEF StartServer, remote
  <1>2. /\ cur.peer \in Streams /\ Dealing /\ ~Dealing'
        /\ Registered = {cur.peer} /\ Registered' = {}
    BY <1>1 DEF TypeInv, Datagrams, Dealing, Registered
  <1>3. server \in [Streams -> {"none", "running", "acking", "gone"}]
    BY DEF TypeInv
  <1>4. {c \in Streams : server'[c] \in Serving} = {c \in Streams : server[c] \in Serving} \cup {cur.peer}
    BY <1>1, <1>2, <1>3 DEF Serving
  <1>5. TableInv' /\ ServerInv'
    BY <1>1, <1>2, <1>4 DEF TableInv, ServerInv, Peers
  <1>6. \A c \in Streams : server'[c] = server[c] \/ c = cur.peer
    BY <1>1, <1>3
  <1>7. BacklogInv'
    BY <1>1, <1>2, <1>6, BacklogKept
  <1> QED
    BY <1>5, <1>7

LEMMA NextClientServed ==
    ASSUME TypeInv, TableInv, ServerInv, BacklogInv, NextClient
    PROVE  TableInv' /\ ServerInv' /\ BacklogInv'
  <1>1. /\ lpc = "next" /\ lpc' \in {"accept", "done"} /\ queue' \in {queue, <<>>}
        /\ stream' = stream \/ stream' = Refused(queue)
        /\ UNCHANGED <<mode, clients, groupID, cur, server>>
    BY DEF NextClient, Again
  <1>2. Registered = {} /\ Registered' = {} /\ ~Dealing'
    BY <1>1 DEF Registered, Dealing
  <1>3. TableInv' /\ ServerInv'
    BY <1>1, <1>2, TableKept
  <1>4. BacklogInv'
    BY <1>1, <1>2, BacklogKept
  <1> QED
    BY <1>3, <1>4

LEMMA ListenerServed ==
    ASSUME TypeInv, TableInv, ServerInv, BacklogInv, Listener
    PROVE  TableInv' /\ ServerInv' /\ BacklogInv'
BY AcceptServed, LookupServed, ReceiveServed, VerifyServed, RegisterServed, ReadHeaderServed,
   StartServed, NextClientServed DEF Listener

\* A server leaves the table as it ends; none is started by that.
LEMMA ServerServed ==
    ASSUME TypeInv, TableInv, ServerInv, BacklogInv, NEW c \in Streams, Server(c)
    PROVE  TableInv' /\ ServerInv' /\ BacklogInv' /\ Peers' \subseteq Peers
                     /\ (clients' # <<>> => clients # <<>>)
  <1>1. UNCHANGED <<mode, stream, queue, groupID, lpc, cur>> /\ server[c] \in Serving
    BY DEF Server, Run, Leave, remote, listening, Serving
  <1>2. /\ server \in [Streams -> {"none", "running", "acking", "gone"}]
        /\ server' \in [Streams -> {"none", "running", "acking", "gone"}]
        /\ \A d \in Streams : d # c => server'[d] = server[d]
    <2>1. server \in [Streams -> {"none", "running", "acking", "gone"}]
      BY DEF TypeInv
    <2>2. \E s \in {"running", "acking", "gone"} : server' = [server EXCEPT ![c] = s]
      <3>1. CASE Run(c)
        <4>1. server' = server \/ server' = [server EXCEPT ![c] = "acking"]
          BY <3>1 DEF Run
        <4>2. server = [server EXCEPT ![c] = "running"]
          BY <2>1, <3>1 DEF Run
        <4> QED
          BY <4>1, <4>2
      <3>2. CASE Leave(c)
        BY <3>2 DEF Leave
      <3> QED
        BY <3>1, <3>2 DEF Server
    <2> QED
      BY <2>1, <2>2
  <1>3. Registered' = Registered /\ Dealing' = Dealing
    BY <1>1 DEF Registered, Dealing
  <1>4. Dealing => cur.peer # c
    BY <1>1 DEF ServerInv
  <1>5. Dealing' => server'[cur'.peer] \notin Serving
    <2>1. Dealing => cur.peer \in Streams
      BY DEF TypeInv, Datagrams
    <2> QED
      BY <1>1, <1>2, <1>3, <1>4, <2>1 DEF ServerInv
  <1>6. BacklogInv'
    <2> SUFFICES ASSUME ~mode.udp
                 PROVE  BacklogInv'
      BY <1>1 DEF BacklogInv
    <2>1. \A i \in DOMAIN queue : queue[i].peer \in Streams /\ queue[i].peer # c
      <3>1. \A i \in DOMAIN queue : queue[i] \in Datagrams
        BY DEF TypeInv
      <3>2. \A i \in DOMAIN queue : queue[i].peer # c
        BY <1>1 DEF BacklogInv, Serving
      <3> QED
        BY <3>1, <3>2 DEF Datagrams
    <2>2. stream[c] # "idle"
      BY <1>1 DEF BacklogInv, Serving
    <2> QED
      BY <1>1, <1>2, <1>3, <2>1, <2>2 DEF BacklogInv
  <1>7. CASE Run(c)
    <2>1. UNCHANGED clients /\ server'[c] \in Serving
      BY <1>1, <1>2, <1>7 DEF Run, Serving
    <2>2. {d \in Streams : server'[d] \in Serving} = {d \in Streams : server[d] \in Serving}
      BY <1>1, <1>2, <2>1
    <2> QED
      BY <1>1, <1>3, <1>5, <1>6, <2>1, <2>2 DEF TableInv, ServerInv, Peers
  <1>8. CASE Leave(c)
    <2>1. Iperf_delete(c) /\ server'[c] \notin Serving
      BY <1>2, <1>8 DEF Leave, Serving, TypeInv
    <2>2. TableInv' /\ Peers' = Peers \ {c} /\ (clients' # <<>> => clients # <<>>)
      BY <1>1, <2>1, DeleteProperties
    <2>3. {d \in Streams : server'[d] \in Serving} = {d \in Streams : server[d] \in Serving} \ {c}
      BY <1>2, <2>1
    <2>4. c \notin Registered
      BY <1>4 DEF Registered, Dealing
    <2> QED
      BY <1>3, <1>5, <1>6, <2>2, <2>3, <2>4 DEF ServerInv
  <1> QED
    BY <1>7, <1>8 DEF Server

-----------------------------------------------------------------------------
(* The hosts admitted.                                                     *)

LEMMA InitHost == Init => HostInv
  <1> SUFFICES ASSUME Init
               PROVE  HostInv
    OBVIOUS
  <1>1. clients = <<>> /\ lpc = "accept" /\ client = (mode.mHost # None) /\ peer = mode.mHost
    BY DEF Init
  <1>2. Peers = {}
    BY <1>1 DEF Peers
  <1> QED
    BY <1>1, <1>2 DEF HostInv

\* Whoever leaves the table leaves the others' host the one admitted.
LEMMA HostKept ==
    ASSUME HostInv, UNCHANGED <<mode, client, peer>>, Peers' \subseteq Peers,
           clients' # <<>> => clients # <<>>,
           lpc' = "register" => lpc = "register" /\ cur' = cur
    PROVE  HostInv'
BY DEF HostInv

LEMMA VerifyHost ==
    ASSUME TypeInv, HostInv, Verify
    PROVE  HostInv'
  <1> DEFINE only == IF FirstOfSingleClient THEN Host[cur.peer] ELSE peer
  <1>1. /\ UNCHANGED <<mode, clients, cur>>
        /\ client' = (client \/ FirstOfSingleClient) /\ peer' = only
    BY DEF Verify
  <1>2. lpc' = "register" => ~((client \/ FirstOfSingleClient) /\ only # Host[cur.peer])
    BY DEF Verify, Again
  <1>3. Peers' = Peers /\ (clients = <<>> => Peers = {})
    BY <1>1 DEF Peers
  <1>4. CASE FirstOfSingleClient
    <2>1. mode.singleClient /\ clients = <<>> /\ client' /\ peer' = Host[cur.peer]
      BY <1>1, <1>4 DEF FirstOfSingleClient
    <2> QED
      BY <1>1, <1>3, <2>1 DEF HostInv
  <1>5. CASE ~FirstOfSingleClient
    <2>1. /\ client' = client /\ peer' = peer /\ (mode.singleClient => clients # <<>>)
          /\ lpc' = "register" /\ client => peer = Host[cur.peer]
      BY <1>1, <1>2, <1>5 DEF FirstOfSingleClient, TypeInv
    <2> QED
      BY <1>1, <1>3, <2>1 DEF HostInv
  <1> QED
    BY <1>4, <1>5

LEMMA ListenerHost ==
    ASSUME TypeInv, TableInv, ServerInv, BacklogInv, HostInv, Listener
    PROVE  HostInv'
  <1>1. CASE Verify
    BY <1>1, VerifyHost
  <1>2. CASE Register
    <2>1. lpc = "register" /\ lpc' = "header" /\ UNCHANGED <<mode, client, peer>>
      BY <1>2 DEF Register, remote
    <2>2. Peers' = Peers \cup {cur.peer}
      BY <1>2, RegisterServed
    <2> QED
      BY <2>1, <2>2 DEF HostInv
  <1>3. CASE Receive
    <2> DEFINE known == Iperf_present(cur'.peer)
               ends == known /\ cur'.fin
    <2>1. /\ queue # <<>> /\ cur' = Head(queue) /\ lpc' \in {"accept", "verify"}
          /\ IF ends THEN Iperf_delete(cur'.peer) ELSE UNCHANGED clients
          /\ UNCHANGED <<mode, groupID, client, peer>>
      BY <1>3 DEF Receive, remote
    <2>2. cur'.peer \in Streams
      BY <2>1, TakeProperties DEF Datagrams
    <2>3. Peers' \subseteq Peers /\ (clients' # <<>> => clients # <<>>)
      <3>1. CASE ends
        BY <2>1, <2>2, <3>1, DeleteProperties
      <3>2. CASE ~ends
        BY <2>1, <3>2 DEF Peers
      <3> QED
        BY <3>1, <3>2
    <2> QED
      BY <2>1, <2>3, HostKept
  <1>4. CASE Accept \/ Lookup \/ ReadHeader \/ StartServer \/ NextClient
    <2>1. UNCHANGED <<mode, clients, client, peer>> /\ lpc' # "register"
      BY <1>4 DEF Accept, Lookup, ReadHeader, StartServer, NextClient, Again, remote
    <2>2. Peers' = Peers
      BY <2>1 DEF Peers
    <2> QED
      BY <2>1, <2>2, HostKept
  <1> QED
    BY <1>1, <1>2, <1>3, <1>4 DEF Listener

-----------------------------------------------------------------------------
(* The header and the test back.                                           *)

LEMMA ListenerHeader ==
    ASSUME TypeInv, HeaderInv, Listener
    PROVE  HeaderInv'
  <1>1. CASE Accept \/ Receive
    BY <1>1 DEF Accept, Receive, HeaderInv, remote
  <1>2. CASE Lookup \/ Verify \/ Register
    BY <1>2 DEF Lookup, Verify, Register, Again, HeaderInv, remote
  <1>3. CASE ReadHeader \/ StartServer \/ NextClient
    BY <1>3 DEF ReadHeader, StartServer, NextClient, Again, HeaderInv, remote
  <1> QED
    BY <1>1, <1>2, <1>3 DEF Listener

LEMMA ListenerSpeaker ==
    ASSUME TypeInv, HeaderInv, SpeakerAsAsked, Listener
    PROVE  SpeakerAsAsked'
  <1>1. CASE ReadHeader
    <2> DEFINE silent == ~mode.udp /\ ~mode.compat /\ stream[cur.peer] = "aborted"
               started == IF silent THEN "none" ELSE SpeakerFor(buf')
    <2>1. /\ lpc = "header" /\ UNCHANGED mode
          /\ buf' = IF mode.udp \/ mode.compat \/ silent THEN buf ELSE Asks[cur.peer]
          /\ speaker' = [speaker EXCEPT ![cur.peer] = started]
      BY <1>1 DEF ReadHeader, remote
    <2>2. cur.peer \in Streams
      BY <2>1 DEF TypeInv, Dealing, Datagrams
    <2>3. started # "none" /\ cur.peer \notin Short => ~mode.compat /\ buf' = Asks[cur.peer]
      <3>1. started # "none" => ~silent /\ ~mode.compat
        BY DEF SpeakerFor
      <3>2. mode.udp /\ cur.peer \notin Short => buf = Asks[cur.peer]
        BY <2>1 DEF HeaderInv
      <3> HIDE DEF started, silent
      <3> QED
        BY <2>1, <3>1, <3>2
    <2>4. started # "none" /\ cur.peer \notin Short =>
            ~mode.compat /\ (started = "now") = (Asks[cur.peer] = "dual") /\ Asks[cur.peer] # "normal"
      <3> SUFFICES ASSUME started # "none", cur.peer \notin Short
                   PROVE  ~mode.compat /\ (started = "now") = (Asks[cur.peer] = "dual")
                                       /\ Asks[cur.peer] # "normal"
        OBVIOUS
      <3>1. ~mode.compat /\ started = SpeakerFor(Asks[cur.peer])
        BY <2>3
      <3>2. Asks[cur.peer] \in {"normal", "dual", "tradeoff"}
        BY <2>2, StreamsAssumption
      <3> HIDE DEF started
      <3> QED
        BY <3>1, <3>2 DEF SpeakerFor
    <2> HIDE DEF started, silent
    <2>5. \A c \in Streams : speaker'[c] = IF c = cur.peer THEN started ELSE speaker[c]
      BY <2>1, <2>2 DEF TypeInv
    <2> QED
      BY <2>1, <2>4, <2>5 DEF SpeakerAsAsked
  <1>2. CASE Accept \/ Lookup \/ Receive \/ Verify \/ Register \/ StartServer \/ NextClient
    <2>1. UNCHANGED <<mode, speaker>>
      BY <1>2 DEF Accept, Lookup, Receive, Verify, Register, StartServer, NextClient, remote
    <2> QED
      BY <2>1 DEF SpeakerAsAsked
  <1> QED
    BY <1>1, <1>2 DEF Listener

-----------------------------------------------------------------------------
(* All together.                                                           *)

ListenerInv ==
    /\ TypeInv /\ TableInv /\ ServerInv /\ BacklogInv
    /\ HostInv /\ HeaderInv /\ SpeakerAsAsked

LEMMA InitInv == Init => ListenerInv
  <1> SUFFICES ASSUME Init
               PROVE  ListenerInv
    OBVIOUS
  <1>1. lpc = "accept" /\ speaker = [c \in Streams |-> "none"]
    BY DEF Init
  <1>2. HeaderInv /\ SpeakerAsAsked
    BY <1>1 DEF HeaderInv, SpeakerAsAsked
  <1> QED
    BY <1>2, InitType, InitServed, InitHost DEF ListenerInv

LEMMA NextKeepsInv == ListenerInv /\ [Next]_vars => ListenerInv'
  <1> SUFFICES ASSUME ListenerInv, [Next]_vars
               PROVE  ListenerInv'
    OBVIOUS
  <1>0. TypeInv /\ TableInv /\ ServerInv /\ BacklogInv /\ HostInv /\ HeaderInv /\ SpeakerAsAsked
    BY DEF ListenerInv
  <1>1. ASSUME NEW c \in Streams, Client(c)
        PROVE  ListenerInv'
    <2>1. TypeInv' /\ TableInv' /\ ServerInv' /\ BacklogInv'
      BY <1>0, <1>1, ClientType, ClientServed
    <2>2. UNCHANGED others
      BY <1>0, <1>1, ClientEffect
    <2>3. HostInv' /\ HeaderInv' /\ SpeakerAsAsked'
      BY <1>0, <2>2 DEF others, listening, HostInv, HeaderInv, SpeakerAsAsked, Peers
    <2> QED
      BY <2>1, <2>3 DEF ListenerInv
  <1>2. ASSUME NEW c \in Streams, Server(c)
        PROVE  ListenerInv'
    <2>1. TypeInv' /\ TableInv' /\ ServerInv' /\ BacklogInv'
      BY <1>0, <1>2, ServerType, ServerServed
    <2>2. UNCHANGED <<mode, lpc, cur, buf, client, peer, speaker>>
      BY <1>2 DEF Server, Run, Leave, remote, listening
    <2>3. Peers' \subseteq Peers /\ (clients' # <<>> => clients # <<>>)
      BY <1>0, <1>2, ServerServed
    <2>4. HostInv'
      BY <1>0, <2>2, <2>3, HostKept
    <2>5. HeaderInv' /\ SpeakerAsAsked'
      BY <1>0, <2>2 DEF HeaderInv, SpeakerAsAsked
    <2> QED
      BY <2>1, <2>4, <2>5 DEF ListenerInv
  <1>3. CASE Listener
    BY <1>0, <1>3, ListenerType, ListenerServed, ListenerHost, ListenerHeader, ListenerSpeaker
       DEF ListenerInv
  <1>4. CASE UNCHANGED vars
    BY <1>4 DEF ListenerInv, vars, listening, TypeInv, TableInv, ServerInv, BacklogInv, HostInv,
                HeaderInv, SpeakerAsAsked, Peers, Registered, Dealing
  <1> QED
    BY <1>1, <1>2, <1>3, <1>4 DEF Next, Idle

\* The invariant of the listener: types, table, servers, backlog, hosts, header.
THEOREM ListenerInductive == Spec => []ListenerInv
BY InitInv, NextKeepsInv, PTL DEF Spec

\* A sequence of entries with distinct peers is as long as there are peers.
LEMMA DistinctCount ==
    ASSUME TypeInv, TableInv
    PROVE  Len(clients) = Cardinality(Peers)
  <1> DEFINE n == Len(clients)
             peerAt == [i \in 1 .. n |-> clients[i].peer]
  <1>1. n \in Nat /\ DOMAIN clients = 1 .. n
    BY DEF TypeInv
  <1>2. ExistsBijection(1 .. n, Peers)
    <2>1. peerAt \in [1 .. n -> Peers]
      BY <1>1 DEF Peers
    <2>2. IsInjective(peerAt)
      BY <1>1 DEF TableInv, IsInjective
    <2>3. \A c \in Peers : \E a \in 1 .. n : peerAt[a] = c
      BY <1>1 DEF Peers
    <2> HIDE DEF n, peerAt
    <2> QED
      BY <2>1, <2>2, <2>3, Zenon DEF ExistsBijection, Bijection, Injection, Surjection
  <1> HIDE DEF n, peerAt
  <1>3. Cardinality(Peers) = n
    BY <1>1, <1>2, FS_CountingElements
  <1> QED
    BY <1>3 DEF n

\* The table holds every stream being served, once, in the group of its host.
THEOREM TableCorrect == Spec => []TableMatchesServers
  <1>1. ListenerInv => TableMatchesServers
    <2> SUFFICES ASSUME ListenerInv
                 PROVE  TableMatchesServers
      OBVIOUS
    <2>1. Peers = {c \in Streams : server[c] \in {"running", "acking"}} \cup Registered
      BY DEF ListenerInv, ServerInv, Serving
    <2>2. Len(clients) = Cardinality(Peers)
      BY DistinctCount DEF ListenerInv
    <2>3. \A i, j \in DOMAIN clients :
            (clients[i].holder = clients[j].holder) = (Host[clients[i].peer] = Host[clients[j].peer])
      BY DEF ListenerInv, TableInv
    <2> QED
      BY <2>1, <2>2, <2>3 DEF TableMatchesServers
  <1> QED
    BY <1>1, ListenerInductive, PTL

\* One client host at a time, or the one given, is served.
THEOREM HostCorrect == Spec => []OneHostAtATime
  <1>1. ListenerInv => OneHostAtATime
    BY DEF ListenerInv, HostInv, OneHostAtATime
  <1> QED
    BY <1>1, ListenerInductive, PTL

\* A test back is started for those who asked for one, as they asked.
THEOREM SpeakerCorrect == Spec => []SpeakerAsAsked
  <1>1. ListenerInv => SpeakerAsAsked
    BY DEF ListenerInv
  <1> QED
    BY <1>1, ListenerInductive, PTL
=============================================================================

---------------------------- MODULE Sockets_proofs ----------------------------
(***************************************************************************)
(* Proofs about Sockets, for any addresses and any well-named tests: every *)
(* socket gets the name its thread asked for, the buffer its stream goes   *)
(* through is the one asked for and reported, and no stream of the test or of the test back is refused.     *)
(***************************************************************************)
EXTENDS Sockets, TLAPS

Addresses == DOMAIN Octet \cup {Wildcard, None}
Ports == STRING \cup Ids \cup {None}
Names == [addr : Addresses, port : Ports]
Past == {"connected", "lingering", "closed"}
Socks == [state : {"none", "tuned", "bound", "listening"} \cup Past, local : Names, peer : Names,
          asked : [send : Nat, receive : Nat], window : [send : Nat, receive : Nat], mss : Nat, joined : SUBSET DOMAIN Octet, ttl : BOOLEAN]

\* The name a socket has once bound, and a sender's once connected.
BoundName(s) ==
    IF IsSender(s) /\ mLocalhost(s) = None THEN NoName ELSE SockAddr_localAddr(mLocalhost(s), mPort(s))
StreamName(s) == IF mLocalhost(s) = None THEN Chosen(s) ELSE SockAddr_localAddr(mLocalhost(s), mPort(s))

\* Where the client's streams come from, which is where the speaker's go.
ClientAddr == IF test.bind = None THEN HereDefault ELSE test.bind
StreamPeer(s) ==
    IF s = "speaker" THEN Name(ClientAddr, mPort(s)) ELSE SockAddr_remoteAddr(test.host, mPort(s))

Groups(s) ==
    LET group == SockAddr_localAddr(mLocalhost(s), mPort(s)).addr
    IN  IF SockAddr_isMulticast(group) THEN {group} ELSE {}

Named(s, k) ==
    /\ k.state \in {"none", "tuned"} => k.local = NoName
    /\ k.state \in {"bound", "listening"} => k.local = BoundName(s)
    /\ k.state = "listening" => ~IsSender(s) /\ k.joined = Groups(s)
    /\ k.state \in Past => IsSender(s) /\ k.local = StreamName(s) /\ k.peer = StreamPeer(s)

Tuned(s, k) ==
    k.state # "none" =>
        /\ k.asked = setsock_tcp_windowsize(mTCPWin(s), IsSender(s))
        /\ k.mss = setsock_tcp_mss(mMSS(s))
        /\ k.ttl = isMulticast(s)

SockOK(s, k) == k \in Socks /\ Named(s, k) /\ Tuned(s, k)

\* Each socket is where its thread has come, with the names asked for.
SocksInv ==
    /\ test \in Tests
    /\ sock \in [Ids -> Socks]
    /\ \A s \in Ids : SockOK(s, sock[s])

\* What must have happened for a thread to be started.
StartInv ==
    /\ \A s \in Ids \ {"server"} : sock[s].state # "none" => sock["server"].state = "listening"
    /\ sock["client2"].state # "none" => test.threads = 2
    /\ sock["listener"].state # "none" => test.way # "normal"
    /\ sock["speaker"].state # "none" => admitted # {} /\ test.way # "normal" /\ ~isMulticast("server")

\* A stream with a server came from its name, and goes where the server listens.
AdmittedInv ==
    \A a \in admitted :
        /\ a.id \in Ids /\ a.at \in Ids
        /\ sock[a.id].state \in Past /\ a.from = StreamName(a.id)
        /\ Reaches(sock[a.id].peer, a.at)

SettingsInv == \A r \in settings : r.id \in Ids /\ sock[r.id].state # "none" /\ ReportedTruly(r)

SocketsInv == SocksInv /\ StartInv /\ AdmittedInv /\ SettingsInv

USE SocketsAssumption, OwnAddressAssumption

-----------------------------------------------------------------------------
\* What the definitions say of each thread, once and for all.
LEMMA TestTyped ==
    ASSUME test \in Tests
    PROVE  /\ test.udp \in BOOLEAN /\ test.threads \in 1 .. 2
           /\ test.bind \in {None} \cup Here /\ test.serverBind \in {None} \cup DOMAIN Octet
           /\ test.port \in STRING /\ test.listenPort \in {None} \cup STRING /\ test.host \in Seq(DOMAIN Octet)
           /\ test.window \in Nat /\ test.serverWindow \in Nat /\ test.mss \in Nat /\ test.serverMss \in Nat
BY DEF TestType

LEMMA ThreadTyped ==
    ASSUME test \in Tests, NEW s \in Ids
    PROVE  /\ mPort(s) \in STRING
           /\ mLocalhost(s) \in {None} \cup DOMAIN Octet
           /\ mTCPWin(s) \in Nat /\ mMSS(s) \in Nat /\ isMulticast(s) \in BOOLEAN
  <1>1. /\ test.bind \in {None} \cup Here /\ test.serverBind \in {None} \cup DOMAIN Octet
        /\ test.port \in STRING /\ test.listenPort \in {None} \cup STRING
        /\ test.window \in Nat /\ test.serverWindow \in Nat /\ test.mss \in Nat /\ test.serverMss \in Nat
    BY TestTyped
  <1>2. mPort(s) \in STRING
    BY <1>1 DEF mPort, WayBackPort
  <1>3. mLocalhost(s) \in {None} \cup DOMAIN Octet
    BY <1>1 DEF mLocalhost
  <1>4. HeaderWindow \in Nat
    BY <1>1 DEF HeaderWindow
  <1>5. mTCPWin(s) \in Nat
    BY <1>1, <1>4 DEF mTCPWin, Ids, Clients
  <1>6. mMSS(s) \in Nat
    BY <1>1 DEF mMSS
  <1>7. isMulticast(s) \in BOOLEAN
    BY DEF isMulticast, SockAddr_isMulticast
  <1> QED
    BY <1>2, <1>3, <1>5, <1>6, <1>7

LEMMA NamesTyped ==
    ASSUME test \in Tests, NEW s \in Ids
    PROVE  /\ NoName \in Names
           /\ SockAddr_localAddr(mLocalhost(s), mPort(s)) \in Names
           /\ Chosen(s) \in Names
           /\ BoundName(s) \in Names
  <1>1. mPort(s) \in STRING /\ mLocalhost(s) \in {None} \cup DOMAIN Octet
    BY ThreadTyped
  <1>2. NoName \in Names
    BY DEF NoName, Name, Names, Addresses, Ports
  <1>3. SockAddr_localAddr(mLocalhost(s), mPort(s)) \in Names
    BY <1>1 DEF SockAddr_localAddr, Name, Names, Addresses, Ports
  <1>4. Chosen(s) \in Names
    <2>1. HereDefault \in Addresses /\ ThereDefault \in Addresses
      BY DEF Addresses
    <2>2. s \in Ports
      BY DEF Ports
    <2>3. Chosen(s) = Name(HereDefault, s) \/ Chosen(s) = Name(ThereDefault, s)
      BY DEF Chosen
    <2>4. Name(HereDefault, s) \in Names /\ Name(ThereDefault, s) \in Names
      BY <2>1, <2>2 DEF Name, Names
    <2> QED
      BY <2>3, <2>4
  <1> QED
    BY <1>2, <1>3, <1>4 DEF BoundName

\* Nothing of this changes as sockets do.
LEMMA SameThreads ==
    ASSUME UNCHANGED test, NEW s \in Ids
    PROVE  /\ mPort(s)' = mPort(s) /\ mLocalhost(s)' = mLocalhost(s) /\ mTCPWin(s)' = mTCPWin(s)
           /\ mMSS(s)' = mMSS(s) /\ isMulticast(s)' = isMulticast(s)
           /\ BoundName(s)' = BoundName(s) /\ StreamName(s)' = StreamName(s)
           /\ StreamPeer(s)' = StreamPeer(s) /\ Groups(s)' = Groups(s)
  <1>1. /\ mPort(s)' = mPort(s) /\ mLocalhost(s)' = mLocalhost(s) /\ mTCPWin(s)' = mTCPWin(s)
        /\ mMSS(s)' = mMSS(s) /\ isMulticast(s)' = isMulticast(s)
    BY DEF mPort, WayBackPort, mLocalhost, mTCPWin, HeaderWindow, mMSS, isMulticast
  <1>2. /\ BoundName(s)' = BoundName(s) /\ StreamName(s)' = StreamName(s)
        /\ StreamPeer(s)' = StreamPeer(s) /\ Groups(s)' = Groups(s)
    BY <1>1 DEF BoundName, StreamName, StreamPeer, ClientAddr, Groups
  <1> QED
    BY <1>1, <1>2

-----------------------------------------------------------------------------
\* One socket changes, to what its thread asked for.
LEMMA OneSockMoves ==
    ASSUME SocksInv, UNCHANGED test, NEW s \in Ids, NEW k, SockOK(s, k), sock' = [sock EXCEPT ![s] = k]
    PROVE  SocksInv' /\ sock'[s] = k /\ \A t \in Ids \ {s} : sock'[t] = sock[t]
  <1>1. sock'[s] = k /\ \A t \in Ids \ {s} : sock'[t] = sock[t]
    BY DEF SocksInv
  <1>2. sock' \in [Ids -> Socks]
    BY DEF SocksInv, SockOK
  <1>3. \A t \in Ids : SockOK(t, sock'[t])
    BY <1>1, Zenon DEF SocksInv
  <1>4. \A t \in Ids : SockOK(t, sock[t])'
    <2> SUFFICES ASSUME NEW t \in Ids
                 PROVE  SockOK(t, sock[t])'
      OBVIOUS
    <2>1. SockOK(t, sock'[t])
      BY <1>3
    <2>2. Named(t, sock[t])'
      BY <2>1, SameThreads DEF SockOK, Named
    <2>3. Tuned(t, sock[t])'
      BY <2>1, SameThreads DEF SockOK, Tuned, setsock_tcp_mss
    <2> QED
      BY <2>1, <2>2, <2>3 DEF SockOK
  <1> QED
    BY <1>1, <1>2, <1>4 DEF SocksInv

\* A socket that listens stays as it is, and a stream keeps its peer.
Keeps ==
    \A t \in Ids :
        /\ sock[t].state = "listening" => sock'[t] = sock[t]
        /\ sock[t].state \in Past => sock'[t].state \in Past /\ sock'[t].peer = sock[t].peer

\* Buffers keep what they have.
Unresized ==
    \A t \in Ids : sock[t].state # "none" =>
        /\ sock'[t].state # "none" /\ sock'[t].asked = sock[t].asked /\ sock'[t].window = sock[t].window

NoneNew == \A t \in Ids : sock'[t].state # "none" => sock[t].state # "none"

LEMMA AdmittedStay ==
    ASSUME SocketsInv, Keeps, UNCHANGED <<test, admitted>>
    PROVE  AdmittedInv'
  <1> SUFFICES ASSUME NEW a \in admitted
               PROVE  /\ a.id \in Ids /\ a.at \in Ids
                      /\ sock'[a.id].state \in Past /\ a.from = StreamName(a.id)'
                      /\ Reaches(sock[a.id].peer, a.at)'
    BY DEF AdmittedInv
  <1>1. /\ a.id \in Ids /\ a.at \in Ids /\ sock[a.id].state \in Past /\ a.from = StreamName(a.id)
        /\ Reaches(sock[a.id].peer, a.at)
    BY DEF SocketsInv, AdmittedInv
  <1>2. sock'[a.id].state \in Past /\ sock'[a.id].peer = sock[a.id].peer
    BY <1>1 DEF Keeps
  <1>3. sock'[a.at] = sock[a.at]
    BY <1>1 DEF Keeps, Reaches
  <1>4. Reaches(sock[a.id].peer, a.at)'
    BY <1>1, <1>2, <1>3 DEF Reaches
  <1>5. StreamName(a.id)' = StreamName(a.id)
    BY <1>1, SameThreads
  <1> QED
    BY <1>1, <1>2, <1>4, <1>5

LEMMA SettingsStay == ASSUME SettingsInv, Unresized, UNCHANGED settings PROVE SettingsInv'
BY DEF SettingsInv, Unresized, ReportedTruly, Buffered

LEMMA StartsStay ==
    ASSUME StartInv, Keeps, NoneNew, UNCHANGED test, admitted \subseteq admitted'
    PROVE  StartInv'
  <1>1. isMulticast("server")' = isMulticast("server")
    BY DEF isMulticast
  <1>2. \A t \in Ids : sock'[t].state # "none" => sock[t].state # "none"
    BY DEF NoneNew
  <1>3. sock["server"].state = "listening" => sock'["server"].state = "listening"
    BY DEF Keeps, Ids
  <1>4. {"client1", "client2", "listener", "server", "speaker"} = Ids
    BY DEF Ids, Clients
  <1> QED
    BY <1>1, <1>2, <1>3, <1>4 DEF StartInv

-----------------------------------------------------------------------------
\* The kernel finds no other socket of the host under the name asked for.
LEMMA NameIsFree ==
    ASSUME SocksInv, StartInv, WellNamed(test), NEW s \in Ids, sock[s].state # "none",
           ~(IsSender(s) /\ mLocalhost(s) = None)
    PROVE  \A name : name.port = mPort(s) => Bound(s, name) = name
  <1> SUFFICES ASSUME NEW name, name.port = mPort(s), NEW t \in Ids \ {s}, Conflict(s, t, name)
               PROVE  FALSE
    BY DEF Bound
  <1>1. /\ OnHost(t) = OnHost(s) /\ sock[t].local # NoName
        /\ sock[t].state \in {"bound", "listening"} \cup Past /\ sock[t].local.port = mPort(s)
    BY DEF Conflict, InUse, Past
  <1>2. mPort(s) # t
    <2>1. mPort(s) \in {test.port, test.listenPort}
      BY DEF mPort, WayBackPort
    <2> QED
      BY <2>1 DEF WellNamed
  <1>3. mPort(t) = mPort(s) /\ ~(IsSender(t) /\ mLocalhost(t) = None)
    <2>1. SockOK(t, sock[t])
      BY DEF SocksInv
    <2>2. sock[t].local = BoundName(t) \/ sock[t].local = StreamName(t)
      BY <1>1, <2>1 DEF SockOK, Named
    <2>3. IsSender(t) /\ mLocalhost(t) = None => sock[t].local \in {NoName, Chosen(t)}
      BY <2>2 DEF BoundName, StreamName
    <2>4. Chosen(t).port = t
      BY DEF Chosen, Name
    <2>5. ~(IsSender(t) /\ mLocalhost(t) = None)
      BY <1>1, <1>2, <2>3, <2>4
    <2>6. sock[t].local \in {SockAddr_localAddr(mLocalhost(t), mPort(t)), Chosen(t)}
      BY <2>2, <2>5 DEF BoundName, StreamName
    <2>7. SockAddr_localAddr(mLocalhost(t), mPort(t)).port = mPort(t)
      BY DEF SockAddr_localAddr, Name
    <2> QED
      BY <1>1, <1>2, <2>4, <2>5, <2>6, <2>7
  <1>4. sock[t].state # "none"
    BY <1>1 DEF Past
  <1>5. Here # There
    OBVIOUS
  <1>6. \/ {s, t} = {"client1", "client2"}
        \/ "listener" \in {s, t} /\ {s, t} \cap Clients # {}
        \/ {s, t} = {"server", "speaker"}
    <2>1. s \in {"server", "speaker"} <=> t \in {"server", "speaker"}
      BY <1>1, <1>5, Zenon DEF OnHost
    <2>2. CASE s \in {"server", "speaker"}
      BY <2>1, <2>2
    <2>3. CASE s \in {"client1", "client2", "listener"}
      <3>1. t \in {"client1", "client2", "listener"}
        BY <2>1, <2>3 DEF Ids, Clients
      <3>2. CASE s = "listener"
        <4>1. t \in Clients
          BY <3>1, <3>2 DEF Clients
        <4> QED
          BY <3>2, <4>1
      <3>3. CASE t = "listener"
        <4>1. s \in Clients
          BY <2>3, <3>3 DEF Clients
        <4> QED
          BY <3>3, <4>1
      <3>4. CASE s \in {"client1", "client2"} /\ t \in {"client1", "client2"}
        BY <3>4
      <3> QED
        BY <2>3, <3>1, <3>2, <3>3, <3>4
    <2> QED
      BY <2>2, <2>3 DEF Ids, Clients
  <1>7. CASE {s, t} = {"client1", "client2"}
    <2>1. sock["client2"].state # "none" /\ test.bind # None
      BY <1>3, <1>4, <1>7 DEF IsSender, Clients, mLocalhost
    <2> QED
      BY <2>1 DEF StartInv, WellNamed
  <1>8. CASE "listener" \in {s, t} /\ {s, t} \cap Clients # {}
    <2>1. sock["listener"].state # "none" /\ test.bind # None
      BY <1>3, <1>4, <1>8 DEF IsSender, Clients, mLocalhost
    <2>2. test.listenPort = test.port \/ test.listenPort = None
      BY <1>3, <1>8 DEF mPort, WayBackPort, Clients
    <2> QED
      BY <2>1, <2>2 DEF StartInv, WellNamed
  <1>9. CASE {s, t} = {"server", "speaker"}
    <2>1. sock["speaker"].state # "none" /\ test.serverBind # None
      BY <1>3, <1>4, <1>9 DEF IsSender, Clients, mLocalhost
    <2>2. test.listenPort = test.port \/ test.listenPort = None
      BY <1>3, <1>9 DEF mPort, WayBackPort
    <2> QED
      BY <2>1, <2>2 DEF StartInv, WellNamed
  <1> QED
    BY <1>6, <1>7, <1>8, <1>9

-----------------------------------------------------------------------------
\* Each thread's step leaves its socket as SocksInv says.
LEMMA CreateSock ==
    ASSUME SocketsInv, NEW s \in Ids, Create(s)
    PROVE  SocksInv' /\ StartInv' /\ AdmittedInv' /\ Unresized
  <1> DEFINE asked == setsock_tcp_windowsize(mTCPWin(s), IsSender(s))
  <1>9. /\ sock[s].state = "none" /\ Starts(s) /\ UNCHANGED <<test, admitted>>
        /\ \E tuned \in SetSocketOptions(s) : sock' = [sock EXCEPT ![s] = tuned]
    BY DEF Create
  <1>10. PICK window \in Buffers(asked) :
            sock' = [sock EXCEPT ![s] = [Closed EXCEPT !.state = "tuned", !.asked = asked, !.window = window,
                                         !.mss = setsock_tcp_mss(mMSS(s)), !.ttl = isMulticast(s)]]
    BY <1>9, Zenon DEF SetSocketOptions
  <1> DEFINE k == [Closed EXCEPT !.state = "tuned", !.asked = asked, !.window = window,
                                 !.mss = setsock_tcp_mss(mMSS(s)), !.ttl = isMulticast(s)]
  <1>1. /\ sock[s].state = "none" /\ Starts(s) /\ UNCHANGED <<test, admitted>>
        /\ sock' = [sock EXCEPT ![s] = k]
    BY <1>9, <1>10
  <1>2. test \in Tests /\ SocksInv /\ StartInv /\ AdmittedInv
    BY DEF SocketsInv, SocksInv
  <1>3. /\ k.state = "tuned" /\ k.local = NoName /\ k.peer = NoName /\ k.joined = {}
        /\ k.asked = setsock_tcp_windowsize(mTCPWin(s), IsSender(s))
        /\ k.mss = setsock_tcp_mss(mMSS(s)) /\ k.ttl = isMulticast(s)
    BY DEF Closed
  <1>4. k \in Socks
    <2>1. mTCPWin(s) \in Nat /\ mMSS(s) \in Nat /\ isMulticast(s) \in BOOLEAN /\ NoName \in Names
      BY <1>2, ThreadTyped, NamesTyped
    <2>2. setsock_tcp_windowsize(mTCPWin(s), IsSender(s)) \in [send : Nat, receive : Nat]
      BY <2>1 DEF setsock_tcp_windowsize
    <2>3. setsock_tcp_mss(mMSS(s)) \in Nat
      BY <2>1 DEF setsock_tcp_mss
    <2>4. window \in [send : Nat, receive : Nat]
      BY <2>2 DEF Buffers, Buffer
    <2> QED
      BY <2>1, <2>2, <2>3, <2>4 DEF Closed, Socks
  <1>5. SockOK(s, k)
    BY <1>3, <1>4 DEF SockOK, Named, Tuned, Past
  <1> HIDE DEF k
  <1>6. SocksInv' /\ sock'[s] = k /\ \A t \in Ids \ {s} : sock'[t] = sock[t]
    BY <1>1, <1>2, <1>5, OneSockMoves
  <1>7. StartInv'
    <2>1. s # "server" => sock["server"].state = "listening"
      <3>1. CASE s = "speaker"
        <4>1. PICK a \in admitted : TRUE
          BY <1>1, <3>1 DEF Starts
        <4>2. a.id \in Ids /\ sock[a.id].state \in Past
          BY <1>2 DEF AdmittedInv
        <4>3. IsSender(a.id)
          BY <1>2, <4>2 DEF SocksInv, SockOK, Named
        <4>4. a.id # "server" /\ sock[a.id].state # "none"
          BY <4>2, <4>3 DEF IsSender, Clients, Past
        <4> QED
          BY <1>2, <4>2, <4>4 DEF StartInv
      <3>2. CASE s \in {"client1", "client2", "listener"}
        BY <1>1, <3>2 DEF Starts
      <3> QED
        BY <3>1, <3>2 DEF Ids, Clients
    <2>2. isMulticast("server")' = isMulticast("server") /\ UNCHANGED <<test, admitted>>
      BY <1>1 DEF isMulticast
    <2>3. \A t \in Ids \ {"server"} : sock'[t].state # "none" => sock'["server"].state = "listening"
      <3> SUFFICES ASSUME NEW t \in Ids \ {"server"}, sock'[t].state # "none"
                   PROVE  sock'["server"].state = "listening"
        OBVIOUS
      <3>1. sock["server"].state = "listening"
        <4>1. CASE t = s
          BY <2>1, <4>1
        <4>2. CASE t # s
          BY <1>2, <1>6, <4>2 DEF StartInv
        <4> QED
          BY <4>1, <4>2
      <3>2. s # "server"
        BY <1>1, <3>1
      <3> QED
        BY <1>6, <3>1, <3>2 DEF Ids
    <2>4. sock'["client2"].state # "none" => test.threads = 2
      <3>1. CASE s = "client2"
        BY <1>1, <3>1 DEF Starts
      <3>2. CASE s # "client2"
        BY <1>2, <1>6, <3>2 DEF StartInv, Ids, Clients
      <3> QED
        BY <3>1, <3>2
    <2>5. sock'["listener"].state # "none" => test.way # "normal"
      <3>1. CASE s = "listener"
        BY <1>1, <3>1 DEF Starts
      <3>2. CASE s # "listener"
        BY <1>2, <1>6, <3>2 DEF StartInv, Ids
      <3> QED
        BY <3>1, <3>2
    <2>6. sock'["speaker"].state # "none" => admitted # {} /\ test.way # "normal" /\ ~isMulticast("server")
      <3>1. CASE s = "speaker"
        BY <1>1, <3>1 DEF Starts
      <3>2. CASE s # "speaker"
        BY <1>2, <1>6, <3>2 DEF StartInv, Ids
      <3> QED
        BY <3>1, <3>2
    <2> QED
      BY <2>2, <2>3, <2>4, <2>5, <2>6 DEF StartInv
  <1>8. AdmittedInv'
    <2>1. Keeps
      BY <1>1, <1>6 DEF Keeps, Past
    <2> QED
      BY <1>1, <2>1, AdmittedStay
  <1>11. Unresized
    BY <1>1, <1>6, Zenon DEF Unresized
  <1> QED
    BY <1>6, <1>7, <1>8, <1>11

\* The same for a thread that has started.
LEMMA StartedSock ==
    ASSUME SocketsInv, UNCHANGED <<test, admitted>>, NEW s \in Ids, NEW k,
           sock' = [sock EXCEPT ![s] = k], SockOK(s, k),
           sock[s].state \notin {"none", "listening"},
           sock[s].state \in Past => k.state \in Past /\ k.peer = sock[s].peer,
           k.state # "none" /\ k.asked = sock[s].asked /\ k.window = sock[s].window
    PROVE  SocksInv' /\ StartInv' /\ AdmittedInv' /\ Unresized /\ sock'[s] = k /\ \A t \in Ids \ {s} : sock'[t] = sock[t]
  <1>1. SocksInv' /\ sock'[s] = k /\ \A t \in Ids \ {s} : sock'[t] = sock[t]
    BY OneSockMoves DEF SocketsInv
  <1>2. Keeps
    BY <1>1, Zenon DEF Keeps
  <1>3. NoneNew
    BY <1>1 DEF NoneNew
  <1>4. Unresized
    BY <1>1, Zenon DEF Unresized
  <1> QED
    BY <1>1, <1>2, <1>3, <1>4, StartsStay, AdmittedStay DEF SocketsInv

LEMMA BindSock ==
    ASSUME SocketsInv, WellNamed(test), NEW s \in Ids, Bind(s)
    PROVE  SocksInv' /\ StartInv' /\ AdmittedInv' /\ Unresized
  <1> DEFINE local == IF IsSender(s) /\ mLocalhost(s) = None THEN NoName
                      ELSE Bound(s, SockAddr_localAddr(mLocalhost(s), mPort(s)))
             k == [sock[s] EXCEPT !.state = "bound", !.local = local]
  <1>1. /\ sock[s].state = "tuned" /\ UNCHANGED <<test, admitted>>
        /\ sock' = [sock EXCEPT ![s].state = "bound", ![s].local = local]
    BY Zenon DEF Bind
  <1>2. test \in Tests /\ sock[s] \in Socks /\ SockOK(s, sock[s]) /\ sock \in [Ids -> Socks]
    BY DEF SocketsInv, SocksInv
  <1>3. local = BoundName(s)
    <2>1. CASE IsSender(s) /\ mLocalhost(s) = None
      BY <2>1 DEF BoundName
    <2>2. CASE ~(IsSender(s) /\ mLocalhost(s) = None)
      <3>1. SockAddr_localAddr(mLocalhost(s), mPort(s)).port = mPort(s)
        BY DEF SockAddr_localAddr, Name
      <3>2. Bound(s, SockAddr_localAddr(mLocalhost(s), mPort(s))) = SockAddr_localAddr(mLocalhost(s), mPort(s))
        BY <1>1, <2>2, <3>1, NameIsFree DEF SocketsInv
      <3> QED
        BY <2>2, <3>2, Zenon DEF BoundName
    <2> QED
      BY <2>1, <2>2
  <1>4. local \in Names
    BY <1>2, <1>3, NamesTyped
  <1> HIDE DEF local
  <1>5. /\ k \in Socks /\ k.state = "bound" /\ k.local = local
        /\ k.asked = sock[s].asked /\ k.window = sock[s].window /\ k.mss = sock[s].mss /\ k.ttl = sock[s].ttl
    BY <1>2, <1>4 DEF Socks
  <1>6. SockOK(s, k)
    BY <1>1, <1>2, <1>3, <1>5 DEF SockOK, Named, Tuned, Past
  <1>7. sock' = [sock EXCEPT ![s] = k]
    BY <1>1, <1>2
  <1> HIDE DEF k
  <1> QED
    BY <1>1, <1>5, <1>6, <1>7, StartedSock DEF Past

LEMMA ListenSock ==
    ASSUME SocketsInv, NEW s \in Ids, Listen(s)
    PROVE  SocksInv' /\ StartInv' /\ AdmittedInv' /\ Unresized
  <1> DEFINE local == IF sock[s].local # NoName \/ test.udp THEN sock[s].local ELSE Name(Wildcard, s)
             group == SockAddr_localAddr(mLocalhost(s), mPort(s)).addr
             joined == IF SockAddr_isMulticast(group) THEN {group} ELSE {}
             k == [sock[s] EXCEPT !.state = "listening", !.local = local, !.joined = joined]
  <1>1. /\ s \in {"listener", "server"} /\ sock[s].state = "bound" /\ UNCHANGED <<test, admitted>>
        /\ sock' = [sock EXCEPT ![s].state = "listening", ![s].local = local, ![s].joined = joined]
    BY Zenon DEF Listen
  <1>2. test \in Tests /\ sock[s] \in Socks /\ SockOK(s, sock[s]) /\ sock \in [Ids -> Socks]
    BY DEF SocketsInv, SocksInv
  <1>3. ~IsSender(s)
    BY <1>1 DEF IsSender, Clients
  <1>4. local = BoundName(s) /\ local \in Names
    <2>1. sock[s].local = BoundName(s)
      BY <1>1, <1>2 DEF SockOK, Named
    <2>2. BoundName(s) # NoName
      <3>1. BoundName(s) = SockAddr_localAddr(mLocalhost(s), mPort(s))
        BY <1>3 DEF BoundName
      <3>2. BoundName(s).addr # None
        BY <3>1 DEF SockAddr_localAddr, Name
      <3> QED
        BY <3>2 DEF NoName, Name
    <2>3. BoundName(s) \in Names
      BY <1>2, NamesTyped
    <2> QED
      BY <2>1, <2>2, <2>3
  <1>5. joined = Groups(s) /\ joined \in SUBSET DOMAIN Octet
    BY DEF Groups, SockAddr_isMulticast
  <1> HIDE DEF local, joined
  <1>6. /\ k \in Socks /\ k.state = "listening" /\ k.local = local /\ k.joined = joined
        /\ k.asked = sock[s].asked /\ k.window = sock[s].window /\ k.mss = sock[s].mss /\ k.ttl = sock[s].ttl
    BY <1>2, <1>4, <1>5 DEF Socks
  <1>7. SockOK(s, k)
    BY <1>1, <1>2, <1>3, <1>4, <1>5, <1>6 DEF SockOK, Named, Tuned, Past
  <1>8. sock' = [sock EXCEPT ![s] = k]
    BY <1>1, <1>2
  <1> HIDE DEF k
  <1> QED
    BY <1>1, <1>6, <1>7, <1>8, StartedSock DEF Past

\* The speaker goes where the client's streams come from.
LEMMA SpeakerGoesBack ==
    ASSUME SocketsInv, sock["speaker"].state = "bound"
    PROVE  SpeakersPeer.addr = ClientAddr
  <1>1. admitted # {}
    BY DEF SocketsInv, StartInv
  <1>2. SpeakersPeer \in {a.from : a \in admitted}
    BY <1>1 DEF SpeakersPeer
  <1>3. PICK a \in admitted : SpeakersPeer = a.from
    BY <1>2
  <1>4. a.id \in Ids /\ sock[a.id].state \in Past /\ a.from = StreamName(a.id)
    BY DEF SocketsInv, AdmittedInv
  <1>5. IsSender(a.id) /\ a.id # "speaker"
    <2>1. SockOK(a.id, sock[a.id])
      BY <1>4 DEF SocketsInv, SocksInv
    <2> QED
      BY <1>4, <2>1 DEF SockOK, Named, Past
  <1>6. a.id \in Clients
    BY <1>5 DEF IsSender
  <1>7. mLocalhost(a.id) = test.bind /\ OnHost(a.id) = Here
    BY <1>6 DEF mLocalhost, OnHost, Clients
  <1> QED
    BY <1>3, <1>4, <1>7 DEF StreamName, Chosen, SockAddr_localAddr, Name, ClientAddr

LEMMA PeerTyped ==
    ASSUME test \in Tests, WellNamed(test), NEW s \in Ids
    PROVE  StreamPeer(s) \in Names
  <1>1. mPort(s) \in Ports
    BY ThreadTyped DEF Ports
  <1>2. test.host \in Seq(DOMAIN Octet) /\ test.host # <<>>
    BY TestTyped DEF WellNamed
  <1>3. Head(test.host) \in Addresses
    BY <1>2 DEF Addresses
  <1>4. ClientAddr \in Addresses
    BY TestTyped DEF ClientAddr, Addresses
  <1> QED
    BY <1>1, <1>3, <1>4 DEF StreamPeer, SockAddr_remoteAddr, SockAddr_setHostname, Name, Names

LEMMA ConnectSock ==
    ASSUME SocketsInv, WellNamed(test), NEW s \in Ids, Connect(s)
    PROVE  /\ SocksInv' /\ StartInv' /\ AdmittedInv' /\ Unresized
           /\ Peer(s) = StreamPeer(s)
  <1> DEFINE local == IF sock[s].local = NoName THEN Chosen(s) ELSE sock[s].local
             state == IF (\E t \in Ids : Reaches(Peer(s), t)) \/ test.udp THEN "connected" ELSE "closed"
             k == [sock[s] EXCEPT !.state = state, !.local = local, !.peer = Peer(s)]
  <1>1. /\ IsSender(s) /\ sock[s].state = "bound" /\ UNCHANGED <<test, admitted>>
        /\ sock' = [sock EXCEPT ![s].state = state, ![s].local = local, ![s].peer = Peer(s)]
    BY Zenon DEF Connect
  <1>2. test \in Tests /\ sock[s] \in Socks /\ SockOK(s, sock[s]) /\ sock \in [Ids -> Socks]
    BY DEF SocketsInv, SocksInv
  <1>3. Peer(s) = StreamPeer(s)
    BY <1>1, SpeakerGoesBack DEF Peer, StreamPeer
  <1>4. local = StreamName(s) /\ local \in Names
    <2>1. sock[s].local = BoundName(s)
      BY <1>1, <1>2 DEF SockOK, Named
    <2>2. CASE mLocalhost(s) = None
      <3>1. local = Chosen(s)
        BY <1>1, <2>1, <2>2 DEF BoundName
      <3> QED
        BY <1>2, <2>2, <3>1, NamesTyped DEF StreamName
    <2>3. CASE mLocalhost(s) # None
      <3>1. BoundName(s) = SockAddr_localAddr(mLocalhost(s), mPort(s))
        BY <2>3 DEF BoundName
      <3>2. BoundName(s).addr # None
        BY <2>3, <3>1 DEF SockAddr_localAddr, Name
      <3>3. BoundName(s) # NoName
        BY <3>2 DEF NoName, Name
      <3> QED
        BY <1>2, <2>1, <2>3, <3>1, <3>3, NamesTyped DEF StreamName
    <2> QED
      BY <2>2, <2>3
  <1>5. StreamPeer(s) \in Names
    BY <1>2, PeerTyped
  <1>6. state \in Past \ {"lingering"}
    BY DEF Past
  <1> HIDE DEF local, state
  <1>7. /\ k \in Socks /\ k.state = state /\ k.local = local /\ k.peer = Peer(s)
        /\ k.asked = sock[s].asked /\ k.window = sock[s].window /\ k.mss = sock[s].mss /\ k.ttl = sock[s].ttl
    BY <1>2, <1>3, <1>4, <1>5, <1>6 DEF Socks
  <1>8. SockOK(s, k)
    BY <1>1, <1>2, <1>3, <1>4, <1>6, <1>7 DEF SockOK, Named, Tuned, Past
  <1>9. sock' = [sock EXCEPT ![s] = k]
    BY <1>1, <1>2
  <1> HIDE DEF k
  <1> QED
    BY <1>1, <1>3, <1>6, <1>7, <1>8, <1>9, StartedSock DEF Past

LEMMA EndSock ==
    ASSUME SocketsInv, NEW s \in Ids, Close(s) \/ LingerEnds(s)
    PROVE  SocksInv' /\ StartInv' /\ AdmittedInv' /\ Unresized
  <1>1. PICK state \in Past :
            /\ sock[s].state \in Past /\ UNCHANGED <<test, admitted>>
            /\ sock' = [sock EXCEPT ![s].state = state]
    <2>1. CASE Close(s)
      BY <2>1 DEF Close, Past
    <2>2. CASE LingerEnds(s)
      BY <2>2 DEF LingerEnds, Past
    <2> QED
      BY <2>1, <2>2
  <1>2. test \in Tests /\ sock[s] \in Socks /\ SockOK(s, sock[s]) /\ sock \in [Ids -> Socks]
    BY DEF SocketsInv, SocksInv
  <1> DEFINE k == [sock[s] EXCEPT !.state = state]
  <1>3. /\ k \in Socks /\ k.state = state /\ k.local = sock[s].local /\ k.peer = sock[s].peer
        /\ k.asked = sock[s].asked /\ k.window = sock[s].window /\ k.mss = sock[s].mss /\ k.ttl = sock[s].ttl
    BY <1>2 DEF Socks
  <1>4. SockOK(s, k)
    BY <1>1, <1>2, <1>3 DEF SockOK, Named, Tuned, Past
  <1>5. sock' = [sock EXCEPT ![s] = k]
    BY <1>1, <1>2
  <1> HIDE DEF k
  <1> QED
    BY <1>1, <1>3, <1>4, <1>5, StartedSock DEF Past

-----------------------------------------------------------------------------
\* Steps that leave the sockets alone.
LEMMA SocksStay ==
    ASSUME SocketsInv, UNCHANGED <<test, sock>>, admitted \subseteq admitted'
    PROVE  SocksInv' /\ StartInv'
  <1>1. SocksInv'
    <2> SUFFICES ASSUME NEW t \in Ids
                 PROVE  SockOK(t, sock[t])'
      BY DEF SocketsInv, SocksInv
    <2>1. SockOK(t, sock[t]) /\ sock'[t] = sock[t]
      BY DEF SocketsInv, SocksInv
    <2>2. Named(t, sock[t])'
      BY <2>1, SameThreads DEF SockOK, Named
    <2>3. Tuned(t, sock[t])'
      BY <2>1, SameThreads DEF SockOK, Tuned, setsock_tcp_mss
    <2> QED
      BY <2>1, <2>2, <2>3 DEF SockOK
  <1>2. Keeps /\ NoneNew
    BY DEF Keeps, NoneNew
  <1> QED
    BY <1>1, <1>2, StartsStay DEF SocketsInv

LEMMA AcceptSock ==
    ASSUME SocketsInv, NEW s \in Ids, NEW t \in Ids, Accept(t, s)
    PROVE  SocksInv' /\ StartInv' /\ AdmittedInv'
  <1> DEFINE new == [id |-> s, at |-> t, from |-> sock[s].local]
  <1>1. /\ sock[s].state = "connected" /\ Reaches(sock[s].peer, t) /\ UNCHANGED <<test, sock>>
        /\ admitted' \in {admitted, admitted \cup {new}}
    BY DEF Accept
  <1>2. sock[s].local = StreamName(s)
    <2>1. SockOK(s, sock[s])
      BY DEF SocketsInv, SocksInv
    <2> QED
      BY <1>1, <2>1 DEF SockOK, Named, Past
  <1>3. SocksInv' /\ StartInv'
    BY <1>1, SocksStay
  <1>4. AdmittedInv'
    <2> SUFFICES ASSUME NEW a \in admitted'
                 PROVE  /\ a.id \in Ids /\ a.at \in Ids
                        /\ sock'[a.id].state \in Past /\ a.from = StreamName(a.id)'
                        /\ Reaches(sock[a.id].peer, a.at)'
      BY DEF AdmittedInv
    <2>1. /\ a.id \in Ids /\ a.at \in Ids /\ sock[a.id].state \in Past /\ a.from = StreamName(a.id)
          /\ Reaches(sock[a.id].peer, a.at)
      <3>1. CASE a \in admitted
        BY <3>1 DEF SocketsInv, AdmittedInv
      <3>2. CASE a = new
        BY <1>1, <1>2, <3>2 DEF Past
      <3> QED
        BY <1>1, <3>1, <3>2
    <2>2. StreamName(a.id)' = StreamName(a.id)
      BY <1>1, <2>1, SameThreads
    <2>3. Reaches(sock[a.id].peer, a.at)'
      BY <1>1, <2>1 DEF Reaches
    <2> QED
      BY <1>1, <2>1, <2>2, <2>3
  <1> QED
    BY <1>3, <1>4

\* What is read back is the buffer that was set.
LEMMA ReportIsTrue ==
    ASSUME SocketsInv, NEW s \in Ids, ReportSettings(s)
    PROVE  SettingsInv'
  <1> DEFINE got == getsock_tcp_windowsize(s, s \notin {"listener", "server"})
             new == [id |-> s, got |-> got, warned |-> mTCPWin(s) # 0 /\ got # mTCPWin(s)]
  <1>1. /\ SockOK(s, sock[s]) /\ sock[s].state # "none" /\ s \in {"listener", "server", "client1"}
        /\ UNCHANGED sock /\ settings' = settings \cup {new}
    BY DEF SocketsInv, SocksInv, ReportSettings
  <1>2. sock[s].asked = setsock_tcp_windowsize(mTCPWin(s), IsSender(s))
    BY <1>1 DEF SockOK, Tuned
  <1>3. IsSender(s) <=> s \notin {"listener", "server"}
    BY <1>1 DEF IsSender, Clients
  <1>4. got = sock[s].window[Buffered(s)] /\ sock[s].asked[Buffered(s)] = mTCPWin(s)
    <2>1. CASE IsSender(s)
      BY <1>2, <1>3, <2>1 DEF getsock_tcp_windowsize, setsock_tcp_windowsize, Buffered
    <2>2. CASE ~IsSender(s)
      BY <1>2, <1>3, <2>2 DEF getsock_tcp_windowsize, setsock_tcp_windowsize, Buffered
    <2> QED
      BY <2>1, <2>2
  <1>5. ReportedTruly(new)
    BY <1>4, Zenon DEF ReportedTruly
  <1> HIDE DEF new, got
  <1>6. new.id = s
    BY DEF new
  <1>7. \A r \in settings \cup {new} : r.id \in Ids /\ sock[r.id].state # "none" /\ ReportedTruly(r)
    BY <1>1, <1>5, <1>6 DEF SocketsInv, SettingsInv
  <1> QED
    BY <1>1, <1>7 DEF SettingsInv, ReportedTruly, Buffered

LEMMA InitSockets == Init => SocketsInv
  <1> SUFFICES ASSUME Init
               PROVE  SocketsInv
    OBVIOUS
  <1>1. /\ test \in Tests /\ sock = [s \in Ids |-> Closed] /\ admitted = {} /\ settings = {}
    BY DEF Init
  <1>2. Closed \in Socks
    <2>1. NoName \in Names
      BY DEF NoName, Name, Names, Addresses, Ports
    <2> QED
      BY <2>1 DEF Closed, Socks
  <1>3. \A s \in Ids : SockOK(s, Closed)
    BY <1>2 DEF SockOK, Named, Tuned, Closed, Past
  <1>4. SocksInv
    BY <1>1, <1>2, <1>3 DEF SocksInv
  <1>5. StartInv
    BY <1>1 DEF StartInv, Closed, Ids, Clients
  <1> QED
    BY <1>1, <1>4, <1>5 DEF SocketsInv, AdmittedInv, SettingsInv

LEMMA StepSockets == (\A t \in Tests : WellNamed(t)) => (SocketsInv /\ [Next]_vars => SocketsInv')
  <1> SUFFICES ASSUME \A t \in Tests : WellNamed(t), SocketsInv, [Next]_vars
               PROVE  SocketsInv'
    OBVIOUS
  <1>1. WellNamed(test)
    BY DEF SocketsInv, SocksInv
  <1>2. ASSUME UNCHANGED <<test, sock, admitted, settings>>
        PROVE  SocketsInv'
    <2>1. SocksInv' /\ StartInv'
      BY <1>2, SocksStay
    <2>2. Keeps
      BY <1>2 DEF Keeps
    <2>3. Unresized
      BY <1>2 DEF Unresized
    <2> QED
      BY <1>2, <2>1, <2>2, <2>3, AdmittedStay, SettingsStay DEF SocketsInv
  <1>3. CASE UNCHANGED vars
    BY <1>2, <1>3 DEF vars
  <1>4. ASSUME NEW s \in Ids, Thread(s)
        PROVE  SocketsInv'
    <2>1. CASE Create(s)
      <3>1. UNCHANGED settings
        BY <2>1 DEF Create
      <3> QED
        BY <2>1, <3>1, CreateSock, SettingsStay DEF SocketsInv
    <2>2. CASE Bind(s)
      <3>1. UNCHANGED settings
        BY <2>2 DEF Bind
      <3> QED
        BY <1>1, <2>2, <3>1, BindSock, SettingsStay DEF SocketsInv
    <2>3. CASE Listen(s)
      <3>1. UNCHANGED settings
        BY <2>3 DEF Listen
      <3> QED
        BY <2>3, <3>1, ListenSock, SettingsStay DEF SocketsInv
    <2>4. CASE Connect(s)
      <3>1. UNCHANGED settings
        BY <2>4 DEF Connect
      <3> QED
        BY <1>1, <2>4, <3>1, ConnectSock, SettingsStay DEF SocketsInv
    <2>5. CASE ReportSettings(s)
      <3>1. UNCHANGED <<test, sock, admitted>>
        BY <2>5 DEF ReportSettings
      <3>2. Keeps
        BY <3>1 DEF Keeps
      <3> QED
        BY <2>5, <3>1, <3>2, SocksStay, AdmittedStay, ReportIsTrue DEF SocketsInv
    <2>6. CASE Close(s) \/ LingerEnds(s)
      <3>1. UNCHANGED settings
        BY <2>6 DEF Close, LingerEnds
      <3> QED
        BY <2>6, <3>1, EndSock, SettingsStay DEF SocketsInv
    <2> QED
      BY <1>4, <2>1, <2>2, <2>3, <2>4, <2>5, <2>6 DEF Thread
  <1>5. ASSUME NEW s \in Ids, NEW t \in Ids, Accept(t, s)
        PROVE  SocketsInv'
    <2>1. UNCHANGED <<sock, settings>>
      BY <1>5 DEF Accept
    <2>2. Unresized
      BY <2>1 DEF Unresized
    <2> QED
      BY <1>5, <2>1, <2>2, AcceptSock, SettingsStay DEF SocketsInv
  <1> QED
    BY <1>3, <1>4, <1>5 DEF Next, Idle

-----------------------------------------------------------------------------
LEMMA AllBound == SocketsInv => BoundAsAsked
  <1> SUFFICES ASSUME SocketsInv, NEW a \in admitted, mLocalhost(a.id) # None
               PROVE  a.from.addr = mLocalhost(a.id)
    BY DEF BoundAsAsked
  <1>1. a.from = StreamName(a.id)
    BY DEF SocketsInv, AdmittedInv
  <1> QED
    BY <1>1 DEF StreamName, SockAddr_localAddr, Name

\* Who sent a stream and who has it.
LEMMA BothEnds ==
    ASSUME SocketsInv, NEW a \in admitted
    PROVE  /\ a.id \in Ids /\ a.at \in Ids /\ Reaches(sock[a.id].peer, a.at)
           /\ sock[a.id].state # "none" /\ IsSender(a.id) /\ SockOK(a.id, sock[a.id])
           /\ sock[a.id].peer = StreamPeer(a.id)
           /\ sock[a.at].state = "listening" /\ a.at \in {"listener", "server"} /\ SockOK(a.at, sock[a.at])
  <1>1. a.id \in Ids /\ a.at \in Ids /\ sock[a.id].state \in Past /\ Reaches(sock[a.id].peer, a.at)
    BY DEF SocketsInv, AdmittedInv
  <1>2. SockOK(a.id, sock[a.id]) /\ SockOK(a.at, sock[a.at])
    BY <1>1 DEF SocketsInv, SocksInv
  <1>3. sock[a.at].state = "listening"
    BY <1>1 DEF Reaches
  <1>4. IsSender(a.id) /\ sock[a.id].peer = StreamPeer(a.id) /\ ~IsSender(a.at)
    BY <1>1, <1>2, <1>3 DEF SockOK, Named
  <1>5. a.at \in {"listener", "server"}
    BY <1>1, <1>4 DEF IsSender, Ids, Clients
  <1>6. sock[a.id].state # "none"
    BY <1>1 DEF Past
  <1> QED
    BY <1>1, <1>2, <1>3, <1>4, <1>5, <1>6

LEMMA AllTuned == SocketsInv => WindowsAsAsked
  <1> SUFFICES ASSUME SocketsInv
               PROVE  WindowsAsAsked
    OBVIOUS
  <1>1. ASSUME NEW a \in admitted
        PROVE  /\ sock[a.id].asked.send = mTCPWin(a.id)
               /\ sock[a.at].asked.receive = mTCPWin(a.at)
               /\ ~test.udp => sock[a.id].mss = mMSS(a.id)
               /\ a.at = "listener" /\ ~test.udp /\ test.window # 0 =>
                      {sock[a.id].asked.send, sock[a.at].asked.receive} = {test.window}
    <2>1. /\ IsSender(a.id) /\ ~IsSender(a.at)
          /\ a.id \in Ids
      BY BothEnds DEF IsSender, Clients
    <2>2. /\ sock[a.id].asked = setsock_tcp_windowsize(mTCPWin(a.id), IsSender(a.id))
          /\ sock[a.at].asked = setsock_tcp_windowsize(mTCPWin(a.at), IsSender(a.at))
          /\ sock[a.id].mss = setsock_tcp_mss(mMSS(a.id))
      <3>1. Tuned(a.id, sock[a.id]) /\ Tuned(a.at, sock[a.at])
        BY BothEnds DEF SockOK
      <3>2. sock[a.id].state # "none" /\ sock[a.at].state # "none"
        BY BothEnds
      <3> QED
        BY <3>1, <3>2 DEF Tuned
    <2>3. sock[a.id].asked.send = mTCPWin(a.id) /\ sock[a.at].asked.receive = mTCPWin(a.at)
      BY <2>1, <2>2 DEF setsock_tcp_windowsize
    <2>4. ~test.udp => sock[a.id].mss = mMSS(a.id)
      BY <2>2 DEF setsock_tcp_mss
    <2>5. ASSUME a.at = "listener", ~test.udp, test.window # 0
          PROVE  mTCPWin(a.id) = test.window /\ mTCPWin(a.at) = test.window
      BY <2>1, <2>5 DEF mTCPWin, HeaderWindow, IsSender, Clients
    <2> QED
      BY <2>3, <2>4, <2>5
  <1> QED
    BY <1>1 DEF WindowsAsAsked, SocketsInv, SettingsInv

LEMMA NotMulticast == \A addr \in Here \cup There \cup {None, Wildcard} : ~SockAddr_isMulticast(addr)
BY DEF SockAddr_isMulticast

LEMMA AllJoined == SocketsInv => GroupsJoined
  <1> SUFFICES ASSUME SocketsInv, NEW a \in admitted, SockAddr_isMulticast(sock[a.id].peer.addr)
               PROVE  sock[a.id].peer.addr \in sock[a.at].joined /\ sock[a.id].ttl
    BY DEF GroupsJoined
  <1>1. sock[a.id].peer.addr \in OnHost(a.at) \cup sock[a.at].joined
    BY BothEnds DEF Reaches
  <1>2. sock[a.id].peer.addr \in sock[a.at].joined
    BY <1>1, NotMulticast DEF OnHost
  <1>3. a.id # "speaker"
    <2>1. SUFFICES ASSUME a.id = "speaker"
                   PROVE  FALSE
      OBVIOUS
    <2>2. sock[a.id].peer.addr = ClientAddr
      <3>1. sock[a.id].peer = StreamPeer(a.id)
        BY BothEnds
      <3> QED
        BY <2>1, <3>1 DEF StreamPeer, Name
    <2>3. ClientAddr \in Here
      BY TestTyped DEF ClientAddr, SocketsInv, SocksInv
    <2> QED
      BY <2>2, <2>3, NotMulticast
  <1>4. a.id \in Clients
    BY <1>3, BothEnds DEF IsSender
  <1>5. sock[a.id].peer.addr = SockAddr_setHostname(test.host)
    <2>1. sock[a.id].peer = StreamPeer(a.id)
      BY BothEnds
    <2> QED
      BY <1>3, <2>1 DEF StreamPeer, SockAddr_remoteAddr, Name
  <1>6. sock[a.id].ttl = isMulticast(a.id)
    BY BothEnds DEF SockOK, Tuned
  <1>7. isMulticast(a.id) = SockAddr_isMulticast(SockAddr_setHostname(test.host))
    BY <1>4 DEF isMulticast, Clients
  <1> QED
    BY <1>2, <1>5, <1>6, <1>7

\* For any hosts and any well-named tests, in any order of the threads: a stream
\* comes from the address asked for; whatever sizes the kernel gives, both ends ask for
\* theirs of the buffer the stream goes through, whose size is the one reported, with
\* a warning exactly if it is not what was asked for; and what is sent to a group comes to who has joined it
\* (SetSocketOptions, Client::Connect, Listener::Listen).
THEOREM SocketsTuned ==
    ASSUME \A t \in Tests : WellNamed(t)
    PROVE  Spec => []SocketsAsAsked
  <1>1. SocketsInv /\ [Next]_vars => SocketsInv'
    BY StepSockets
  <1>2. SocketsInv => SocketsAsAsked
    BY AllBound, AllTuned, AllJoined DEF SocketsAsAsked
  <1> QED
    BY InitSockets, <1>1, <1>2, PTL DEF Spec

-----------------------------------------------------------------------------
\* A client finds the server where the server listens.
LEMMA ServerIsThere ==
    ASSUME SocketsInv, WellNamed(test), NEW s \in Clients, sock[s].state # "none"
    PROVE  Reaches(StreamPeer(s), "server")
  <1>1. sock["server"].state = "listening"
    BY DEF SocketsInv, StartInv, Ids, Clients
  <1>2. SockOK("server", sock["server"])
    BY DEF SocketsInv, SocksInv, Ids
  <1>3. sock["server"].local = BoundName("server") /\ sock["server"].joined = Groups("server")
    BY <1>1, <1>2 DEF SockOK, Named
  <1> DEFINE asked == SockAddr_setHostname(test.host)
  <1>4. StreamPeer(s) = Name(asked, test.port)
    BY DEF StreamPeer, SockAddr_remoteAddr, mPort, Clients
  <1>5. BoundName("server") = Name(IF test.serverBind = None THEN Wildcard ELSE test.serverBind, test.port)
    BY DEF BoundName, IsSender, Clients, SockAddr_localAddr, mLocalhost, mPort
  <1>6. /\ test.serverBind \in {None, asked}
        /\ asked \in There \/ (asked = test.serverBind /\ SockAddr_isMulticast(asked))
    BY DEF WellNamed
  <1>7. BoundName("server").port = test.port /\ BoundName("server").addr \in {Wildcard, asked}
    BY <1>5, <1>6 DEF Name
  <1>8. asked \in There \cup Groups("server")
    <2>1. CASE asked \in There
      BY <2>1
    <2>2. CASE asked = test.serverBind /\ SockAddr_isMulticast(asked)
      <3>1. SockAddr_localAddr(mLocalhost("server"), mPort("server")).addr = asked
        <4>1. asked # None
          BY <2>2, NotMulticast
        <4> QED
          BY <2>2, <4>1 DEF SockAddr_localAddr, Name, mLocalhost
      <3> QED
        BY <2>2, <3>1 DEF Groups
    <2> QED
      BY <1>6, <2>1, <2>2
  <1>9. StreamPeer(s).addr = asked /\ StreamPeer(s).port = test.port
    BY <1>4 DEF Name
  <1> HIDE DEF asked
  <1> QED
    BY <1>1, <1>3, <1>7, <1>8, <1>9 DEF Reaches, OnHost

\* The speaker finds the client's listener, if it listens.
LEMMA ListenerIsThere ==
    ASSUME SocketsInv, WellNamed(test), sock["listener"].state = "listening"
    PROVE  Reaches(StreamPeer("speaker"), "listener")
  <1>1. SockOK("listener", sock["listener"])
    BY DEF SocketsInv, SocksInv, Ids
  <1>2. sock["listener"].local = BoundName("listener")
    BY <1>1 DEF SockOK, Named
  <1>3. StreamPeer("speaker") = Name(ClientAddr, WayBackPort)
    BY DEF StreamPeer, mPort
  <1>4. BoundName("listener") = Name(IF test.bind = None THEN Wildcard ELSE test.bind, WayBackPort)
    BY DEF BoundName, IsSender, Clients, SockAddr_localAddr, mLocalhost, mPort
  <1>5. test \in Tests
    BY DEF SocketsInv, SocksInv
  <1>6. ClientAddr \in Here /\ BoundName("listener").addr \in {Wildcard, ClientAddr}
    BY <1>4, <1>5, TestTyped DEF ClientAddr, Name
  <1>7. StreamPeer("speaker").addr = ClientAddr /\ StreamPeer("speaker").port = BoundName("listener").port
    BY <1>3, <1>4 DEF Name
  <1> QED
    BY <1>2, <1>6, <1>7 DEF Reaches, OnHost

\* Only the speaker comes to the listener, from the host the client asked for.
LEMMA ListenerAdmits ==
    ASSUME SocketsInv, WellNamed(test), NEW s \in Ids, sock[s].state = "connected",
           NEW t \in Ids, Reaches(sock[s].peer, t)
    PROVE  Admits(t, sock[s].local)
  <1> SUFFICES ASSUME t = "listener"
               PROVE  SockAddr_Hostare_Equal(SockAddr_remoteAddr(test.host, test.port), sock[s].local)
    BY DEF Admits
  <1>1. SockOK(s, sock[s]) /\ SockOK("listener", sock["listener"]) /\ test \in Tests
    BY DEF SocketsInv, SocksInv
  <1>2. IsSender(s) /\ sock[s].local = StreamName(s) /\ sock[s].peer = StreamPeer(s)
    BY <1>1 DEF SockOK, Named, Past
  <1>3. sock["listener"].state = "listening" /\ sock[s].peer.addr \in Here \cup sock["listener"].joined
    BY DEF Reaches, OnHost
  <1>4. sock["listener"].joined = {}
    <2>1. sock["listener"].joined = Groups("listener")
      BY <1>1, <1>3 DEF SockOK, Named
    <2>2. SockAddr_localAddr(mLocalhost("listener"), mPort("listener")).addr \in Here \cup {Wildcard}
      BY <1>1, TestTyped DEF SockAddr_localAddr, Name, mLocalhost
    <2> QED
      BY <2>1, <2>2, NotMulticast DEF Groups
  <1> DEFINE asked == SockAddr_setHostname(test.host)
  <1>5. /\ test.serverBind \in {None, asked}
        /\ asked \in There \/ SockAddr_isMulticast(asked)
        /\ test.way # "normal" => asked \in {test.serverBind, ThereDefault}
    BY DEF WellNamed
  <1>6. asked \notin Here
    BY <1>5, NotMulticast
  <1>7. s = "speaker"
    <2>1. SUFFICES ASSUME s # "speaker"
                   PROVE  FALSE
      OBVIOUS
    <2>2. sock[s].peer.addr = asked
      BY <1>2, <2>1 DEF StreamPeer, SockAddr_remoteAddr, Name
    <2> QED
      BY <1>3, <1>4, <1>6, <2>2
  <1>8. test.way # "normal"
    BY <1>3 DEF SocketsInv, StartInv
  <1>9. StreamName(s).addr = asked
    <2>1. CASE test.serverBind = None
      <3>1. asked = ThereDefault
        <4>1. asked # None
          BY <1>5, NotMulticast
        <4> QED
          BY <1>5, <1>8, <2>1, <4>1
      <3>2. StreamName(s) = Chosen(s) /\ OnHost(s) # Here
        <4>1. Here # There
          OBVIOUS
        <4> QED
          BY <1>7, <2>1, <4>1 DEF StreamName, mLocalhost, OnHost
      <3> QED
        BY <3>1, <3>2 DEF Chosen, Name
    <2>2. CASE test.serverBind # None
      <3>1. StreamName(s).addr = test.serverBind
        BY <1>7, <2>2 DEF StreamName, mLocalhost, SockAddr_localAddr, Name
      <3> QED
        BY <1>5, <2>2, <3>1
    <2> QED
      BY <2>1, <2>2
  <1> QED
    BY <1>2, <1>9 DEF SockAddr_Hostare_Equal, SockAddr_remoteAddr, Name

LEMMA NothingRefused ==
    ASSUME ListenFirst, \A t \in Tests : WellNamed(t)
    PROVE  SocketsInv /\ TestBackArrives /\ [Next]_vars => TestBackArrives'
  <1> SUFFICES ASSUME SocketsInv, TestBackArrives, [Next]_vars
               PROVE  TestBackArrives'
    OBVIOUS
  <1>1. WellNamed(test)
    BY DEF SocketsInv, SocksInv
  <1>2. CASE UNCHANGED refused
    BY <1>2 DEF TestBackArrives
  <1>3. ASSUME NEW s \in Ids, Connect(s)
        PROVE  TestBackArrives'
    <2>1. IsSender(s) /\ sock[s].state = "bound" /\ Peer(s) = StreamPeer(s)
      BY <1>1, <1>3, ConnectSock DEF Connect
    <2>2. \E t \in Ids : Reaches(Peer(s), t)
      <3>1. CASE s \in Clients
        BY <1>1, <2>1, <3>1, ServerIsThere DEF Ids
      <3>2. CASE s = "speaker"
        <4>1. test.way # "normal"
          BY <2>1, <3>2 DEF SocketsInv, StartInv
        <4>2. sock["listener"].state = "listening"
          BY <1>3, <4>1 DEF Connect
        <4> QED
          BY <1>1, <2>1, <3>2, <4>2, ListenerIsThere DEF Ids
      <3> QED
        BY <2>1, <3>1, <3>2 DEF IsSender
    <2> QED
      BY <1>3, <2>2, Zenon DEF Connect, TestBackArrives
  <1>4. ASSUME NEW s \in Ids, NEW t \in Ids, Accept(t, s)
        PROVE  TestBackArrives'
    <2>1. Admits(t, sock[s].local)
      BY <1>1, <1>4, ListenerAdmits DEF Accept
    <2> QED
      BY <1>4, <2>1, Zenon DEF Accept, TestBackArrives
  <1>5. ASSUME NEW s \in Ids, Thread(s), ~Connect(s)
        PROVE  UNCHANGED refused
    BY <1>5 DEF Thread, Create, Bind, Listen, ReportSettings, Close, LingerEnds
  <1> QED
    BY <1>2, <1>3, <1>4, <1>5 DEF Next, Idle, vars

\* For any hosts and any well-named tests: if the client's listener listens before a
\* client connects, no stream of the test and none of the test back is refused
\* (Client::Connect, Listener::Accept and its SockAddr_Hostare_Equal).
THEOREM NoneRefused ==
    ASSUME ListenFirst, \A t \in Tests : WellNamed(t)
    PROVE  Spec => []TestBackArrives
  <1>1. SocketsInv /\ [Next]_vars => SocketsInv'
    BY StepSockets
  <1>2. SocketsInv /\ TestBackArrives /\ [Next]_vars => TestBackArrives'
    BY NothingRefused
  <1>3. Init => TestBackArrives
    BY DEF Init, TestBackArrives
  <1> QED
    BY InitSockets, <1>1, <1>2, <1>3, PTL DEF Spec
=============================================================================

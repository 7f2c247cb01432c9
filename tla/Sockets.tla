------------------------------- MODULE Sockets -------------------------------
(***************************************************************************)
(* The sockets of a test and of the test back: how client, listener and    *)
(* speaker name, tune and connect them (SocketAddr.c, SetSocketOptions,    *)
(* Client::Connect, Listener::Listen).                                     *)
(*                                                                         *)
(* A client, with parallel streams or with a listener of its own for the   *)
(* test back, runs on one host and the server on another; each host may    *)
(* have several addresses.  Calls of the kernel that fail are only warned  *)
(* about: after a failed bind connect and listen choose a name themselves. *)
(* The threads of a process run in any order.  The build has no IPv6       *)
(* (config.h).  A UDP listener that hands its socket to a server opens     *)
(* another with the same name at once: here it keeps the one.              *)
(***************************************************************************)
EXTENDS Integers, Sequences, FiniteSets

CONSTANTS
    Tests,          \* the tests tried, see TestType
    Octet,          \* addresses of this host, the other and of groups: their first octet
    Here, There,    \* the addresses of the client's and the server's host
    HereDefault, ThereDefault,  \* those the kernel takes if nobody says otherwise
    Wildcard, None,
    Sizes, Default, \* sizes the kernel may give a buffer, and that of one nobody asked for
    ListenFirst     \* TRUE: the client's listener listens before any client connects

\* threads: of the client; way: "normal", "dual" or "tradeoff"; host: what -c resolves
\* to; bind, serverBind: -B or None; port: of both; listenPort: -L or None;
\* window, serverWindow: -w, mss, serverMss: -M, 0 without.
TestType == [udp : BOOLEAN, threads : 1 .. 2, way : {"normal", "dual", "tradeoff"},
             host : Seq(DOMAIN Octet), bind : {None} \cup Here, serverBind : {None} \cup DOMAIN Octet,
             port : STRING, listenPort : {None} \cup STRING,
             window : Nat, serverWindow : Nat, mss : Nat, serverMss : Nat]

ASSUME SocketsAssumption ==
    /\ HereDefault \in Here /\ ThereDefault \in There
    /\ Here \cap There = {} /\ Here \cup There \subseteq DOMAIN Octet
    /\ None # Wildcard /\ {None, Wildcard} \cap DOMAIN Octet = {}
    /\ Sizes \subseteq Nat /\ Default \in Sizes
    /\ ListenFirst \in BOOLEAN
    /\ Tests \subseteq TestType
    \* A speaker starts as many streams as the header says: one, if there is one client.
    /\ \A t \in Tests : t.way # "normal" => t.threads = 1

VARIABLES
    test,
    sock,           \* each socket: its state and names, the windows and the MSS asked for,
                    \* the windows it has, its groups and whether a TTL was set
    refused,        \* connections and streams nobody took, or that were turned away
    admitted,       \* streams that have a server, and from which peer
    settings        \* windows reported: [id, got, warned]

vars == <<test, sock, refused, admitted, settings>>

Clients == {"client1", "client2"}
Ids == Clients \cup {"listener", "server", "speaker"}
OnHost(s) == IF s \in {"server", "speaker"} THEN There ELSE Here
Name(addr, port) == [addr |-> addr, port |-> port]
NoName == Name(None, None)
Closed == [state |-> "none", local |-> NoName, peer |-> NoName,
           asked |-> [send |-> 0, receive |-> 0], window |-> [send |-> Default, receive |-> Default],
           mss |-> 0, joined |-> {}, ttl |-> FALSE]

-----------------------------------------------------------------------------
(* Addresses.                                                              *)

\* Mutant: all hosts are the same.
HostareEqualAlways(first, second) == first = first

SockAddr_Hostare_Equal(first, second) == first.addr = second.addr

\* All of 224 to 255 has the three bits of kMulticast_Mask.
SockAddr_isMulticast(addr) == addr \in DOMAIN Octet /\ Octet[addr] \div 32 = 7

\* A host's own address is not a group's.
ASSUME OwnAddressAssumption == \A addr \in Here \cup There : ~SockAddr_isMulticast(addr)

\* The first address the name has.
SockAddr_setHostname(name) == Head(name)
SockAddr_remoteAddr(name, port) == Name(SockAddr_setHostname(name), port)
SockAddr_localAddr(localhost, port) == Name(IF localhost = None THEN Wildcard ELSE localhost, port)

-----------------------------------------------------------------------------
(* What each thread's settings say.                                        *)

\* The client's header, and what its and the server's settings become.
\* Mutant: -L is not sent.
WayBackPortOwn == test.port

WayBackPort == IF test.listenPort = None THEN test.port ELSE test.listenPort
HeaderWindow == IF test.udp THEN 0 ELSE test.window

mPort(s) == IF s \in {"listener", "speaker"} THEN WayBackPort ELSE test.port

mLocalhost(s) == IF s \in {"server", "speaker"} THEN test.serverBind ELSE test.bind

mTCPWin(s) ==
    CASE s = "server" -> test.serverWindow
      [] s = "speaker" -> IF HeaderWindow # 0 THEN HeaderWindow ELSE test.serverWindow
      [] s \in Clients \cup {"listener"} -> test.window

mMSS(s) == IF s \in {"server", "speaker"} THEN test.serverMss ELSE test.mss

IsSender(s) == s \in Clients \cup {"speaker"}

\* The peer a sender has; the speaker's is where the client came from.
SpeakersPeer == CHOOSE p \in {a.from : a \in admitted} : TRUE
Peer(s) == IF s = "speaker" THEN Name(SpeakersPeer.addr, mPort(s)) ELSE SockAddr_remoteAddr(test.host, mPort(s))

\* -B or -c of a group.
isMulticast(s) ==
    SockAddr_isMulticast(IF s \in {"server", "speaker"} THEN test.serverBind ELSE SockAddr_setHostname(test.host))

-----------------------------------------------------------------------------
(* The kernel.                                                             *)

InUse(s) == sock[s].state \in {"bound", "listening", "connected", "lingering"} /\ sock[s].local # NoName
Overlap(a, b) == a = b \/ Wildcard \in {a, b}
Reuses(s) == s \in {"listener", "server"}

\* Two sockets have overlapping names only if both asked for it; of TCP, none listens.
Conflict(s, t, name) ==
    /\ OnHost(t) = OnHost(s) /\ InUse(t)
    /\ sock[t].local.port = name.port /\ Overlap(sock[t].local.addr, name.addr)
    /\ ~(Reuses(s) /\ Reuses(t) /\ (test.udp \/ sock[t].state # "listening"))

Bound(s, name) ==
    IF \E t \in Ids \ {s} : Conflict(s, t, name) THEN NoName ELSE name

\* A name of the kernel's choice: the default address and a port of the socket's own.
Chosen(s) == Name(IF OnHost(s) = Here THEN HereDefault ELSE ThereDefault, s)

\* Whether what is sent to a name comes to a socket.
Reaches(name, t) ==
    /\ sock[t].state = "listening" /\ sock[t].local.port = name.port
    /\ name.addr \in OnHost(t) \cup sock[t].joined
    /\ sock[t].local.addr \in {Wildcard, name.addr}

-----------------------------------------------------------------------------
(* Setting up.                                                             *)

\* The send or the receive buffer, by the last argument; 0 asks for nothing.
setsock_tcp_windowsize(win, inSend) ==
    [send |-> IF inSend THEN win ELSE 0, receive |-> IF inSend THEN 0 ELSE win]

\* What the kernel makes of it: it may correct a size, at once or on connect or
\* listen, or refuse it, and what setsock_tcp_windowsize returns is not looked at.
Buffer(asked) == IF asked = 0 THEN {Default} ELSE Sizes
Buffers(asked) == [send : Buffer(asked.send), receive : Buffer(asked.receive)]

\* Only of TCP; what the kernel makes of it is only warned about.
setsock_tcp_mss(inMSS) == IF test.udp THEN 0 ELSE inMSS

getsock_tcp_windowsize(s, inSend) == IF inSend THEN sock[s].window.send ELSE sock[s].window.receive

\* Mutant: every window is a send window.
SetSocketOptionsSend(s) ==
    LET asked == setsock_tcp_windowsize(mTCPWin(s), TRUE)
    IN  {[Closed EXCEPT !.state = "tuned", !.asked = asked, !.window = window,
                        !.mss = setsock_tcp_mss(mMSS(s)), !.ttl = isMulticast(s)] : window \in Buffers(asked)}

SetSocketOptions(s) ==
    LET asked == setsock_tcp_windowsize(mTCPWin(s), IsSender(s))
    IN  {[Closed EXCEPT !.state = "tuned", !.asked = asked, !.window = window,
                        !.mss = setsock_tcp_mss(mMSS(s)), !.ttl = isMulticast(s)] : window \in Buffers(asked)}

\* The server is there before the client starts.
Init ==
    /\ test \in Tests
    /\ sock = [s \in Ids |-> Closed]
    /\ refused = {} /\ admitted = {} /\ settings = {}

Starts(s) ==
    CASE s = "server" -> TRUE
      [] s = "client1" -> sock["server"].state = "listening"
      [] s = "client2" -> sock["server"].state = "listening" /\ test.threads = 2
      [] s = "listener" -> sock["server"].state = "listening" /\ test.way # "normal"
      [] s = "speaker" ->
           /\ admitted # {} /\ test.way # "normal" /\ ~isMulticast("server")
           /\ test.way = "tradeoff" => sock["client1"].state \in {"lingering", "closed"}

Create(s) ==
    /\ sock[s].state = "none" /\ Starts(s)
    /\ \E tuned \in SetSocketOptions(s) : sock' = [sock EXCEPT ![s] = tuned]
    /\ UNCHANGED <<test, refused, admitted, settings>>

Bind(s) ==
    LET name == SockAddr_localAddr(mLocalhost(s), mPort(s)) IN
    /\ sock[s].state = "tuned"
    /\ sock' = [sock EXCEPT ![s].state = "bound",
                            ![s].local = IF IsSender(s) /\ mLocalhost(s) = None THEN NoName ELSE Bound(s, name)]
    /\ UNCHANGED <<test, refused, admitted, settings>>

\* McastJoin and, of TCP, listen, which gives an unbound socket a name; an unbound
\* UDP socket has none.
Listen(s) ==
    LET local == IF sock[s].local # NoName \/ test.udp THEN sock[s].local ELSE Name(Wildcard, s)
        group == SockAddr_localAddr(mLocalhost(s), mPort(s)).addr
    IN
    /\ s \in {"listener", "server"} /\ sock[s].state = "bound"
    /\ sock' = [sock EXCEPT ![s].state = "listening", ![s].local = local,
                            ![s].joined = IF SockAddr_isMulticast(group) THEN {group} ELSE {}]
    /\ UNCHANGED <<test, refused, admitted, settings>>

\* connect, getsockname, getpeername.
Connect(s) ==
    LET local == IF sock[s].local = NoName THEN Chosen(s) ELSE sock[s].local
        heard == \E t \in Ids : Reaches(Peer(s), t)
    IN
    /\ IsSender(s) /\ sock[s].state = "bound"
    /\ ListenFirst /\ test.way # "normal" => sock["listener"].state = "listening"
    /\ sock' = [sock EXCEPT ![s].state = IF heard \/ test.udp THEN "connected" ELSE "closed",
                            ![s].local = local, ![s].peer = Peer(s)]
    /\ refused' = IF heard THEN refused ELSE refused \cup {s}
    /\ UNCHANGED <<test, admitted, settings>>

\* The settings are reported by the listener and by the first client: the window is
\* read from the buffer its socket is for, and a difference to -w is warned about.
ReportSettings(s) ==
    LET got == getsock_tcp_windowsize(s, s \notin {"listener", "server"}) IN
    /\ s \in {"listener", "server", "client1"} /\ sock[s].state \in {"listening", "connected"}
    /\ \A r \in settings : r.id # s
    /\ settings' = settings \cup {[id |-> s, got |-> got, warned |-> mTCPWin(s) # 0 /\ got # mTCPWin(s)]}
    /\ UNCHANGED <<test, sock, refused, admitted>>

-----------------------------------------------------------------------------
(* Streams.                                                                *)

\* Only the host of -c may test back.
Admits(t, from) == t = "listener" => SockAddr_Hostare_Equal(SockAddr_remoteAddr(test.host, test.port), from)

\* Accept, and what follows of Listener::Run.
Accept(t, s) ==
    /\ sock[s].state = "connected" /\ Reaches(sock[s].peer, t)
    /\ s \notin refused /\ \A a \in admitted : a.id # s
    /\ IF Admits(t, sock[s].local)
       THEN admitted' = admitted \cup {[id |-> s, at |-> t, from |-> sock[s].local]} /\ UNCHANGED refused
       ELSE refused' = refused \cup {s} /\ UNCHANGED admitted
    /\ UNCHANGED <<test, sock, settings>>

\* The stream ends.  A TCP socket that was closed first keeps its name for a while.
Close(s) ==
    /\ IsSender(s) /\ sock[s].state = "connected"
    /\ s \in refused \/ \E a \in admitted : a.id = s
    /\ s = "client1" => \E r \in settings : r.id = s
    /\ sock' = [sock EXCEPT ![s].state = IF test.udp THEN "closed" ELSE "lingering"]
    /\ UNCHANGED <<test, refused, admitted, settings>>

LingerEnds(s) ==
    /\ sock[s].state = "lingering"
    /\ sock' = [sock EXCEPT ![s].state = "closed"]
    /\ UNCHANGED <<test, refused, admitted, settings>>

Thread(s) == Create(s) \/ Bind(s) \/ Listen(s) \/ Connect(s) \/ ReportSettings(s) \/ Close(s) \/ LingerEnds(s)

Idle == UNCHANGED vars

Next == (\E s \in Ids : Thread(s)) \/ (\E s, t \in Ids : Accept(t, s)) \/ Idle

Spec == Init /\ [][Next]_vars

-----------------------------------------------------------------------------
(* Properties.                                                             *)

\* Every name a test asks for is free and is where the other side looks for it: the
\* kernel chooses other ports, the server is asked at the address it binds to, or
\* that its kernel answers from, parallel streams are not bound, and who binds to an
\* address has the test back come to another port.
WellNamed(t) ==
    /\ {t.port, t.listenPort} \cap Ids = {} /\ t.host # <<>>
    /\ LET asked == SockAddr_setHostname(t.host) IN
         /\ t.serverBind \in {None, asked}
         /\ asked \in There \/ (asked = t.serverBind /\ SockAddr_isMulticast(asked))
         /\ t.way # "normal" => asked \in {t.serverBind, ThereDefault}
    /\ t.bind # None => t.threads = 1
    /\ t.way # "normal" /\ (t.bind # None \/ t.serverBind # None) => t.listenPort \notin {None, t.port}

\* The client and its listener, the server and its speaker agree on addresses,
\* ports and hosts: no stream of a test back is refused by the kernel of the
\* client's host or by its listener, and no stream of the test by the server's.
TestBackArrives == refused = {}

\* A stream comes from the address -B asked for (Client.cpp: "bind to that address,
\* specifying which outgoing interface to use"); the window -w asks for is asked for at
\* both ends, of the buffer the stream goes through, and the test back has the client's
\* at both; the size reported is the one that buffer has, and the warning is there
\* exactly if that was asked to be another; what is sent to a group comes to those
\* that have joined it.
BoundAsAsked == \A a \in admitted : mLocalhost(a.id) # None => a.from.addr = mLocalhost(a.id)

Buffered(s) == IF IsSender(s) THEN "send" ELSE "receive"
ReportedTruly(r) ==
    LET asked == sock[r.id].asked[Buffered(r.id)]
        has == sock[r.id].window[Buffered(r.id)]
    IN  r.got = has /\ r.warned = (asked # 0 /\ has # asked)

WindowsAsAsked ==
    /\ \A a \in admitted :
         /\ sock[a.id].asked.send = mTCPWin(a.id)
         /\ sock[a.at].asked.receive = mTCPWin(a.at)
         /\ ~test.udp => sock[a.id].mss = mMSS(a.id)
         /\ a.at = "listener" /\ ~test.udp /\ test.window # 0 =>
                {sock[a.id].asked.send, sock[a.at].asked.receive} = {test.window}
    /\ \A r \in settings : ReportedTruly(r)

GroupsJoined ==
    \A a \in admitted : SockAddr_isMulticast(sock[a.id].peer.addr) =>
        sock[a.id].peer.addr \in sock[a.at].joined /\ sock[a.id].ttl

SocketsAsAsked == BoundAsAsked /\ WindowsAsAsked /\ GroupsJoined

\* SocketAddr.c: "224.0.0.0 to 239.255.255.255".
MulticastInRange == \A a \in DOMAIN Octet : SockAddr_isMulticast(a) <=> Octet[a] \in 224 .. 239
=============================================================================

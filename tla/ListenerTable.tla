---------------------------- MODULE ListenerTable ----------------------------
(***************************************************************************)
(* A listener, its servers and the table of clients they share.            *)
(*                                                                         *)
(* Listener::Run accepts a stream, admits or refuses its host, puts it in  *)
(* the table with the group of its host and starts a server for it; the    *)
(* server takes it out again.  A UDP listener "accepts" by connecting its  *)
(* only socket to the peer of a first datagram, which makes it the         *)
(* server's socket, and binding another.  With -U, UDPSingleServer does    *)
(* the work of the servers itself.                                         *)
(*                                                                         *)
(* The other side is a set of streams, each with an address of its own,    *)
(* that connect or send, ask for a test back or not, and end.              *)
(***************************************************************************)
EXTENDS Integers, Sequences, FiniteSets, SequencesExt, Functions

CONSTANTS
    Streams,        \* the client streams, that is, the peers
    Host,           \* the host of each
    Asks,           \* "normal", "dual" or "tradeoff": the header each sends
    Short,          \* streams of datagrams with no room for a header
    Modes,          \* the command lines of the listener that are tried
    MaxData,        \* datagrams with data of a UDP stream
    MaxFins,        \* closing datagrams of a UDP stream
    None

ASSUME StreamsAssumption ==
    /\ IsFiniteSet(Streams)
    /\ Short \subseteq Streams
    /\ \A c \in Streams : Asks[c] \in {"normal", "dual", "tradeoff"}

\* -U is given with -u: UDPSingleServer receives datagrams.
ASSUME ModesAssumption ==
    \A m \in Modes :
        /\ {m.udp, m.singleUDP, m.singleClient, m.compat} \subseteq BOOLEAN
        /\ m.singleUDP => m.udp

VARIABLES
    mode,           \* [udp, singleUDP, singleClient, compat, mHost, mThreads]
    stream,         \* each: "idle", "connecting", "sending", "aborted", "refused" or "ended"
    sent,           \* datagrams it has sent
    fins,           \* closing datagrams it has sent
    queue,          \* what waits at the listening socket: the backlog, or datagrams
    inbox,          \* UDP: what waits at each server's socket
    clients,        \* the table: [peer, holder], newest first
    groupID,        \* groups made so far
    lpc,            \* where the listener is
    cur,            \* the datagram (or connection) it is dealing with
    buf,            \* header in its buffer
    mClients,       \* streams still to be served
    client,         \* only the host of mSettings->peer is admitted
    peer,           \* that host
    server,         \* each stream's server: "none", "running", "acking" or "gone"
    speaker,        \* the test back started for it: "none", "now", "next" or "never"
    released        \* the process no longer waits for the listener

listening == <<lpc, cur, buf, mClients, client, peer, released>>
vars == <<mode, stream, sent, fins, queue, inbox, clients, groupID, listening, server, speaker>>

Data(c) == [peer |-> c, fin |-> FALSE]
Fin(c) == [peer |-> c, fin |-> TRUE]

\* A socket that receives from everybody is open; it has become cur's.
Open == lpc \in {"accept", "lookup"} \/ (mode.singleUDP /\ lpc # "done")
Connected == ~mode.singleUDP /\ lpc \in {"verify", "register", "header", "start"}

Entry(c, holder) == [peer |-> c, holder |-> holder]

Iperf_pushback(entry) == clients' = <<entry>> \o clients

\* Iperf_present, Iperf_hostpresent: the first entry of the peer, of its host.
SockAddr_Hostare_Equal(first, second) == Host[first] = Host[second]
OfPeer(c) == {i \in DOMAIN clients : clients[i].peer = c}
OfHost(c) == {i \in DOMAIN clients : SockAddr_Hostare_Equal(clients[i].peer, c)}
Iperf_present(c) == OfPeer(c) # {}
Iperf_hostpresent(c) == OfHost(c) # {}
HolderOf(c) == clients[Min(OfHost(c))].holder

\* Mutant: the entry of the host goes, whichever it is.
Iperf_deleteHost(c) ==
    clients' = IF Iperf_hostpresent(c) THEN RemoveAt(clients, Min(OfHost(c))) ELSE clients

Iperf_delete(c) ==
    clients' = IF Iperf_present(c) THEN RemoveAt(clients, Min(OfPeer(c))) ELSE clients

Init ==
    /\ mode \in Modes
    /\ stream = [c \in Streams |-> "idle"]
    /\ sent = [c \in Streams |-> 0] /\ fins = [c \in Streams |-> 0]
    /\ queue = <<>> /\ inbox = [c \in Streams |-> <<>>]
    /\ clients = <<>> /\ groupID = 0
    /\ lpc = "accept" /\ cur = Data(None) /\ buf = "none"
    /\ mClients = mode.mThreads
    /\ client = (mode.mHost # None) /\ peer = mode.mHost
    /\ server = [c \in Streams |-> "none"] /\ speaker = [c \in Streams |-> "none"]
    /\ released = FALSE

-----------------------------------------------------------------------------
(* Streams.                                                                *)

others == <<mode, clients, groupID, listening, server, speaker>>

\* TCP: into the backlog of the listening socket.
Connect(c) ==
    /\ ~mode.udp /\ stream[c] = "idle" /\ lpc # "done"
    /\ stream' = [stream EXCEPT ![c] = "connecting"]
    /\ queue' = Append(queue, Data(c))
    /\ UNCHANGED <<sent, fins, inbox, others>>

\* The header, or data in compatibility.
SendHeader(c) ==
    /\ ~mode.udp /\ stream[c] = "connecting"
    /\ stream' = [stream EXCEPT ![c] = "sending"]
    /\ UNCHANGED <<sent, fins, queue, inbox, others>>

Close(c) ==
    /\ ~mode.udp /\ stream[c] \in {"connecting", "sending"}
    /\ stream' = [stream EXCEPT ![c] = IF @ = "sending" THEN "ended" ELSE "aborted"]
    /\ UNCHANGED <<sent, fins, queue, inbox, others>>

\* UDP: to the socket connected to the peer, or else to one that is not connected.
Deliver(d) ==
    IF ~mode.singleUDP /\ (server[d.peer] \in {"running", "acking"} \/ (Connected /\ d.peer = cur.peer))
    THEN inbox' = [inbox EXCEPT ![d.peer] = Append(@, d)] /\ UNCHANGED queue
    ELSE queue' = (IF Open THEN Append(queue, d) ELSE queue) /\ UNCHANGED inbox

Send(c) ==
    /\ mode.udp /\ stream[c] \in {"idle", "sending"} /\ sent[c] < MaxData
    /\ sent' = [sent EXCEPT ![c] = @ + 1]
    /\ stream' = [stream EXCEPT ![c] = "sending"]
    /\ Deliver(Data(c))
    /\ UNCHANGED <<fins, others>>

\* The client stops when it is answered, or has tried often enough.
SendFin(c) ==
    /\ mode.udp /\ stream[c] = "sending"
    /\ fins' = [fins EXCEPT ![c] = @ + 1]
    /\ sent' = [sent EXCEPT ![c] = MaxData]
    /\ \E then \in {"sending", "ended"} :
          /\ fins'[c] = MaxFins => then = "ended"
          /\ stream' = [stream EXCEPT ![c] = then]
    /\ Deliver(Fin(c))
    /\ UNCHANGED others

Client(c) == Connect(c) \/ SendHeader(c) \/ Close(c) \/ Send(c) \/ SendFin(c)

-----------------------------------------------------------------------------
(* The listener.                                                           *)

remote == <<mode, stream, sent, fins>>

\* accept, or recvfrom: a datagram long enough overwrites the header in the buffer.
Accept ==
    /\ lpc = "accept" /\ ~mode.singleUDP /\ queue # <<>>
    /\ cur' = Head(queue)
    /\ queue' = Tail(queue)
    /\ buf' = IF mode.udp /\ cur'.peer \notin Short THEN Asks[cur'.peer] ELSE buf
    /\ lpc' = IF mode.udp THEN "lookup" ELSE "verify"
    /\ UNCHANGED <<remote, inbox, clients, groupID, mClients, client, peer, released, server, speaker>>

\* Under clients_mutex: the first datagram of a new peer takes the socket, with
\* all that waits there.
Lookup ==
    /\ lpc = "lookup"
    /\ IF Iperf_present(cur.peer) \/ cur.fin
       THEN lpc' = "accept" /\ UNCHANGED <<queue, inbox>>
       ELSE /\ lpc' = "verify"
            /\ inbox' = [inbox EXCEPT ![cur.peer] = queue]
            /\ queue' = <<>>
    /\ UNCHANGED <<remote, clients, groupID, cur, buf, mClients, client, peer, released, server, speaker>>

\* UDPSingleServer: a datagram of a known peer is reported, and the last of them
\* ends its report; all under clients_mutex.
Receive ==
    /\ lpc = "accept" /\ mode.singleUDP /\ queue # <<>>
    /\ cur' = Head(queue)
    /\ queue' = Tail(queue)
    /\ buf' = IF cur'.peer \notin Short THEN Asks[cur'.peer] ELSE buf
    /\ LET known == Iperf_present(cur'.peer)
           ends == known /\ cur'.fin
       IN  /\ lpc' = IF known \/ cur'.fin THEN "accept" ELSE "verify"
           /\ IF ends THEN Iperf_delete(cur'.peer) ELSE UNCHANGED clients
           /\ server' = IF ends THEN [server EXCEPT ![cur'.peer] = "gone"] ELSE server
    /\ UNCHANGED <<remote, inbox, groupID, mClients, client, peer, released, speaker>>

\* The condition of the loop; a listener that ends closes its socket.
Again(left) == IF mode.mThreads = 0 \/ left > 0 THEN "accept" ELSE "done"

Refused(backlog) ==
    [c \in Streams |-> IF ~mode.udp /\ Data(c) \in Range(backlog) THEN "refused" ELSE stream[c]]

\* Mutant: every stream resets the single client.
FirstOfSingleClientAlways == mode.singleClient

\* The table is read without the mutex.
FirstOfSingleClient == mode.singleClient /\ clients = <<>>

\* A new single client is the only one from now on; its host, or the host given
\* with -c, is compared with the stream's.  A refused UDP stream takes the
\* socket with it.
Verify ==
    LET left == IF FirstOfSingleClient THEN mClients - 1 ELSE mClients
        only == IF FirstOfSingleClient THEN Host[cur.peer] ELSE peer
        restricted == client \/ FirstOfSingleClient
    IN  /\ lpc = "verify"
        /\ released' = (released \/ (FirstOfSingleClient /\ left = 0))
        /\ mClients' = IF FirstOfSingleClient /\ left = 0 THEN 1 ELSE left
        /\ client' = restricted /\ peer' = only
        /\ IF restricted /\ only # Host[cur.peer]
           THEN /\ lpc' = Again(mClients')
                /\ stream' = Refused(IF lpc' = "done" THEN <<cur>> \o queue ELSE <<cur>>)
                /\ queue' = IF mode.udp \/ lpc' = "done" THEN <<>> ELSE queue
                /\ inbox' = [inbox EXCEPT ![cur.peer] = <<>>]
           ELSE lpc' = "register" /\ UNCHANGED <<stream, queue, inbox>>
        /\ UNCHANGED <<mode, sent, fins, clients, groupID, cur, buf, server, speaker>>

\* Mutant: the group is looked for under the peer's full address.
RegisterByPeer ==
    /\ lpc = "register"
    /\ IF Iperf_present(cur.peer) THEN Iperf_pushback(Entry(cur.peer, HolderOf(cur.peer))) /\ UNCHANGED groupID
       ELSE Iperf_pushback(Entry(cur.peer, groupID + 1)) /\ groupID' = groupID + 1
    /\ lpc' = "header"
    /\ UNCHANGED <<remote, queue, inbox, cur, buf, mClients, client, peer, released, server, speaker>>

\* Under clients_mutex: the group of the host's other streams, or a new one.
Register ==
    /\ lpc = "register"
    /\ IF Iperf_hostpresent(cur.peer) THEN Iperf_pushback(Entry(cur.peer, HolderOf(cur.peer))) /\ UNCHANGED groupID
       ELSE Iperf_pushback(Entry(cur.peer, groupID + 1)) /\ groupID' = groupID + 1
    /\ lpc' = "header"
    /\ UNCHANGED <<remote, queue, inbox, cur, buf, mClients, client, peer, released, server, speaker>>

\* Settings_GenerateClientSettings and client_init: when the test back runs.
\* Nobody starts the runNext of a server that is no thread.
SpeakerFor(header) ==
    IF mode.compat THEN "none"
    ELSE CASE header = "dual" -> "now"
           [] header = "tradeoff" -> IF mode.singleUDP THEN "never" ELSE "next"
           [] OTHER -> "none"

\* Mutant: what is in the buffer is taken for the header of a TCP client that sent none.
ReadHeaderUnread ==
    /\ lpc = "header"
    /\ ~mode.udp /\ ~mode.compat => stream[cur.peer] # "connecting"
    /\ buf' = IF mode.udp \/ mode.compat \/ stream[cur.peer] = "aborted" THEN buf ELSE Asks[cur.peer]
    /\ speaker' = [speaker EXCEPT ![cur.peer] = SpeakerFor(buf')]
    /\ lpc' = "start"
    /\ UNCHANGED <<remote, queue, inbox, clients, groupID, cur, mClients, client, peer, released, server>>

\* Mutant: recv is called until there is a whole header.
ReadHeaderWhole ==
    /\ lpc = "header"
    /\ ~mode.udp /\ ~mode.compat => stream[cur.peer] \in {"sending", "ended"}
    /\ buf' = IF mode.udp \/ mode.compat THEN buf ELSE Asks[cur.peer]
    /\ speaker' = [speaker EXCEPT ![cur.peer] = SpeakerFor(buf')]
    /\ lpc' = "start"
    /\ UNCHANGED <<remote, queue, inbox, clients, groupID, cur, mClients, client, peer, released, server>>

\* recv blocks until the TCP client has sent something or closed.
ReadHeader ==
    LET silent == ~mode.udp /\ ~mode.compat /\ stream[cur.peer] = "aborted" IN
    /\ lpc = "header"
    /\ ~mode.udp /\ ~mode.compat => stream[cur.peer] # "connecting"
    /\ buf' = IF mode.udp \/ mode.compat \/ silent THEN buf ELSE Asks[cur.peer]
    /\ speaker' = [speaker EXCEPT ![cur.peer] = IF silent THEN "none" ELSE SpeakerFor(buf')]
    /\ lpc' = "start"
    /\ UNCHANGED <<remote, queue, inbox, clients, groupID, cur, mClients, client, peer, released, server>>

\* thread_start (or, with -U, InitReport).
StartServer ==
    /\ lpc = "start"
    /\ server' = [server EXCEPT ![cur.peer] = "running"]
    /\ lpc' = "next"
    /\ UNCHANGED <<remote, queue, inbox, clients, groupID, cur, buf, mClients, client, peer, released, speaker>>

\* A new socket for UDP, and the stream is counted.
NextClient ==
    /\ lpc = "next"
    /\ mClients' = IF mode.singleClient THEN mClients ELSE mClients - 1
    /\ lpc' = Again(mClients')
    /\ stream' = IF lpc' = "done" THEN Refused(queue) ELSE stream
    /\ queue' = IF lpc' = "done" THEN <<>> ELSE queue
    /\ UNCHANGED <<mode, sent, fins, inbox, clients, groupID, cur, buf, client, peer, released, server, speaker>>

Listener ==
    \/ Accept \/ Lookup \/ Receive \/ Verify \/ Register \/ ReadHeader \/ StartServer \/ NextClient

-----------------------------------------------------------------------------
(* A server.                                                               *)

\* recv: data, the end of a TCP stream, or a closing datagram, whoever sent it.
Run(c) ==
    /\ ~mode.singleUDP /\ server[c] = "running"
    /\ IF mode.udp
       THEN /\ inbox[c] # <<>>
            /\ inbox' = [inbox EXCEPT ![c] = Tail(@)]
            /\ server' = IF Head(inbox[c]).fin THEN [server EXCEPT ![c] = "acking"] ELSE server
       ELSE /\ stream[c] \in {"ended", "aborted"}
            /\ server' = [server EXCEPT ![c] = "acking"]
            /\ UNCHANGED inbox
    /\ UNCHANGED <<remote, queue, clients, groupID, listening, speaker>>

\* The end is acknowledged; under clients_mutex the peer leaves the table.
Leave(c) ==
    /\ server[c] = "acking"
    /\ Iperf_delete(c)
    /\ server' = [server EXCEPT ![c] = "gone"]
    /\ inbox' = [inbox EXCEPT ![c] = <<>>]
    /\ UNCHANGED <<remote, queue, groupID, listening, speaker>>

Server(c) == Run(c) \/ Leave(c)

\* Nobody comes any more, or nobody is listened to.
Idle ==
    /\ \A c \in Streams : stream[c] \in {"aborted", "refused", "ended"} \/ lpc = "done"
    /\ \A c \in Streams : server[c] \in {"none", "gone"} \/ mode.singleUDP
    /\ queue = <<>> /\ lpc \in {"accept", "done"}
    /\ UNCHANGED vars

Next ==
    \/ \E c \in Streams : Client(c) \/ Server(c)
    \/ Listener \/ Idle

Spec == Init /\ [][Next]_vars

\* Threads are scheduled, and a client that is connected sends or goes away.
FairSpec == /\ Spec
            /\ WF_vars(Listener)
            /\ \A c \in Streams : WF_vars(Server(c)) /\ WF_vars(SendHeader(c) \/ Close(c) \/ SendFin(c))

-----------------------------------------------------------------------------
(* Properties.                                                             *)

Peers == {clients[i].peer : i \in DOMAIN clients}
Registered == IF lpc \in {"header", "start"} THEN {cur.peer} ELSE {}

\* The table holds every stream that is being served, once, and two streams are
\* summed in one group exactly if they are of one host, however they come and go.
TableMatchesServers ==
    /\ Peers = {c \in Streams : server[c] \in {"running", "acking"}} \cup Registered
    /\ Len(clients) = Cardinality(Peers)
    /\ \A i, j \in DOMAIN clients :
         (clients[i].holder = clients[j].holder) = (Host[clients[i].peer] = Host[clients[j].peer])

\* "-1": one client host at a time is served, although the table is looked at
\* without its mutex; "-s -c host": no other host is.
OneHostAtATime ==
    \A c, d \in Peers :
        /\ mode.singleClient => Host[c] = Host[d]
        /\ mode.mHost # None /\ ~mode.singleClient => Host[c] = mode.mHost

\* A test back is started for those who asked for one, in the way they asked;
\* unless the datagrams are too short to hold a header: then the buffer still
\* has that of another client.
SpeakerAsAsked ==
    \A c \in Streams \ Short :
        speaker[c] # "none" => ~mode.compat /\ (speaker[c] = "now") = (Asks[c] = "dual")
                                            /\ Asks[c] # "normal"

\* The one socket of -U may be closed, or left, while streams go on.
OneSocket == mode.singleUDP /\ (mode.mHost # None \/ mode.singleClient \/ mode.mThreads > 0)

\* Every server's stream ends and leaves the table, whoever else comes and goes,
\* and every TCP stream is taken out of the backlog.  (Not with -U and -P, -1 or
\* -c: Run returns with the last stream registered, and refuses a stream by
\* closing the socket the others' closing datagrams wait in.)
EveryoneServed ==
    \A c \in Streams :
        /\ server[c] = "running" /\ ~OneSocket ~> server[c] = "gone"
        /\ Data(c) \in Range(queue) ~> Data(c) \notin Range(queue)
=============================================================================

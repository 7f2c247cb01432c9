------------------------------- MODULE Options -------------------------------
(***************************************************************************)
(* The settings of a run: defaults, then the environment, then the command *)
(* line, an option at a time (Settings_Interpret); and what is made of     *)
(* them for a test in both directions: the settings of the client's own    *)
(* listener, the header that tells the server what to send back, and the   *)
(* settings the server makes of that header.                               *)
(*                                                                         *)
(* The argument of an option is a text; what the code reads from it is in  *)
(* the constants below.  Fields no other option and no property looks at   *)
(* are left as the text they were given.                                   *)
(***************************************************************************)
EXTENDS Getopt, FiniteSets, SequencesExt

CONSTANTS
    Number,         \* text |-> [num, suffix], what sscanf "%lf%c" finds in it
    Kinds,          \* text of -x |-> the kinds of reports in it
    MulticastHosts, \* pairs of a host and the domain it is multicast in
    WordSize        \* 2^31 in the code: half the range of an int and of a header field

ASSUME NumberAssumption == \A text \in DOMAIN Number : Number[text].num \in Int
ASSUME WordAssumption == WordSize \in Nat /\ WordSize > 8 * 1024

\* The option string: its letters, and those with a colon.
short_options ==
    {"1", "b", "c", "d", "f", "h", "i", "l", "m", "n", "o", "p", "r", "s", "t", "u", "v", "w", "x",
     "y", "B", "C", "D", "F", "I", "L", "M", "N", "P", "R", "S", "T", "U", "V", "W", "Z"}
required_argument ==
    {"b", "c", "f", "i", "l", "n", "o", "p", "t", "w", "x", "y",
     "B", "F", "L", "M", "P", "S", "T", "Z"}

long_options ==
    [singleclient |-> "1", bandwidth |-> "b", client |-> "c", dualtest |-> "d", format |-> "f",
     help |-> "h", interval |-> "i", len |-> "l", print_mss |-> "m", num |-> "n", output |-> "o",
     port |-> "p", tradeoff |-> "r", server |-> "s", time |-> "t", udp |-> "u", version |-> "v",
     window |-> "w", reportexclude |-> "x", reportstyle |-> "y", bind |-> "B",
     compatibility |-> "C", daemon |-> "D", file_input |-> "F", stdin_input |-> "I", mss |-> "M",
     nodelay |-> "N", listenport |-> "L", parallel |-> "P", remove |-> "R", tos |-> "S",
     ttl |-> "T", single_udp |-> "U", ipv6_domain |-> "V", suggest_win_size |-> "W"]
    @@ "linux-congestion" :> "Z"

\* Variables are read in this order: $IPERF_BANDWIDTH before $IPERF_CLIENT.
env_options ==
    <<"1", "b", "c", "d", "f", "i", "l", "m", "n", "p", "r", "s", "t", "u", "w", "x", "y",
      "B", "C", "D", "F", "I", "M", "N", "L", "P", "S", "T", "U", "V", "W", "Z">>

\* sizeof(client_hdr), sizeof(UDP_datagram)
ClientHdr == 24
Datagram == 12

kDefault_UDPRate == 1024 * 1024
kDefault_UDPBufLen == 1470

\* Settings_Initialize
Defaults ==
    [flags |-> {"MODETIME", "STDOUT"}, mThreadMode |-> "Unknown", mMode |-> "Normal",
     mHost |-> "", mLocalhost |-> "", mFileName |-> "", mOutputFileName |-> "",
     mThreads |-> 0, mBufLen |-> 8 * 1024, mUDPRate |-> 0, mAmount |-> 1000, mInterval |-> "0",
     mPort |-> "5001", mListenPort |-> "", mTCPWin |-> 0, mReportMode |-> "Default",
     mFormat |-> "a", mMSS |-> 0, mTOS |-> "0", mTTL |-> "1", mCongestion |-> ""]

isSet(s, flag) == flag \in s.flags
Set(s, flag) == [s EXCEPT !.flags = @ \cup {flag}]
Unset(s, flag) == [s EXCEPT !.flags = @ \ {flag}]

-----------------------------------------------------------------------------
(* Arguments.                                                              *)

Unit(suffix) ==
    CASE suffix = "G" -> 1024 * 1024 * 1024 [] suffix = "g" -> 1000 * 1000 * 1000
      [] suffix = "M" -> 1024 * 1024        [] suffix = "m" -> 1000 * 1000
      [] suffix = "K" -> 1024               [] suffix = "k" -> 1000
      [] OTHER -> 1

byte_atoi(n) == n.num * Unit(n.suffix)

\* The bits of a number in 32, and what an int makes of them.  Rate and amount are
\* max_size_t, the length of the buffer, the window and the segment int.
Bits(n) == n % (2 * WordSize)
AsInt(n) == IF Bits(n) < WordSize THEN Bits(n) ELSE Bits(n) - 2 * WordSize

Upper == [g |-> "G", m |-> "M", k |-> "K"]
Lower == [G |-> "g", M |-> "m", K |-> "k"]
Recased(case, n) == IF n.suffix \in DOMAIN case THEN [n EXCEPT !.suffix = case[@]] ELSE n

\* Texts without a number are left out: sscanf would leave a variable unset.
Argument(text) == IF text \in DOMAIN Number THEN Number[text] ELSE [num |-> 0, suffix |-> ""]

\* Sizes count in 1024s, rates in 1000s, however the suffix is written.
Settings_GetUpperCaseArg(text) == Recased(Upper, Argument(text))
Settings_GetLowerCaseArg(text) == Recased(Lower, Argument(text))

Domain(s) == IF isSet(s, "DOMAIN") THEN 6 ELSE 4
TestMulticast(s, host, domain) ==
    IF <<host, domain>> \in MulticastHosts THEN Set(s, "MULTICAST") ELSE s

-----------------------------------------------------------------------------
(* Settings_Interpret, one option with its argument.                       *)

\* Room in the datagram for its own header and the client's.
Roomy(s) == s.mBufLen >= Datagram + ClientHdr

\* Mutant: -b and -u overwrite a length that was given.
DefaultLengthAlways(s) == [s EXCEPT !.mBufLen = kDefault_UDPBufLen]

DefaultLength(s) == IF isSet(s, "BUFLENSET") THEN s ELSE [s EXCEPT !.mBufLen = kDefault_UDPBufLen]

Length(s, n) ==
    LET t == Set([s EXCEPT !.mBufLen = n], "BUFLENSET")
        u == IF isSet(t, "UDP") /\ n < Datagram THEN [t EXCEPT !.mBufLen = Datagram] ELSE t
    IN  IF (IF isSet(t, "UDP") THEN Roomy(u) ELSE n >= ClientHdr) THEN u ELSE Set(u, "COMPAT")

\* Mutant: a short buffer does not make -u give up the client's header.
UdpNoCompat(s) ==
    DefaultLength(IF isSet(s, "UDP") THEN s
                  ELSE Set([s EXCEPT !.mUDPRate = kDefault_UDPRate], "UDP"))

Udp(s) ==
    LET t == DefaultLength(IF isSet(s, "UDP") THEN s
                           ELSE Set([s EXCEPT !.mUDPRate = kDefault_UDPRate], "UDP"))
    IN  IF isSet(t, "BUFLENSET") /\ ~Roomy(t) THEN Set(t, "COMPAT") ELSE t

\* Only the first of -c and -s decides the mode; -c sets the number of threads.
ClientMode(s, host) ==
    LET t == [s EXCEPT !.mHost = host]
    IN  IF s.mThreadMode # "Unknown" THEN t
        ELSE [TestMulticast(t, host, Domain(s)) EXCEPT !.mThreadMode = "Client", !.mThreads = 1]

\* Options a server refuses.
ClientOptions == {"b", "d", "r", "F", "I", "L"}

ClientOption(s, option, text) ==
    CASE option = "b" -> DefaultLength(Set([s EXCEPT !.mUDPRate =
                                             byte_atoi(Settings_GetLowerCaseArg(text))], "UDP"))
      [] option = "d" -> [s EXCEPT !.mMode = "DualTest"]
      [] option = "r" -> [s EXCEPT !.mMode = "TradeOff"]
      [] option = "F" -> Set([s EXCEPT !.mFileName = text], "FILEINPUT")
      [] option = "I" -> [s EXCEPT !.mFileName = "<stdin>", !.flags = @ \cup {"FILEINPUT", "STDIN"}]
      [] option = "L" -> [s EXCEPT !.mListenPort = text]

\* Options that only set flags.
FlagOf == [m |-> "PRINTMSS", D |-> "DAEMON", N |-> "NODELAY", R |-> "REMOVESERVICE",
           U |-> "SINGLEUDP", W |-> "SUGGESTWIN"]

\* Options that only set a field to their argument.
FieldOf == [f |-> "mFormat", p |-> "mPort", S |-> "mTOS", T |-> "mTTL"]

SizeOption(s, option, n) ==
    CASE option = "l" -> Length(s, AsInt(n))
      [] option = "n" -> Unset([s EXCEPT !.mAmount = n], "MODETIME")
      [] option = "w" -> [s EXCEPT !.mTCPWin = AsInt(n)]
      [] option = "M" -> [s EXCEPT !.mMSS = AsInt(n)]

\* Compatibility takes a two-way test back; but only one that was asked for before.
Compatibility(s) == Set([s EXCEPT !.mMode = "Normal"], "COMPAT")

\* IPv6 looks at a client's host again; a server's mode is never "Server" here.
Ipv6(s) ==
    LET t == Set(s, "DOMAIN")
    IN  IF s.mThreadMode = "Client" THEN TestMulticast(t, s.mHost, 6) ELSE t

\* The parts of a report that are not wanted.
ReportKinds == {"NOSETTREPORT", "NOCONNREPORT", "NODATAREPORT", "NOSERVREPORT", "NOMULTREPORT"}
LimitReports(s, text) == [s EXCEPT !.flags = @ \cup (Kinds[text] \cap ReportKinds)]

ReportStyle(s, text) == [s EXCEPT !.mReportMode = IF text \in {"c", "C"} THEN "CSV" ELSE @]

\* In the domain of the moment: -V may come later.
BindAddress(s, text) == TestMulticast([s EXCEPT !.mLocalhost = text], text, Domain(s))

Settings_Interpret(s, option, text) ==
    CASE option \in ClientOptions ->
            IF s.mThreadMode = "Client" THEN ClientOption(s, option, text) ELSE s
      [] option \in {"l", "n", "w", "M"} ->
            SizeOption(s, option, byte_atoi(Settings_GetUpperCaseArg(text)))
      [] option \in DOMAIN FlagOf -> Set(s, FlagOf[option])
      [] option \in DOMAIN FieldOf -> [s EXCEPT ![FieldOf[option]] = text]
      [] option = "1" -> Set(s, "SINGLECLIENT")
      [] option = "c" -> ClientMode(s, text)
      [] option = "s" -> IF s.mThreadMode = "Unknown" THEN [s EXCEPT !.mThreadMode = "Listener"] ELSE s
      [] option = "u" -> Udp(s)
      [] option = "t" -> Set([s EXCEPT !.mAmount = Argument(text).num * 100], "MODETIME")
      [] option = "i" -> [s EXCEPT !.mInterval = IF Argument(text).num = 0 THEN "0.5" ELSE text]
      [] option = "o" -> Unset([s EXCEPT !.mOutputFileName = text], "STDOUT")
      [] option = "x" -> LimitReports(s, text)
      [] option = "y" -> ReportStyle(s, text)
      [] option = "B" -> BindAddress(s, text)
      [] option = "C" -> Compatibility(s)
      [] option = "P" -> [s EXCEPT !.mThreads = Argument(text).num]
      [] option = "V" -> Ipv6(s)
      [] option = "Z" -> Set([s EXCEPT !.mCongestion = text], "CONGESTION")
      [] OTHER -> s

-----------------------------------------------------------------------------
(* A test in both directions.                                              *)

WayBackPort(s) == IF s.mListenPort # "" THEN s.mListenPort ELSE s.mPort

\* Mutant: compatibility is not looked at.
GenerateListenerAlways(client) ==
    IF client.mMode = "Normal" THEN {}
    ELSE {[client EXCEPT !.flags = (@ \cup {"COMPAT"}) \ {"DAEMON"}, !.mPort = WayBackPort(client),
                         !.mFileName = "", !.mOutputFileName = "",
                         !.mMode = "Normal", !.mThreadMode = "Listener"]}

\* The client's listener for the way back, if there is to be one.
Settings_GenerateListenerSettings(client) ==
    IF isSet(client, "COMPAT") \/ client.mMode = "Normal" THEN {}
    ELSE {[client EXCEPT !.flags = (@ \cup {"COMPAT"}) \ {"DAEMON"}, !.mPort = WayBackPort(client),
                         !.mFileName = "", !.mOutputFileName = "",
                         !.mMode = "Normal", !.mThreadMode = "Listener"]}

\* Mutant: an amount of time is not told from an amount of bytes.
GenerateClientHdrUnsigned(client) ==
    [version |-> client.mMode # "Normal", runNow |-> client.mMode = "DualTest",
     bufferlen |-> IF isSet(client, "BUFLENSET") THEN Bits(client.mBufLen) ELSE 0,
     mWinBand |-> Bits(IF isSet(client, "UDP") THEN client.mUDPRate ELSE client.mTCPWin),
     mPort |-> WayBackPort(client), numThreads |-> client.mThreads,
     mAmount |-> Bits(client.mAmount)]

\* htonl keeps 32 bits of each; an amount of time is sent negative, one of bytes
\* without its top bit.
Settings_GenerateClientHdr(client) ==
    [version |-> client.mMode # "Normal", runNow |-> client.mMode = "DualTest",
     bufferlen |-> IF isSet(client, "BUFLENSET") THEN Bits(client.mBufLen) ELSE 0,
     mWinBand |-> Bits(IF isSet(client, "UDP") THEN client.mUDPRate ELSE client.mTCPWin),
     mPort |-> WayBackPort(client), numThreads |-> client.mThreads,
     mAmount |-> IF isSet(client, "MODETIME") THEN Bits(-client.mAmount)
                 ELSE client.mAmount % WordSize]

\* What the server makes of the header: a client of its own, for the way back.
Settings_GenerateClientSettings(server, hdr, peer) ==
    IF ~hdr.version THEN {}
    ELSE LET timed == hdr.mAmount >= WordSize IN
         {[server EXCEPT
            !.flags = @ \cup {"COMPAT"} \cup IF timed THEN {"MODETIME"} ELSE {},
            !.mPort = hdr.mPort, !.mThreads = hdr.numThreads,
            !.mBufLen = IF hdr.bufferlen # 0 THEN AsInt(hdr.bufferlen) ELSE @,
            !.mUDPRate = IF hdr.mWinBand # 0 /\ isSet(server, "UDP") THEN hdr.mWinBand ELSE @,
            !.mTCPWin = IF hdr.mWinBand # 0 /\ ~isSet(server, "UDP") THEN AsInt(hdr.mWinBand) ELSE @,
            !.mAmount = IF timed THEN 2 * WordSize - hdr.mAmount ELSE hdr.mAmount,
            !.mFileName = "", !.mHost = peer, !.mOutputFileName = "",
            !.mMode = IF hdr.runNow THEN "DualTest" ELSE "TradeOff", !.mThreadMode = "Client"]}

-----------------------------------------------------------------------------
(* The program, up to the start of its threads, and a server it talks to.  *)

CONSTANTS
    Inputs,         \* what is tried: a command line (elements of argv), an environment
                    \* (letters to texts), PERMUTE or (POSIXLY_CORRECT) REQUIRE_ORDER
    Servers         \* the settings of the servers tried

ASSUME ServersAssumption == \A srv \in Servers : DOMAIN srv = DOMAIN Defaults

VARIABLES
    typed,          \* the command line as typed
    env,            \* the environment
    unread,         \* the variables of it that are still to be read
    phase,          \* "env", "argv", "parsed", "started", "exit" or "done"
    s,              \* ext_gSettings
    scan,           \* argv and the static variables of the scan
    given,          \* the options interpreted, with their arguments, history
    listener,       \* settings of the client's listener, at most one
    hdr,            \* the header sent, at most one
    server,         \* the server that reads it, at most one
    speaker         \* settings of the server's client, at most one

vars == <<typed, env, unread, phase, s, scan, given, listener, hdr, server, speaker>>
started == <<listener, hdr, server, speaker>>

Text(arg) == IF arg = <<>> THEN "" ELSE Head(arg)

\* What is set of the variables, in the order of the table.
Environment(variables) ==
    LET present == SelectSeq(env_options, LAMBDA o : o \in DOMAIN variables)
    IN  [i \in DOMAIN present |-> <<present[i], <<variables[present[i]]>>>>]

Init ==
    /\ \E i \in Inputs :
          /\ typed = i.line /\ env = i.env /\ unread = Environment(i.env)
          /\ scan = _gnu_getopt_initialize(i.line, i.ordering)
    /\ phase = "env"
    /\ s = Defaults
    /\ given = <<>>
    /\ listener = {} /\ hdr = {} /\ server = {} /\ speaker = {}

Interpret(option, arg) ==
    /\ s' = Settings_Interpret(s, option, Text(arg))
    /\ given' = Append(given, <<option, arg>>)

\* A turn of the loop, for a variable that is set (-h and -v are not in the table).
Settings_ParseEnvironment ==
    /\ phase = "env"
    /\ IF unread = <<>> THEN phase' = "argv" /\ UNCHANGED <<unread, s, given>>
       ELSE /\ Interpret(Head(unread)[1], Head(unread)[2])
            /\ unread' = Tail(unread)
            /\ UNCHANGED phase
    /\ UNCHANGED <<typed, env, scan, started>>

\* A turn of the loop.
Settings_ParseCommandLine ==
    LET r == _gnu_getopt_internal(scan) IN
    /\ phase = "argv"
    /\ scan' = r.g
    /\ IF r.option = "end" THEN phase' = "parsed" /\ UNCHANGED <<s, given>>
       ELSE /\ phase' = IF r.option \in {"h", "v"} THEN "exit" ELSE "argv"
            /\ Interpret(r.option, r.arg)
    /\ UNCHANGED <<typed, env, unread, started>>

\* main and client_init; InitiateServer sends the header unless in compatibility.
Start ==
    /\ phase = "parsed"
    /\ s.mThreadMode = "Client"
    /\ listener' = Settings_GenerateListenerSettings(s)
    /\ hdr' = IF isSet(s, "COMPAT") THEN {} ELSE {Settings_GenerateClientHdr(s)}
    /\ phase' = "started"
    /\ UNCHANGED <<typed, env, unread, s, scan, given, server, speaker>>

\* The listener of a server for the same kind of stream reads the header.
ReadHeader(srv) ==
    /\ phase = "started"
    /\ isSet(srv, "UDP") = isSet(s, "UDP")
    /\ server' = {srv}
    /\ speaker' = IF srv.flags \cap {"COMPAT", "MULTICAST"} # {} THEN {}
                  ELSE UNION {Settings_GenerateClientSettings(srv, h, "peer") : h \in hdr}
    /\ phase' = "done"
    /\ UNCHANGED <<typed, env, unread, s, scan, given, listener, hdr>>

\* A usage message, a server, or a client that has been answered: no more here.
Finished ==
    /\ phase \in {"exit", "done"} \/ (phase = "parsed" /\ s.mThreadMode # "Client")
    /\ UNCHANGED vars

Next ==
    \/ Settings_ParseEnvironment \/ Settings_ParseCommandLine
    \/ Start \/ \E srv \in Servers : ReadHeader(srv)
    \/ Finished

Spec == Init /\ [][Next]_vars


-----------------------------------------------------------------------------
(* Reference: what a command line means, read from left to right.          *)

Texts(argv) == [i \in DOMAIN argv |-> argv[i].text]

\* The first letter of a cluster that takes an argument, or one past the end.
ArgumentAt(letters) ==
    CHOOSE i \in 1 .. Len(letters) + 1 :
        /\ i = Len(letters) + 1 \/ letters[i] \in WithArg
        /\ \A j \in 1 .. i - 1 : letters[j] \notin WithArg

Known(c) == IF c \in Letters THEN c ELSE "?"

\* The long names a text may stand for.
Meant(name) == IF name \in DOMAIN LongNames THEN {name}
               ELSE {n \in DOMAIN LongNames : <<name, n>> \in Begins}

\* The options one element gives, and whether the last takes the next element.
Read(e) ==
    IF e.kind = "long"
    THEN LET n == Meant(e.name)
             c == LongNames[CHOOSE m \in n : TRUE]
         IN  IF Cardinality(n) # 1 \/ (e.value # <<>> /\ c \notin WithArg)
             THEN [options |-> <<<<"?", <<>>>>>>, wants |-> FALSE]
             ELSE [options |-> <<<<c, e.value>>>>, wants |-> c \in WithArg /\ e.value = <<>>]
    ELSE LET i == ArgumentAt(e.letters)
             flags == [j \in 1 .. i - 1 |-> <<Known(e.letters[j]), <<>>>>]
             rest == SubSeq(e.letters, i + 1, Len(e.letters))
         IN  IF i > Len(e.letters) THEN [options |-> flags, wants |-> FALSE]
             ELSE [options |-> Append(flags, <<e.letters[i], rest>>), wants |-> rest = <<>>]

\* From the k-th element on: the options, and the words that are none.
Reading(argv, ordering) ==
    LET last == Len(argv)
        None == [options |-> <<>>, words |-> <<>>]
        Words(k) == [None EXCEPT !.words = Texts(SubSeq(argv, k, last))]
        Before(options, r) == [r EXCEPT !.options = options \o @]
        read[k \in Nat] ==
            IF k > last THEN None
            ELSE IF argv[k].kind = "word" /\ ordering = "PERMUTE"
                 THEN [read[k + 1] EXCEPT !.words = <<argv[k].text>> \o @]
            ELSE IF argv[k].kind = "word" THEN Words(k)
            ELSE IF argv[k].kind = "dashes" THEN Words(k + 1)
            ELSE LET e == Read(argv[k])
                     n == Len(e.options)
                 IN  IF ~e.wants THEN Before(e.options, read[k + 1])
                     ELSE IF k = last THEN Before([e.options EXCEPT ![n] = <<"?", <<>>>>], None)
                     ELSE Before([e.options EXCEPT ![n][2] = <<argv[k + 1].text>>], read[k + 2])
    IN  read[1]

-----------------------------------------------------------------------------
(* Properties.                                                             *)

Read1 == phase \notin {"env", "argv", "exit"}

\* Whatever is skipped and exchanged on the way (gnu_getopt.c, exchange), the
\* options come out as they stand on the command line, each with its own
\* argument, and the words are left behind them in their order.
GetoptAgrees ==
    Read1 => LET r == Reading(typed, scan.ordering)
             IN  /\ given = Environment(env) \o r.options
                 /\ Texts(SubSeq(scan.argv, scan.optind, Len(scan.argv))) = r.words

Size(o) == AsInt(byte_atoi(Settings_GetUpperCaseArg(Text(o[2]))))

Times(letter) == Cardinality({i \in DOMAIN given : given[i][1] = letter})

\* Pairs of options of which the later sees what the earlier has set; and
\* compatibility that one -l implied stays when another takes its length back.
OrderMatters(o, p) ==
    LET both == {o[1], p[1]}
        short(limit) == \E q \in {o, p} : q[1] = "l" /\ Size(q) < limit
    IN  \/ o[1] = p[1]
        \/ both \in {{"c", q} : q \in ClientOptions \cup {"s", "P", "V"}}
        \/ both \in {{"d", "r"}, {"d", "C"}, {"r", "C"}, {"n", "t"}, {"F", "I"}, {"B", "V"}}
        \/ both = {"l", "u"} /\ (short(Datagram) \/ Times("l") > 1)
        \/ both = {"l", "b"} /\ short(Datagram + ClientHdr)

\* Other options than those may change places when they stand side by side:
\* "if -l has already been processed don't overwrite that value" and the like
\* (Settings.cpp, Settings_Interpret) make the order indifferent.
OrderIndifferent ==
    LET Next1(t, o) == Settings_Interpret(t, o[1], Text(o[2]))
        Interpreted(options) == FoldLeft(Next1, Defaults, options)
    IN  Read1 => \A i \in 1 .. Len(given) - 1 :
                OrderMatters(given[i], given[i + 1])
                    \/ Interpreted([given EXCEPT ![i] = given[i + 1], ![i + 1] = given[i]]) = s

\* A client that sends the header has room for it in its buffer, unless a
\* small -l came before a -b, which alone of the options that choose UDP does
\* not look at the length.
HeaderFits ==
    hdr # {} /\ ~(\E i, j \in DOMAIN given : i < j /\ given[i][1] = "l" /\ given[j][1] = "b")
        => s.mBufLen >= ClientHdr + IF isSet(s, "UDP") THEN Datagram ELSE 0

\* There is a listener for the way back exactly if the header asks for one, and
\* the server's client comes to that listener's port, with its kind of stream.
TwoWayAgreed ==
    phase \in {"started", "done"} =>
        /\ (listener # {}) = \E h \in hdr : h.version
        /\ \A c \in speaker : \E l \in listener :
              c.mPort = l.mPort /\ isSet(c, "UDP") = isSet(l, "UDP")

\* The test back is the test there: with its rate, if that fits the header.
SameTest(c) ==
    /\ c.mMode = s.mMode /\ c.mThreads = s.mThreads
    /\ isSet(c, "MODETIME") = isSet(s, "MODETIME") /\ c.mAmount = s.mAmount
    /\ isSet(s, "BUFLENSET") => c.mBufLen = s.mBufLen
    /\ isSet(s, "UDP") /\ s.mUDPRate \in 1 .. 2 * WordSize - 1 => c.mUDPRate = s.mUDPRate
    /\ ~isSet(s, "UDP") /\ s.mTCPWin # 0 => c.mTCPWin = s.mTCPWin

\* A test that is limited by time returns with the parameters it was started
\* with, through a header of 32-bit fields that holds a time as a negative amount;
\* of a rate that takes more bits something else returns (RateReturns).
TimedTestReturns ==
    isSet(s, "MODETIME") /\ s.mAmount \in 1 .. WordSize => \A c \in speaker : SameTest(c)

\* "This should be an inverse operation of GenerateClientHdr" (Settings.cpp:746)
\* for amounts the header has room for.
HeaderInverse == s.mAmount \in 1 .. WordSize - 1 => \A c \in speaker : SameTest(c)

\* The same of any rate.
RateReturns == isSet(s, "UDP") /\ s.mUDPRate # 0 => \A c \in speaker : c.mUDPRate = s.mUDPRate
=============================================================================

---------------------------- MODULE Options_proofs ----------------------------
(***************************************************************************)
(* Proofs about Options, for any command line, environment and contents of *)
(* arguments, and any settings of the server: what the options do to the   *)
(* length of the buffer leaves room for the header that is sent, and what  *)
(* is made of the header is the test that was asked for.                   *)
(***************************************************************************)
EXTENDS Options, SequenceTheorems, TLAPS

\* A -l among the options, and one with a -b behind it.
LengthGiven == \E i \in DOMAIN given : given[i][1] = "l"
LengthThenRate == \E i, j \in DOMAIN given : i < j /\ given[i][1] = "l" /\ given[j][1] = "b"

IsSettings(t) == DOMAIN t = DOMAIN Defaults
Ints == -WordSize .. WordSize - 1

\* What the length of the buffer is worth, when a length was given (or not) and
\* a rate behind it: a header that is sent has its room, but for that case.  Length
\* and window are ints.
RoomInv(t, length, rate) ==
    /\ t.mBufLen \in Ints /\ t.mTCPWin \in Ints
    /\ isSet(t, "BUFLENSET") => length
    /\ ~isSet(t, "COMPAT") =>
          /\ t.mBufLen >= ClientHdr \/ Roomy(t)
          /\ isSet(t, "UDP") => Roomy(t) \/ rate
          /\ ~isSet(t, "UDP") => t.mBufLen >= ClientHdr

Modes == {"Normal", "DualTest", "TradeOff"}

OptionsInv ==
    /\ given \in Seq(Range(given))
    /\ IsSettings(s)
    /\ s.mMode \in Modes
    /\ RoomInv(s, LengthGiven, LengthThenRate)

\* The header is made of the settings, and the server's client of the header.
HeaderInv ==
    /\ phase \notin {"started", "done"} => listener = {} /\ hdr = {}
    /\ phase \in {"started", "done"} =>
          /\ listener = Settings_GenerateListenerSettings(s)
          /\ hdr = IF isSet(s, "COMPAT") THEN {} ELSE {Settings_GenerateClientHdr(s)}
    /\ phase # "done" => speaker = {}
    /\ phase = "done" =>
          \A c \in speaker : \E srv \in Servers :
              /\ isSet(srv, "UDP") = isSet(s, "UDP")
              /\ \E h \in hdr : c \in Settings_GenerateClientSettings(srv, h, "peer")

-----------------------------------------------------------------------------
(* One option.                                                             *)

\* What is read of an argument is a number, and an int holds what it is given.
LEMMA SizesAreInts ==
    ASSUME NEW text
    PROVE  /\ byte_atoi(Settings_GetUpperCaseArg(text)) \in Int
           /\ AsInt(byte_atoi(Settings_GetUpperCaseArg(text))) \in Ints
  <1> DEFINE n == Argument(text)
             u == Settings_GetUpperCaseArg(text)
  <1>1. n.num \in Int
    BY NumberAssumption DEF Argument
  <1>2. u.num = n.num
    <2>1. CASE n.suffix \in DOMAIN Upper
      <3>1. u = [n EXCEPT !.suffix = Upper[@]]
        BY <2>1 DEF Settings_GetUpperCaseArg, Recased
      <3> QED
        BY <3>1
    <2>2. CASE n.suffix \notin DOMAIN Upper
      BY <2>2 DEF Settings_GetUpperCaseArg, Recased
    <2> QED
      BY <2>1, <2>2
  <1> HIDE DEF n, u
  <1>3. Unit(u.suffix) \in Int
    BY DEF Unit
  <1>4. byte_atoi(u) \in Int
    BY <1>1, <1>2, <1>3 DEF byte_atoi
  <1>5. ASSUME NEW i \in Int PROVE AsInt(i) \in Ints
    BY WordAssumption DEF AsInt, Bits, Ints
  <1> QED
    BY <1>4, <1>5 DEF u

\* The header's fields have room for an int.
LEMMA IntComesBack ==
    ASSUME NEW i \in Ints
    PROVE  AsInt(Bits(i)) = i /\ (i # 0 => Bits(i) # 0)
  <1>1. CASE i >= 0
    <2>1. Bits(i) = i
      BY <1>1, WordAssumption DEF Bits, Ints
    <2> QED
      BY <1>1, <2>1, WordAssumption DEF AsInt, Ints
  <1>2. CASE i < 0
    <2>1. Bits(i) = i + 2 * WordSize
      BY <1>2, WordAssumption DEF Bits, Ints
    <2>2. Bits(i + 2 * WordSize) = i + 2 * WordSize
      BY <1>2, WordAssumption DEF Bits, Ints
    <2> QED
      BY <1>2, <2>1, <2>2, WordAssumption DEF AsInt, Ints
  <1> QED
    BY <1>1, <1>2 DEF Ints

\* What RoomInv is about is left as it was.
SameRoom(t, u) ==
    /\ u.mBufLen = t.mBufLen /\ u.mTCPWin = t.mTCPWin
    /\ \A f \in {"UDP", "COMPAT", "BUFLENSET"} : isSet(u, f) <=> isSet(t, f)

LEMMA SameRoomKeeps ==
    ASSUME NEW t, NEW u, NEW length, NEW rate, SameRoom(t, u), RoomInv(t, length, rate)
    PROVE  RoomInv(u, length, rate)
  BY DEF SameRoom, RoomInv, Roomy

LEMMA DefaultLengthRoomy ==
    ASSUME NEW t, IsSettings(t)
    PROVE  LET u == DefaultLength(t) IN
           /\ IsSettings(u) /\ u.mMode = t.mMode /\ u.flags = t.flags /\ u.mTCPWin = t.mTCPWin
           /\ isSet(t, "BUFLENSET") => u.mBufLen = t.mBufLen
           /\ ~isSet(t, "BUFLENSET") => Roomy(u) /\ u.mBufLen >= ClientHdr /\ u.mBufLen \in Ints
  <1>1. CASE isSet(t, "BUFLENSET")
    BY <1>1 DEF DefaultLength
  <1>2. CASE ~isSet(t, "BUFLENSET")
    <2>1. DefaultLength(t) = [t EXCEPT !.mBufLen = kDefault_UDPBufLen]
      BY <1>2 DEF DefaultLength
    <2> QED
      BY <1>2, <2>1, WordAssumption DEF IsSettings, Defaults, Roomy, kDefault_UDPBufLen, Datagram, ClientHdr, Ints
  <1> QED
    BY <1>1, <1>2

\* -b: the length is not looked at, so a short one stays.
LEMMA RateKeeps ==
    ASSUME NEW t, IsSettings(t), NEW length, NEW rate, RoomInv(t, length, rate), NEW n
    PROVE  LET u == DefaultLength(Set([t EXCEPT !.mUDPRate = n], "UDP")) IN
           IsSettings(u) /\ u.mMode = t.mMode /\ RoomInv(u, length, rate \/ length)
  <1> DEFINE v == Set([t EXCEPT !.mUDPRate = n], "UDP")
             u == DefaultLength(v)
  <1>1. IsSettings(v) /\ v.mMode = t.mMode /\ v.mBufLen = t.mBufLen /\ v.flags = t.flags \cup {"UDP"}
       /\ v.mTCPWin = t.mTCPWin
    BY DEF Set, IsSettings, Defaults
  <1>2. /\ IsSettings(u) /\ u.mMode = v.mMode /\ u.flags = v.flags /\ u.mTCPWin = v.mTCPWin
        /\ isSet(v, "BUFLENSET") => u.mBufLen = v.mBufLen
        /\ ~isSet(v, "BUFLENSET") => Roomy(u) /\ u.mBufLen >= ClientHdr /\ u.mBufLen \in Ints
    BY <1>1, DefaultLengthRoomy
  <1> HIDE DEF u, v
  <1>3. RoomInv(u, length, rate \/ length)
    BY <1>1, <1>2 DEF RoomInv, isSet, Roomy
  <1> QED
    BY <1>1, <1>2, <1>3 DEF u, v

\* -u gives the header up when a length that was given is too short.
LEMMA UdpKeeps ==
    ASSUME NEW t, IsSettings(t), NEW length, NEW rate, RoomInv(t, length, rate)
    PROVE  IsSettings(Udp(t)) /\ Udp(t).mMode = t.mMode /\ RoomInv(Udp(t), length, rate)
  <1> DEFINE v == IF isSet(t, "UDP") THEN t ELSE Set([t EXCEPT !.mUDPRate = kDefault_UDPRate], "UDP")
             u == DefaultLength(v)
  <1>1. IsSettings(v) /\ v.mMode = t.mMode /\ v.mBufLen = t.mBufLen /\ v.flags = t.flags \cup {"UDP"}
       /\ v.mTCPWin = t.mTCPWin
    BY DEF Set, isSet, IsSettings, Defaults
  <1>2. /\ IsSettings(u) /\ u.mMode = v.mMode /\ u.flags = v.flags /\ u.mTCPWin = v.mTCPWin
        /\ isSet(v, "BUFLENSET") => u.mBufLen = v.mBufLen
        /\ ~isSet(v, "BUFLENSET") => Roomy(u) /\ u.mBufLen >= ClientHdr /\ u.mBufLen \in Ints
    BY <1>1, DefaultLengthRoomy
  <1>3. Udp(t) = IF isSet(u, "BUFLENSET") /\ ~Roomy(u) THEN Set(u, "COMPAT") ELSE u
    BY DEF Udp
  <1> HIDE DEF u, v
  <1>4. CASE isSet(u, "BUFLENSET") /\ ~Roomy(u)
    <2>1. Udp(t) = Set(u, "COMPAT")
      BY <1>3, <1>4
    <2> QED
      BY <1>1, <1>2, <2>1 DEF RoomInv, Set, isSet, IsSettings, Defaults
  <1>5. CASE ~(isSet(u, "BUFLENSET") /\ ~Roomy(u))
    <2>1. Udp(t) = u
      BY <1>3, <1>5
    <2> QED
      BY <1>1, <1>2, <1>5, <2>1 DEF RoomInv, Roomy, isSet
  <1> QED
    BY <1>4, <1>5

\* -l gives the header up when there is no room for it.
LEMMA LengthKeeps ==
    ASSUME NEW t, IsSettings(t), t.mTCPWin \in Ints, NEW n \in Ints, NEW rate
    PROVE  LET u == Length(t, n) IN
           IsSettings(u) /\ u.mMode = t.mMode /\ RoomInv(u, TRUE, rate)
  <1> DEFINE v == Set([t EXCEPT !.mBufLen = n], "BUFLENSET")
             u == IF isSet(v, "UDP") /\ n < Datagram THEN [v EXCEPT !.mBufLen = Datagram] ELSE v
             fits == IF isSet(v, "UDP") THEN Roomy(u) ELSE n >= ClientHdr
  <1>1. IsSettings(v) /\ v.mMode = t.mMode /\ v.mBufLen = n /\ v.mTCPWin = t.mTCPWin
    BY DEF Set, IsSettings, Defaults
  <1>2. IsSettings(u) /\ u.mMode = t.mMode /\ u.flags = v.flags /\ (~isSet(v, "UDP") => u.mBufLen = n)
       /\ u.mTCPWin = t.mTCPWin /\ u.mBufLen \in Ints
    BY <1>1, WordAssumption DEF IsSettings, Defaults, Datagram, Ints
  <1>3. Length(t, n) = IF fits THEN u ELSE Set(u, "COMPAT")
    BY DEF Length
  <1> HIDE DEF u, v
  <1>4. CASE fits
    BY <1>1, <1>2, <1>3, <1>4 DEF RoomInv, Roomy, isSet
  <1>5. CASE ~fits
    BY <1>1, <1>2, <1>3, <1>5 DEF RoomInv, Set, isSet, IsSettings, Defaults
  <1> QED
    BY <1>4, <1>5

\* Settings that RoomInv does not tell from t.
Quiet(t, v) == IsSettings(v) /\ v.mMode \in Modes /\ SameRoom(t, v)

LEMMA SetQuiet ==
    ASSUME NEW t, NEW v, Quiet(t, v), NEW flag, flag \notin {"UDP", "COMPAT", "BUFLENSET"}
    PROVE  Quiet(t, Set(v, flag)) /\ Quiet(t, Unset(v, flag))
  BY DEF Quiet, Set, Unset, SameRoom, isSet, IsSettings, Defaults

LEMMA FieldQuiet ==
    ASSUME NEW t, NEW v, Quiet(t, v), NEW field, field \notin {"flags", "mMode", "mBufLen", "mTCPWin"}, NEW x
    PROVE  Quiet(t, [v EXCEPT ![field] = x])
  BY DEF Quiet, SameRoom, isSet, IsSettings, Defaults

LEMMA MulticastQuiet ==
    ASSUME NEW t, NEW v, Quiet(t, v), NEW host, NEW domain
    PROVE  Quiet(t, TestMulticast(v, host, domain))
  BY SetQuiet DEF TestMulticast

\* The options of a client, but for the rate.
LEMMA ClientOptionQuiet ==
    ASSUME NEW t, IsSettings(t), t.mMode \in Modes, NEW option, NEW text,
           option \in ClientOptions \ {"b"}
    PROVE  Quiet(t, Settings_Interpret(t, option, text))
  <1> DEFINE u == ClientOption(t, option, text)
  <1>1. Settings_Interpret(t, option, text) = IF t.mThreadMode = "Client" THEN u ELSE t
    BY DEF Settings_Interpret, ClientOptions, FlagOf, FieldOf
  <1>2. Quiet(t, t)
    BY DEF Quiet, SameRoom
  <1>3. CASE option = "d"
    <2>1. u = [t EXCEPT !.mMode = "DualTest"]
      BY <1>3 DEF ClientOption
    <2>2. Quiet(t, [t EXCEPT !.mMode = "DualTest"])
      BY DEF Quiet, IsSettings, SameRoom, isSet, Modes, Defaults
    <2> QED
      BY <1>1, <1>2, <2>1, <2>2
  <1>4. CASE option = "r"
    <2>1. u = [t EXCEPT !.mMode = "TradeOff"]
      BY <1>4 DEF ClientOption
    <2>2. Quiet(t, [t EXCEPT !.mMode = "TradeOff"])
      BY DEF Quiet, IsSettings, SameRoom, isSet, Modes, Defaults
    <2> QED
      BY <1>1, <1>2, <2>1, <2>2
  <1>5. CASE option = "F"
    <2>1. u = Set([t EXCEPT !.mFileName = text], "FILEINPUT")
      BY <1>5 DEF ClientOption
    <2>2. Quiet(t, [t EXCEPT !.mFileName = text])
      BY <1>2, FieldQuiet
    <2> HIDE DEF u
    <2>3. Quiet(t, u)
      BY <2>1, <2>2, SetQuiet
    <2> QED
      BY <1>1, <1>2, <2>3
  <1>6. CASE option = "I"
    <2> DEFINE v == [t EXCEPT !.mFileName = "<stdin>", !.flags = @ \cup {"FILEINPUT", "STDIN"}]
    <2>1. u = v
      BY <1>6 DEF ClientOption
    <2>2. IsSettings(v) /\ v.mMode = t.mMode /\ v.mBufLen = t.mBufLen /\ v.mTCPWin = t.mTCPWin
      BY DEF IsSettings, Defaults
    <2>3. v.flags = t.flags \cup {"FILEINPUT", "STDIN"}
      BY DEF IsSettings, Defaults
    <2> HIDE DEF u, v
    <2>4. Quiet(t, u)
      BY <2>1, <2>2, <2>3 DEF Quiet, SameRoom, isSet
    <2> QED
      BY <1>1, <1>2, <2>4
  <1>7. CASE option = "L"
    <2>1. u = [t EXCEPT !.mListenPort = text]
      BY <1>7 DEF ClientOption
    <2>2. Quiet(t, u)
      BY <1>2, <2>1, FieldQuiet
    <2> QED
      BY <1>1, <1>2, <2>2
  <1> QED
    BY <1>3, <1>4, <1>5, <1>6, <1>7, <1>1, <1>2 DEF ClientOptions

\* The options that only set a flag or a field.
LEMMA PlainQuiet ==
    ASSUME NEW t, IsSettings(t), t.mMode \in Modes, NEW option, NEW text,
           option \in DOMAIN FlagOf \cup DOMAIN FieldOf
    PROVE  Quiet(t, Settings_Interpret(t, option, text))
  <1>1. Quiet(t, t)
    BY DEF Quiet, SameRoom
  <1>2. CASE option \in DOMAIN FlagOf
    <2>1. Settings_Interpret(t, option, text) = Set(t, FlagOf[option])
      BY <1>2 DEF Settings_Interpret, ClientOptions, FlagOf, FieldOf
    <2>2. FlagOf[option] \notin {"UDP", "COMPAT", "BUFLENSET"}
      BY <1>2 DEF FlagOf
    <2> QED
      BY <1>1, <2>1, <2>2, SetQuiet
  <1>3. CASE option \in DOMAIN FieldOf
    <2>1. Settings_Interpret(t, option, text) = [t EXCEPT ![FieldOf[option]] = text]
      BY <1>3 DEF Settings_Interpret, ClientOptions, FlagOf, FieldOf
    <2>2. PICK field : field = FieldOf[option] /\ field \notin {"flags", "mMode", "mBufLen", "mTCPWin"}
      BY <1>3 DEF FieldOf
    <2>3. Quiet(t, [t EXCEPT ![field] = text])
      BY <1>1, <2>2, FieldQuiet
    <2> QED
      BY <2>1, <2>2, <2>3
  <1> QED
    BY <1>2, <1>3

\* The amounts and the segment size.
LEMMA SizeQuiet ==
    ASSUME NEW t, IsSettings(t), t.mMode \in Modes, NEW option, NEW text,
           option \in {"n", "M", "t"}
    PROVE  Quiet(t, Settings_Interpret(t, option, text))
  <1> DEFINE n == byte_atoi(Settings_GetUpperCaseArg(text))
  <1>1. Quiet(t, t)
    BY DEF Quiet, SameRoom
  <1>2. option # "t" => Settings_Interpret(t, option, text) = SizeOption(t, option, n)
    BY DEF Settings_Interpret, ClientOptions, FlagOf, FieldOf
  <1>3. CASE option = "n"
    <2>1. Settings_Interpret(t, option, text) = Unset([t EXCEPT !.mAmount = n], "MODETIME")
      BY <1>2, <1>3 DEF SizeOption
    <2> QED
      BY <1>1, <2>1, FieldQuiet, SetQuiet
  <1>5. CASE option = "M"
    <2>1. Settings_Interpret(t, option, text) = [t EXCEPT !.mMSS = AsInt(n)]
      BY <1>2, <1>5 DEF SizeOption
    <2> QED
      BY <1>1, <2>1, FieldQuiet
  <1>6. CASE option = "t"
    <2>1. PICK x : Settings_Interpret(t, option, text) = Set([t EXCEPT !.mAmount = x], "MODETIME")
      BY <1>6 DEF Settings_Interpret, ClientOptions, FlagOf, FieldOf
    <2> QED
      BY <1>1, <2>1, FieldQuiet, SetQuiet
  <1> QED
    BY <1>3, <1>5, <1>6

\* The client's host, the address to bind to and the domain.
LEMMA AddressQuiet ==
    ASSUME NEW t, IsSettings(t), t.mMode \in Modes, NEW option, NEW text,
           option \in {"c", "B", "V", "s"}
    PROVE  Quiet(t, Settings_Interpret(t, option, text))
  <1>1. Quiet(t, t)
    BY DEF Quiet, SameRoom
  <1>2. CASE option = "c"
    <2> DEFINE v == [t EXCEPT !.mHost = text]
               w == TestMulticast(v, text, Domain(t))
    <2>1. Settings_Interpret(t, option, text) = ClientMode(t, text)
      BY <1>2 DEF Settings_Interpret, ClientOptions, FlagOf, FieldOf
    <2>2. Quiet(t, v)
      BY <1>1, FieldQuiet
    <2>3. Quiet(t, w)
      BY <2>2, MulticastQuiet
    <2>4. ClientMode(t, text) =
            IF t.mThreadMode # "Unknown" THEN v ELSE [w EXCEPT !.mThreadMode = "Client", !.mThreads = 1]
      BY DEF ClientMode
    <2> HIDE DEF v, w
    <2>5. Quiet(t, [w EXCEPT !.mThreadMode = "Client", !.mThreads = 1])
      BY <2>3 DEF Quiet, SameRoom, isSet, IsSettings, Defaults
    <2> QED
      BY <2>1, <2>2, <2>4, <2>5
  <1>3. CASE option = "B"
    <2>1. Settings_Interpret(t, option, text) = TestMulticast([t EXCEPT !.mLocalhost = text], text, Domain(t))
      BY <1>3 DEF Settings_Interpret, ClientOptions, FlagOf, FieldOf, BindAddress
    <2>2. Quiet(t, [t EXCEPT !.mLocalhost = text])
      BY <1>1, FieldQuiet
    <2> QED
      BY <2>1, <2>2, MulticastQuiet
  <1>4. CASE option = "V"
    <2>1. Settings_Interpret(t, option, text) = Ipv6(t)
      BY <1>4 DEF Settings_Interpret, ClientOptions, FlagOf, FieldOf
    <2>2. Quiet(t, Set(t, "DOMAIN"))
      BY <1>1, SetQuiet
    <2> QED
      BY <2>1, <2>2, MulticastQuiet DEF Ipv6
  <1>5. CASE option = "s"
    <2>1. Settings_Interpret(t, option, text) =
            IF t.mThreadMode = "Unknown" THEN [t EXCEPT !.mThreadMode = "Listener"] ELSE t
      BY <1>5 DEF Settings_Interpret, ClientOptions, FlagOf, FieldOf
    <2> QED
      BY <1>1, <2>1, FieldQuiet
  <1> QED
    BY <1>2, <1>3, <1>4, <1>5

\* What is reported, and the rest.
LEMMA ReportQuiet ==
    ASSUME NEW t, IsSettings(t), t.mMode \in Modes, NEW option, NEW text,
           option \in {"1", "i", "o", "x", "y", "P", "Z"}
    PROVE  Quiet(t, Settings_Interpret(t, option, text))
  <1>1. Quiet(t, t)
    BY DEF Quiet, SameRoom
  <1>2. CASE option = "1"
    <2>1. Settings_Interpret(t, option, text) = Set(t, "SINGLECLIENT")
      BY <1>2 DEF Settings_Interpret, ClientOptions, FlagOf, FieldOf
    <2> QED
      BY <1>1, <2>1, SetQuiet
  <1>3. CASE option = "i"
    <2>1. PICK x : Settings_Interpret(t, option, text) = [t EXCEPT !.mInterval = x]
      BY <1>3 DEF Settings_Interpret, ClientOptions, FlagOf, FieldOf
    <2> QED
      BY <1>1, <2>1, FieldQuiet
  <1>4. CASE option = "o"
    <2>1. Settings_Interpret(t, option, text) = Unset([t EXCEPT !.mOutputFileName = text], "STDOUT")
      BY <1>4 DEF Settings_Interpret, ClientOptions, FlagOf, FieldOf
    <2> QED
      BY <1>1, <2>1, FieldQuiet, SetQuiet
  <1>5. CASE option = "x"
    <2>1. Settings_Interpret(t, option, text) = LimitReports(t, text)
      BY <1>5 DEF Settings_Interpret, ClientOptions, FlagOf, FieldOf
    <2> QED
      BY <2>1 DEF LimitReports, ReportKinds, Quiet, SameRoom, isSet, IsSettings, Defaults
  <1>6. CASE option = "y"
    <2>1. PICK x : Settings_Interpret(t, option, text) = [t EXCEPT !.mReportMode = x]
      BY <1>6 DEF Settings_Interpret, ClientOptions, FlagOf, FieldOf, ReportStyle
    <2>2. Quiet(t, [t EXCEPT !.mReportMode = x])
      BY <1>1, FieldQuiet
    <2> QED
      BY <2>1, <2>2
  <1>7. CASE option = "P"
    <2>1. PICK x : Settings_Interpret(t, option, text) = [t EXCEPT !.mThreads = x]
      BY <1>7 DEF Settings_Interpret, ClientOptions, FlagOf, FieldOf
    <2> QED
      BY <1>1, <2>1, FieldQuiet
  <1>8. CASE option = "Z"
    <2>1. Settings_Interpret(t, option, text) = Set([t EXCEPT !.mCongestion = text], "CONGESTION")
      BY <1>8 DEF Settings_Interpret, ClientOptions, FlagOf, FieldOf
    <2> QED
      BY <1>1, <2>1, FieldQuiet, SetQuiet
  <1> QED
    BY <1>2, <1>3, <1>4, <1>5, <1>6, <1>7, <1>8

\* The options RoomInv looks at are five.
LEMMA OthersQuiet ==
    ASSUME NEW t, IsSettings(t), t.mMode \in Modes,
           NEW option, option \notin {"b", "l", "u", "w", "C"}, NEW text
    PROVE  Quiet(t, Settings_Interpret(t, option, text))
  <1> DEFINE Named == ClientOptions \cup DOMAIN FlagOf \cup DOMAIN FieldOf \cup {"n", "M", "t"}
                      \cup {"c", "B", "V", "s"} \cup {"1", "i", "o", "x", "y", "P", "Z"}
  <1>1. CASE option \in Named \ {"b"}
    BY <1>1, ClientOptionQuiet, PlainQuiet, SizeQuiet, AddressQuiet, ReportQuiet
  <1>2. CASE option \notin Named \cup {"w"}
    <2>1. Settings_Interpret(t, option, text) = t
      BY <1>2 DEF Settings_Interpret, ClientOptions, FlagOf, FieldOf
    <2> QED
      BY <2>1 DEF Quiet, SameRoom
  <1> QED
    BY <1>1, <1>2

\* What an option makes of RoomInv, by its letter alone.
LEMMA InterpretKeeps ==
    ASSUME NEW t, IsSettings(t), t.mMode \in Modes,
           NEW length \in BOOLEAN, NEW rate \in BOOLEAN, RoomInv(t, length, rate),
           NEW option, NEW text
    PROVE  LET u == Settings_Interpret(t, option, text) IN
           /\ IsSettings(u) /\ u.mMode \in Modes
           /\ RoomInv(u, length \/ option = "l", rate \/ (length /\ option = "b"))
  <1> DEFINE Kept(v) == /\ IsSettings(v) /\ v.mMode \in Modes
                        /\ RoomInv(v, length \/ option = "l", rate \/ (length /\ option = "b"))
  <1>1. CASE option = "b"
    <2>1. Settings_Interpret(t, option, text) =
            IF t.mThreadMode = "Client" THEN ClientOption(t, option, text) ELSE t
      BY <1>1 DEF Settings_Interpret, ClientOptions, FlagOf, FieldOf
    <2>2. PICK n : ClientOption(t, option, text) = DefaultLength(Set([t EXCEPT !.mUDPRate = n], "UDP"))
      BY <1>1 DEF ClientOption
    <2> DEFINE u == DefaultLength(Set([t EXCEPT !.mUDPRate = n], "UDP"))
    <2>3. IsSettings(u) /\ u.mMode = t.mMode /\ RoomInv(u, length, rate \/ length)
      BY RateKeeps
    <2> HIDE DEF u
    <2>4. Kept(u) /\ Kept(t)
      BY <1>1, <2>3 DEF RoomInv
    <2> QED
      BY <2>1, <2>2, <2>4 DEF u
  <1>2. CASE option = "l"
    <2>1. PICK n : n = AsInt(byte_atoi(Settings_GetUpperCaseArg(text))) /\ Settings_Interpret(t, option, text) = Length(t, n)
      BY <1>2 DEF Settings_Interpret, ClientOptions, FlagOf, FieldOf, SizeOption
    <2>2. n \in Ints /\ t.mTCPWin \in Ints
      BY <2>1, SizesAreInts DEF RoomInv
    <2>3. IsSettings(Length(t, n)) /\ Length(t, n).mMode = t.mMode /\ RoomInv(Length(t, n), TRUE, rate)
      BY <2>2, LengthKeeps
    <2> QED
      BY <1>2, <2>1, <2>3
  <1>3. CASE option = "u"
    <2>1. Settings_Interpret(t, option, text) = Udp(t)
      BY <1>3 DEF Settings_Interpret, ClientOptions, FlagOf, FieldOf
    <2>2. IsSettings(Udp(t)) /\ Udp(t).mMode = t.mMode /\ RoomInv(Udp(t), length, rate)
      BY UdpKeeps
    <2> QED
      BY <1>3, <2>1, <2>2
  <1>4. CASE option = "C"
    <2> DEFINE u == Compatibility(t)
    <2>1. Settings_Interpret(t, option, text) = u
      BY <1>4 DEF Settings_Interpret, ClientOptions, FlagOf, FieldOf
    <2>2. IsSettings(u) /\ u.mMode = "Normal" /\ u.mBufLen = t.mBufLen /\ u.mTCPWin = t.mTCPWin
      BY DEF Compatibility, Set, IsSettings, Defaults
    <2>3. u.flags = t.flags \cup {"COMPAT"}
      BY DEF Compatibility, Set, IsSettings, Defaults
    <2> HIDE DEF u
    <2>4. RoomInv(u, length, rate)
      BY <2>2, <2>3 DEF RoomInv, isSet
    <2> QED
      BY <1>4, <2>1, <2>2, <2>4 DEF Modes
  <1>6. CASE option = "w"
    <2> DEFINE n == AsInt(byte_atoi(Settings_GetUpperCaseArg(text)))
               u == [t EXCEPT !.mTCPWin = n]
    <2>1. Settings_Interpret(t, option, text) = u
      BY <1>6 DEF Settings_Interpret, ClientOptions, FlagOf, FieldOf, SizeOption
    <2>2. n \in Ints
      BY SizesAreInts
    <2> HIDE DEF n
    <2>3. /\ IsSettings(u) /\ u.mMode = t.mMode /\ u.mBufLen = t.mBufLen
          /\ u.mTCPWin = n /\ u.flags = t.flags
      BY DEF IsSettings, Defaults
    <2> HIDE DEF u
    <2>4. RoomInv(u, length, rate)
      BY <2>2, <2>3 DEF RoomInv, Roomy, isSet
    <2> QED
      BY <1>6, <2>1, <2>3, <2>4
  <1>5. CASE option \notin {"b", "l", "u", "w", "C"}
    <2>1. Quiet(t, Settings_Interpret(t, option, text))
      BY <1>5, OthersQuiet
    <2> QED
      BY <1>5, <2>1, SameRoomKeeps DEF Quiet
  <1> QED
    BY <1>1, <1>2, <1>3, <1>4, <1>5, <1>6

-----------------------------------------------------------------------------
(* The invariants.                                                         *)

LEMMA InitOptions == Init => OptionsInv /\ HeaderInv
  <1> SUFFICES ASSUME Init PROVE OptionsInv /\ HeaderInv
    OBVIOUS
  <1>1. given = <<>> /\ s = Defaults /\ phase = "env" /\ listener = {} /\ hdr = {} /\ speaker = {}
    BY DEF Init
  <1>2. given \in Seq(Range(given))
    BY <1>1
  <1>3. RoomInv(s, LengthGiven, LengthThenRate)
    <2>1. /\ Defaults.flags = {"MODETIME", "STDOUT"} /\ Defaults.mBufLen >= ClientHdr
          /\ Defaults.mBufLen \in Ints /\ Defaults.mTCPWin \in Ints
      BY WordAssumption DEF Defaults, ClientHdr, Ints
    <2> QED
      BY <1>1, <2>1 DEF RoomInv, isSet
  <1>4. IsSettings(s) /\ s.mMode \in Modes
    BY <1>1 DEF IsSettings, Modes, Defaults
  <1> QED
    BY <1>1, <1>2, <1>3, <1>4 DEF OptionsInv, HeaderInv

\* Where an option appended leaves the -l and -b that were there.
LEMMA Appended ==
    ASSUME given \in Seq(Range(given)), NEW option, NEW arg,
           given' = Append(given, <<option, arg>>)
    PROVE  /\ given' \in Seq(Range(given'))
           /\ LengthGiven \/ option = "l" => LengthGiven'
           /\ LengthThenRate \/ (LengthGiven /\ option = "b") => LengthThenRate'
  <1> DEFINE o == <<option, arg>>
             n == Len(given)
  <1>1. n \in Nat /\ DOMAIN given = 1 .. n
    OBVIOUS
  <1>2. given' \in Seq(Range(given) \cup {o})
    OBVIOUS
  <1>3. /\ DOMAIN given' = 1 .. n + 1
        /\ given'[n + 1] = o
        /\ \A i \in 1 .. n : given'[i] = given[i]
    OBVIOUS
  <1>4. o[1] = option
    OBVIOUS
  <1> HIDE DEF n, o
  <1>5. given' \in Seq(Range(given'))
    <2>1. Len(given') \in Nat /\ DOMAIN given' = 1 .. Len(given')
      BY <1>2
    <2>2. given' = [i \in 1 .. Len(given') |-> given'[i]]
      BY <1>2
    <2>3. \A i \in 1 .. Len(given') : given'[i] \in Range(given')
      BY <2>1 DEF Range
    <2>4. given' \in [1 .. Len(given') -> Range(given')]
      BY <2>2, <2>3
    <2>5. \A S, q : (\E m \in Nat : q \in [1 .. m -> S]) => q \in Seq(S)
      BY SeqDef
    <2> QED
      BY <2>1, <2>4, <2>5
  <1>6. ASSUME LengthGiven PROVE LengthGiven'
    <2>1. PICK i \in 1 .. n : given[i][1] = "l"
      BY <1>1, <1>6 DEF LengthGiven
    <2>2. i \in DOMAIN given' /\ given'[i][1] = "l"
      BY <1>1, <1>3, <2>1
    <2> QED
      BY <2>2 DEF LengthGiven
  <1>7. ASSUME option = "l" PROVE LengthGiven'
    <2>1. n + 1 \in DOMAIN given' /\ given'[n + 1][1] = "l"
      BY <1>1, <1>3, <1>4, <1>7
    <2> QED
      BY <2>1 DEF LengthGiven
  <1>8. ASSUME LengthThenRate PROVE LengthThenRate'
    <2>1. PICK i, j \in 1 .. n : i < j /\ given[i][1] = "l" /\ given[j][1] = "b"
      BY <1>1, <1>8 DEF LengthThenRate
    <2>2. i \in DOMAIN given' /\ j \in DOMAIN given' /\ given'[i][1] = "l" /\ given'[j][1] = "b"
      BY <1>1, <1>3, <2>1
    <2> QED
      BY <2>1, <2>2 DEF LengthThenRate
  <1>9. ASSUME LengthGiven, option = "b" PROVE LengthThenRate'
    <2>1. PICK i \in 1 .. n : given[i][1] = "l"
      BY <1>1, <1>9 DEF LengthGiven
    <2>2. /\ i \in DOMAIN given' /\ n + 1 \in DOMAIN given' /\ i < n + 1
          /\ given'[i][1] = "l" /\ given'[n + 1][1] = "b"
      BY <1>1, <1>3, <1>4, <1>9, <2>1
    <2> QED
      BY <2>2 DEF LengthThenRate
  <1> QED
    BY <1>5, <1>6, <1>7, <1>8, <1>9

\* A turn of either loop.
LEMMA TurnKeeps ==
    ASSUME OptionsInv, NEW option, NEW arg, Interpret(option, arg)
    PROVE  OptionsInv'
  <1>1. s' = Settings_Interpret(s, option, Text(arg)) /\ given' = Append(given, <<option, arg>>)
    BY DEF Interpret
  <1>2. LengthGiven \in BOOLEAN /\ LengthThenRate \in BOOLEAN
    BY DEF LengthGiven, LengthThenRate
  <1>3. /\ IsSettings(s') /\ s'.mMode \in Modes
        /\ RoomInv(s', LengthGiven \/ option = "l", LengthThenRate \/ (LengthGiven /\ option = "b"))
    BY <1>1, <1>2, InterpretKeeps DEF OptionsInv
  <1>4. /\ given' \in Seq(Range(given'))
        /\ LengthGiven \/ option = "l" => LengthGiven'
        /\ LengthThenRate \/ (LengthGiven /\ option = "b") => LengthThenRate'
    BY <1>1, Appended DEF OptionsInv
  <1>5. RoomInv(s', LengthGiven', LengthThenRate')
    BY <1>3, <1>4 DEF RoomInv
  <1> QED
    BY <1>3, <1>4, <1>5 DEF OptionsInv

LEMMA OptionsUnchanged ==
    ASSUME OptionsInv, UNCHANGED <<s, given>>
    PROVE  OptionsInv'
  BY DEF OptionsInv, LengthGiven, LengthThenRate

LEMMA StepOptions == OptionsInv /\ [Next]_vars => OptionsInv'
  <1> SUFFICES ASSUME OptionsInv, [Next]_vars PROVE OptionsInv'
    OBVIOUS
  <1>1. CASE Settings_ParseEnvironment
    <2>1. CASE unread = <<>>
      BY <1>1, <2>1, OptionsUnchanged DEF Settings_ParseEnvironment
    <2>2. CASE unread # <<>>
      BY <1>1, <2>2, TurnKeeps DEF Settings_ParseEnvironment
    <2> QED
      BY <2>1, <2>2
  <1>2. CASE Settings_ParseCommandLine
    <2> DEFINE r == _gnu_getopt_internal(scan)
    <2>1. CASE r.option = "end"
      BY <1>2, <2>1, OptionsUnchanged DEF Settings_ParseCommandLine
    <2>2. CASE r.option # "end"
      <3>1. Interpret(r.option, r.arg)
        BY <1>2, <2>2 DEF Settings_ParseCommandLine
      <3> QED
        BY <3>1, TurnKeeps
    <2> QED
      BY <2>1, <2>2
  <1>3. CASE Start
    BY <1>3, OptionsUnchanged DEF Start
  <1>4. ASSUME NEW srv \in Servers, ReadHeader(srv)
        PROVE  OptionsInv'
    BY <1>4, OptionsUnchanged DEF ReadHeader
  <1>5. CASE Finished \/ UNCHANGED vars
    BY <1>5, OptionsUnchanged DEF Finished, vars
  <1> QED
    BY <1>1, <1>2, <1>3, <1>4, <1>5 DEF Next

LEMMA StepHeader == HeaderInv /\ [Next]_vars => HeaderInv'
  <1> SUFFICES ASSUME HeaderInv, [Next]_vars PROVE HeaderInv'
    OBVIOUS
  <1>1. CASE Settings_ParseEnvironment \/ Settings_ParseCommandLine
    <2>1. phase \in {"env", "argv"} /\ phase' \in {"env", "argv", "parsed", "exit"}
      BY <1>1 DEF Settings_ParseEnvironment, Settings_ParseCommandLine
    <2>2. UNCHANGED <<listener, hdr, speaker>>
      BY <1>1 DEF Settings_ParseEnvironment, Settings_ParseCommandLine, started
    <2> QED
      BY <2>1, <2>2 DEF HeaderInv
  <1>2. CASE Start
    <2>1. phase = "parsed" /\ phase' = "started" /\ UNCHANGED <<s, speaker>>
      BY <1>2 DEF Start
    <2>2. /\ listener' = Settings_GenerateListenerSettings(s')
          /\ hdr' = IF isSet(s', "COMPAT") THEN {} ELSE {Settings_GenerateClientHdr(s')}
      BY <1>2, <2>1 DEF Start
    <2> QED
      BY <2>1, <2>2 DEF HeaderInv
  <1>3. ASSUME NEW srv \in Servers, ReadHeader(srv)
        PROVE  HeaderInv'
    <2>1. phase = "started" /\ phase' = "done" /\ UNCHANGED <<s, listener, hdr>>
      BY <1>3 DEF ReadHeader
    <2>2. isSet(srv, "UDP") = isSet(s', "UDP")
      BY <1>3, <2>1 DEF ReadHeader
    <2>3. speaker' \subseteq UNION {Settings_GenerateClientSettings(srv, h, "peer") : h \in hdr'}
      BY <1>3, <2>1 DEF ReadHeader
    <2>4. /\ listener' = Settings_GenerateListenerSettings(s')
          /\ hdr' = IF isSet(s', "COMPAT") THEN {} ELSE {Settings_GenerateClientHdr(s')}
      BY <2>1 DEF HeaderInv
    <2> QED
      BY <2>1, <2>2, <2>3, <2>4 DEF HeaderInv
  <1>4. CASE Finished \/ UNCHANGED vars
    BY <1>4 DEF Finished, vars, HeaderInv
  <1> QED
    BY <1>1, <1>2, <1>3, <1>4 DEF Next

\* What the server makes of a header.
LEMMA ClientOfHeader ==
    ASSUME NEW srv \in Servers, NEW h, NEW c \in Settings_GenerateClientSettings(srv, h, "peer")
    PROVE  /\ h.version
           /\ c.mPort = h.mPort /\ c.mThreads = h.numThreads
           /\ c.mMode = IF h.runNow THEN "DualTest" ELSE "TradeOff"
           /\ isSet(c, "UDP") = isSet(srv, "UDP")
           /\ h.mAmount >= WordSize => isSet(c, "MODETIME") /\ c.mAmount = 2 * WordSize - h.mAmount
           /\ h.bufferlen # 0 => c.mBufLen = AsInt(h.bufferlen)
           /\ h.mWinBand # 0 /\ isSet(srv, "UDP") => c.mUDPRate = h.mWinBand
           /\ h.mWinBand # 0 /\ ~isSet(srv, "UDP") => c.mTCPWin = AsInt(h.mWinBand)
  <1> DEFINE timed == h.mAmount >= WordSize
             d == [srv EXCEPT
                     !.flags = @ \cup {"COMPAT"} \cup IF timed THEN {"MODETIME"} ELSE {},
                     !.mPort = h.mPort, !.mThreads = h.numThreads,
                     !.mBufLen = IF h.bufferlen # 0 THEN AsInt(h.bufferlen) ELSE @,
                     !.mUDPRate = IF h.mWinBand # 0 /\ isSet(srv, "UDP") THEN h.mWinBand ELSE @,
                     !.mTCPWin = IF h.mWinBand # 0 /\ ~isSet(srv, "UDP") THEN AsInt(h.mWinBand) ELSE @,
                     !.mAmount = IF timed THEN 2 * WordSize - h.mAmount ELSE h.mAmount,
                     !.mFileName = "", !.mHost = "peer", !.mOutputFileName = "",
                     !.mMode = IF h.runNow THEN "DualTest" ELSE "TradeOff", !.mThreadMode = "Client"]
  <1>1. h.version /\ c = d
    BY DEF Settings_GenerateClientSettings
  <1>2. DOMAIN srv = DOMAIN Defaults
    BY ServersAssumption
  <1>3. d.mPort = h.mPort /\ d.mThreads = h.numThreads
    BY <1>2 DEF Defaults
  <1>4. d.mMode = IF h.runNow THEN "DualTest" ELSE "TradeOff"
    BY <1>2 DEF Defaults
  <1>5. d.flags = srv.flags \cup {"COMPAT"} \cup IF timed THEN {"MODETIME"} ELSE {}
    BY <1>2 DEF Defaults
  <1>6. timed => d.mAmount = 2 * WordSize - h.mAmount
    BY <1>2 DEF Defaults
  <1>7. h.bufferlen # 0 => d.mBufLen = AsInt(h.bufferlen)
    BY <1>2 DEF Defaults
  <1>8. h.mWinBand # 0 /\ isSet(srv, "UDP") => d.mUDPRate = h.mWinBand
    BY <1>2 DEF Defaults
  <1>9. h.mWinBand # 0 /\ ~isSet(srv, "UDP") => d.mTCPWin = AsInt(h.mWinBand)
    BY <1>2 DEF Defaults
  <1> HIDE DEF d
  <1>10. isSet(d, "UDP") = isSet(srv, "UDP") /\ (timed => isSet(d, "MODETIME"))
    BY <1>5 DEF isSet
  <1> QED
    BY <1>1, <1>3, <1>4, <1>6, <1>7, <1>8, <1>9, <1>10

-----------------------------------------------------------------------------
(* The theorems.                                                           *)

\* Whatever options are given in whatever order, a client that sends the header
\* has room for it, unless a short length came before a rate (Settings_Interpret).
THEOREM HeaderRoom == Spec => []HeaderFits
  <1>1. ASSUME OptionsInv, HeaderInv, hdr # {}, ~LengthThenRate
        PROVE  s.mBufLen >= ClientHdr + IF isSet(s, "UDP") THEN Datagram ELSE 0
    <2>1. ~isSet(s, "COMPAT")
      BY <1>1 DEF HeaderInv
    <2>2. CASE isSet(s, "UDP")
      BY <1>1, <2>1, <2>2 DEF OptionsInv, RoomInv, Roomy, ClientHdr, Datagram
    <2>3. CASE ~isSet(s, "UDP")
      BY <1>1, <2>1, <2>3 DEF OptionsInv, RoomInv, ClientHdr
    <2> QED
      BY <2>2, <2>3
  <1>2. OptionsInv /\ HeaderInv => HeaderFits
    BY <1>1 DEF HeaderFits, LengthThenRate
  <1> QED
    BY <1>2, InitOptions, StepOptions, StepHeader, PTL DEF Spec

\* The client listens for a test back exactly if the header asks for one, and the
\* server's client, made of the header, comes to its port with its kind of stream
\* (Settings_GenerateClientHdr, Settings_GenerateListenerSettings,
\* Settings_GenerateClientSettings).
THEOREM WaysAgree == Spec => []TwoWayAgreed
  <1>1. ASSUME OptionsInv, HeaderInv, phase \in {"started", "done"}
        PROVE  (listener # {}) = \E h \in hdr : h.version
    <2>1. CASE isSet(s, "COMPAT")
      <3>1. listener = {} /\ hdr = {}
        BY <1>1, <2>1 DEF HeaderInv, Settings_GenerateListenerSettings
      <3> QED
        BY <3>1
    <2>2. CASE ~isSet(s, "COMPAT")
      <3>1. hdr = {Settings_GenerateClientHdr(s)}
        BY <1>1, <2>2 DEF HeaderInv
      <3>2. Settings_GenerateClientHdr(s).version = (s.mMode # "Normal")
        BY DEF Settings_GenerateClientHdr
      <3>3. (listener # {}) = (s.mMode # "Normal")
        BY <1>1, <2>2 DEF HeaderInv, Settings_GenerateListenerSettings
      <3> QED
        BY <3>1, <3>2, <3>3
    <2> QED
      BY <2>1, <2>2
  <1>2. ASSUME OptionsInv, HeaderInv, NEW c \in speaker
        PROVE  \E l \in listener : c.mPort = l.mPort /\ isSet(c, "UDP") = isSet(l, "UDP")
    <2> DEFINE l == [s EXCEPT !.flags = (@ \cup {"COMPAT"}) \ {"DAEMON"}, !.mPort = WayBackPort(s),
                              !.mFileName = "", !.mOutputFileName = "",
                              !.mMode = "Normal", !.mThreadMode = "Listener"]
    <2>1. phase = "done"
      BY <1>2 DEF HeaderInv
    <2>2. PICK srv \in Servers, h \in hdr :
            isSet(srv, "UDP") = isSet(s, "UDP") /\ c \in Settings_GenerateClientSettings(srv, h, "peer")
      BY <1>2, <2>1 DEF HeaderInv
    <2>3. ~isSet(s, "COMPAT") /\ h = Settings_GenerateClientHdr(s)
      BY <1>2, <2>1, <2>2 DEF HeaderInv
    <2>4. h.mPort = WayBackPort(s) /\ h.version = (s.mMode # "Normal")
      BY <2>3 DEF Settings_GenerateClientHdr
    <2>5. h.version /\ c.mPort = h.mPort /\ isSet(c, "UDP") = isSet(srv, "UDP")
      BY <2>2, ClientOfHeader
    <2>6. listener = {l}
      BY <1>2, <2>1, <2>3, <2>4, <2>5 DEF HeaderInv, Settings_GenerateListenerSettings
    <2>7. l.mPort = WayBackPort(s) /\ isSet(l, "UDP") = isSet(s, "UDP")
      BY <1>2 DEF OptionsInv, IsSettings, Defaults, isSet
    <2> HIDE DEF l
    <2> QED
      BY <2>2, <2>4, <2>5, <2>6, <2>7
  <1>3. OptionsInv /\ HeaderInv => TwoWayAgreed
    BY <1>1, <1>2 DEF TwoWayAgreed
  <1> QED
    BY <1>3, InitOptions, StepOptions, StepHeader, PTL DEF Spec

\* A time in the header is the word less the time: the server finds it again.
LEMMA NegativeAmount ==
    ASSUME NEW a \in 1 .. WordSize
    PROVE  Bits(-a) = 2 * WordSize - a
  BY WordAssumption DEF Bits

\* A test limited by time comes back as it was sent, whatever the server's own
\* settings are (Settings_GenerateClientHdr, Settings_GenerateClientSettings).
THEOREM TimedTestComesBack == Spec => []TimedTestReturns
  <1>1. ASSUME OptionsInv, HeaderInv, isSet(s, "MODETIME"), s.mAmount \in 1 .. WordSize,
               NEW c \in speaker
        PROVE  SameTest(c)
    <2>1. phase = "done"
      BY <1>1 DEF HeaderInv
    <2>2. PICK srv \in Servers, h \in hdr :
            isSet(srv, "UDP") = isSet(s, "UDP") /\ c \in Settings_GenerateClientSettings(srv, h, "peer")
      BY <1>1, <2>1 DEF HeaderInv
    <2>3. ~isSet(s, "COMPAT") /\ h = Settings_GenerateClientHdr(s)
      BY <1>1, <2>1, <2>2 DEF HeaderInv
    <2>4. /\ h.version = (s.mMode # "Normal") /\ h.runNow = (s.mMode = "DualTest")
          /\ h.bufferlen = IF isSet(s, "BUFLENSET") THEN Bits(s.mBufLen) ELSE 0
          /\ h.mWinBand = Bits(IF isSet(s, "UDP") THEN s.mUDPRate ELSE s.mTCPWin)
          /\ h.numThreads = s.mThreads
          /\ h.mAmount = Bits(-s.mAmount)
      BY <1>1, <2>3 DEF Settings_GenerateClientHdr
    <2>5. h.mAmount = 2 * WordSize - s.mAmount
      BY <1>1, <2>4, NegativeAmount
    <2>6. h.mAmount >= WordSize /\ 2 * WordSize - h.mAmount = s.mAmount
      BY <1>1, <2>5, WordAssumption
    <2>7. /\ h.version
          /\ c.mMode = IF h.runNow THEN "DualTest" ELSE "TradeOff"
          /\ c.mThreads = h.numThreads
          /\ isSet(c, "MODETIME") /\ c.mAmount = 2 * WordSize - h.mAmount
          /\ h.bufferlen # 0 => c.mBufLen = AsInt(h.bufferlen)
          /\ h.mWinBand # 0 /\ isSet(srv, "UDP") => c.mUDPRate = h.mWinBand
          /\ h.mWinBand # 0 /\ ~isSet(srv, "UDP") => c.mTCPWin = AsInt(h.mWinBand)
      BY <2>2, <2>6, ClientOfHeader
    <2>8. c.mMode = s.mMode
      BY <1>1, <2>4, <2>7 DEF OptionsInv, Modes
    <2>9. s.mBufLen # 0 /\ s.mBufLen \in Ints /\ s.mTCPWin \in Ints
      BY <1>1, <2>3 DEF OptionsInv, RoomInv, Roomy, ClientHdr, Datagram
    <2>10. isSet(s, "BUFLENSET") => c.mBufLen = s.mBufLen
      BY <2>4, <2>7, <2>9, IntComesBack
    <2>11. ASSUME isSet(s, "UDP"), s.mUDPRate \in 1 .. 2 * WordSize - 1 PROVE c.mUDPRate = s.mUDPRate
      <3>1. Bits(s.mUDPRate) = s.mUDPRate
        BY <2>11, WordAssumption DEF Bits
      <3> QED
        BY <2>2, <2>4, <2>7, <2>11, <3>1
    <2>12. ~isSet(s, "UDP") /\ s.mTCPWin # 0 => c.mTCPWin = s.mTCPWin
      BY <2>2, <2>4, <2>7, <2>9, IntComesBack
    <2> QED
      BY <1>1, <2>4, <2>6, <2>7, <2>8, <2>10, <2>11, <2>12 DEF SameTest
  <1>2. OptionsInv /\ HeaderInv => TimedTestReturns
    BY <1>1 DEF TimedTestReturns
  <1> QED
    BY <1>2, InitOptions, StepOptions, StepHeader, PTL DEF Spec
=============================================================================

------------------------------ MODULE MCOptions ------------------------------
(* Command lines for Options: all short sequences of one family of elements  *)
(* for the scan, and of one for the options that look at each other.  A word  *)
(* has 30 bits: 2g is more than one of them holds, 900M more than its int.    *)
EXTENDS Options

MCBegins == {<<n, n>> : n \in DOMAIN long_options}
            \cup {<<"sing", "single_udp">>, <<"sing", "singleclient">>, <<"ser", "server">>,
                  <<"out", "output">>}

N(n, suffix) == [num |-> n, suffix |-> suffix]
MCNumber == [ten |-> N(10, ""), k30 |-> N(30, "K"), k |-> N(2, "k"), M1 |-> N(1, "M"), m1 |-> N(1, "m"),
             g1 |-> N(1, "G"), n0 |-> N(0, ""), n8 |-> N(8, ""), n20 |-> N(20, ""), n30 |-> N(30, ""),
             n40 |-> N(40, ""), g2 |-> N(2, "g"), M900 |-> N(900, "M"), two |-> N(2, "")]
MCKinds == [scd |-> {"NOSETTREPORT", "NOCONNREPORT", "NODATAREPORT"}, vm |-> {"NOSERVREPORT", "NOMULTREPORT"}]
MCMulticastHosts == {<<"m4", 4>>, <<"m6", 6>>}

\* Elements.
A(text, letter, arg) == Short(text, <<letter, arg>>)
Flag(letter) == Short(letter, <<letter>>)

ScanElements == {
    Word("host"), Word("ten"), Dashes, Short("-o", <<"o">>), Short("-Noten", <<"N", "o", "ten">>),
    Short("-q", <<"q">>), LongEq("--out=ten", "out", "ten"), Long("--output", "output"), Long("--sing", "sing"),
    Long("--ser", "ser"), LongEq("--nodelay=ten", "nodelay", "ten")}

\* Options that look at, or are looked at by, others; and some that are not.
Asked == {A("-c4", "c", "m4"), A("-c6", "c", "m6"), A("-ch", "c", "host"),
          A("-b", "b", "M1"), A("-l8", "l", "n8"), A("-l20", "l", "n20"), A("-l30", "l", "n30"), A("-l40", "l", "n40"),
          A("-n", "n", "k30"), A("-t", "t", "ten"), A("-P", "P", "two"), A("-p", "p", "7001"), A("-L", "L", "6001"),
          A("-w", "w", "k"), A("-F", "F", "file"), A("-B4", "B", "m4"), A("-B6", "B", "m6"),
          Flag("u"), Flag("d"), Flag("r"), Flag("C"), Flag("V"), Flag("s"), Flag("I")}
Others == {Flag(f) : f \in {"1", "m", "D", "N", "R", "U", "W", "h", "v"}} \cup
          {A("-f", "f", "k"), A("-i", "i", "n0"), A("-i", "i", "ten"), A("-o", "o", "file"), A("-x", "x", "scd"),
           A("-x", "x", "vm"), A("-y", "y", "c"), A("-y", "y", "z"), A("-M", "M", "ten"), A("-S", "S", "n8"),
           A("-T", "T", "two"), A("-Z", "Z", "reno")}
Client == A("-ch", "c", "host")
Way == {Flag("u"), Flag("d"), Flag("r"), Flag("C"), A("-b", "b", "M1"), A("-l30", "l", "n30"), A("-l40", "l", "n40"),
        A("-n", "n", "k30"), A("-n", "n", "g1"), A("-t", "t", "m1"), A("-L", "L", "6001"), A("-P", "P", "two"),
        A("-b", "b", "g2"), A("-l", "l", "M900"), A("-w", "w", "M900"), A("-w", "w", "k30")}

UpTo(n, S) == UNION {[1 .. k -> S] : k \in 0 .. n}
NoEnv == [x \in {} |-> ""]
Plain(lines) == [line : lines, env : {NoEnv}, ordering : {"PERMUTE"}]

MCInputs ==
    [line : UpTo(4, ScanElements), env : {NoEnv}, ordering : {"PERMUTE", "REQUIRE_ORDER"}]
    \cup Plain(UpTo(3, Asked))
    \cup Plain(UpTo(2, Asked \cup Others))
    \cup Plain({<<Client>> \o l : l \in UpTo(3, Way)})
    \cup [line : UpTo(1, Asked), env : {[b |-> "M1", c |-> "host", d |-> ""], [u |-> "", l |-> "n30"],
                                        [s |-> "", P |-> "two", w |-> "k30"]},
          ordering : {"PERMUTE"}]

Tcp == [Defaults EXCEPT !.mThreadMode = "Server"]
MCServers == {Tcp, [Tcp EXCEPT !.mBufLen = 4096, !.mTCPWin = 5000, !.flags = @ \cup {"BUFLENSET"}],
              [Tcp EXCEPT !.flags = @ \ {"MODETIME"}, !.mAmount = 77],
              Set(Tcp, "COMPAT"), Set(Tcp, "UDP"), [Set(Tcp, "UDP") EXCEPT !.mUDPRate = 99],
              [Tcp EXCEPT !.flags = @ \cup {"UDP", "MULTICAST"}]}
=============================================================================

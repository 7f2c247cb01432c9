--------------------------- MODULE Reporter_proofs ---------------------------
(***************************************************************************)
(* Proofs about the two structures of Reporter.c that several threads use: *)
(* the list of reports (ReportList), for any agents, any parts wanted, any *)
(* size of the rings and any number of packets, and the barrier of         *)
(* parallel clients (Barrier), for any finite set of them.  The chain that *)
(* agents and reporter share stays whole, and everything is printed once   *)
(* and in order; nobody passes the barrier early.                          *)
(***************************************************************************)
EXTENDS ReportList, Barrier, SequenceTheorems, FiniteSetTheorems, TLAPS

Closed == {"closed", "relayed", "done"}
Walking == rpc \in {"visit", "drain", "unlink"}

\* Packets: the reporter takes no more than there are, and all of them before
\* the agent lets go of its report.
CountInv ==
    \A t \in Agents :
        /\ got[t] <= put[t]
        /\ apc[t] \notin Closed => put[t] <= MaxPackets - 1
        /\ apc[t] = "done" /\ HasData(t) => got[t] = put[t]

\* Which reports an agent has linked in so far.
BornInv ==
    \A t \in Agents :
        /\ mem[ReportOf(t, "settings")] = "unborn" <=> apc[t] = "new" \/ "settings" \notin Wants[t]
        /\ mem[ReportOf(t, "data")] = "unborn" <=>
             apc[t] \in {"new", "ready"} \/ TypeOfReport(ReportOf(t, "data")) = {}
        /\ mem[ReportOf(t, "relay")] # "unborn" => apc[t] \in {"relayed", "done"}

\* An agent makes its reports in this order.
MadeAfter(r, earlier) ==
    /\ AgentOf(r) = AgentOf(earlier)
    /\ <<r[2], earlier[2]>> \in {<<"data", "settings">>, <<"relay", "data">>}

\* The chain holds each report linked, once, the newer before the older.
ListInv ==
    /\ \A a, b \in DOMAIN list : list[a] = list[b] => a = b
    /\ \A r \in Reports : mem[r] = "linked" <=> \E a \in DOMAIN list : list[a] = r
    /\ \A a, b \in DOMAIN list : MadeAfter(list[a], list[b]) => a < b

\* A report the walk has left behind linked: data whose connection is printed,
\* and that have all been handled if their agent's relayed report was there
\* when the walk began.
Passed(r) ==
    /\ r[2] = "data" /\ "connection" \notin type[r]
    /\ HasData(AgentOf(r)) /\ (\E a \in DOMAIN visit : visit[a] = ReportOf(AgentOf(r), "relay")) =>
         got[AgentOf(r)] = put[AgentOf(r)]

\* What is still to be visited are the i+1st to jth reports of the chain.
Stretch(i, j) ==
    /\ Len(visit) = j - i
    /\ \A a \in 1 .. j - i : visit[a] = list[i + a]
    /\ Walking => \A a \in j + 1 .. Len(list) : Passed(list[a])

WalkInv ==
    /\ \E i \in 0 .. Len(list) : \E j \in i .. Len(list) : Stretch(i, j)
    /\ Walking <=> visit # <<>>
    /\ rpc = "unlink" => Len(visit) = 1

\* A report that may be freed: all of it is printed, and its agent is done.
Finished(r) ==
    /\ type[r] \subseteq {"transfer"}
    /\ r[2] = "data" => apc[AgentOf(r)] = "done"

FreedInv ==
    /\ \A r \in Reports : mem[r] = "freed" => Finished(r)
    /\ rpc = "unlink" => Finished(Current)
    /\ rpc = "drain" => /\ Current[2] = "data" /\ HasData(AgentOf(Current))
                        /\ "connection" \notin type[Current]

Printed(t, part) == \E a \in DOMAIN log : log[a] = <<t, part>>

\* What was printed, told from the reports and the counters.
PartsInv ==
    /\ \A r \in Reports :
        /\ type[r] \subseteq TypeOfReport(r)
        /\ "transfer" \in TypeOfReport(r) => "transfer" \in type[r]
        /\ \A part \in TypeOfReport(r) \ {"transfer"} : Printed(AgentOf(r), part) <=> part \notin type[r]
    /\ \A t \in Agents : HasData(t) =>
        (Printed(t, "transfer") <=> apc[t] \in Closed /\ got[t] = put[t])

\* It was printed once, in order.
LogInv ==
    /\ \A a, b \in DOMAIN log : log[a] = log[b] => a = b
    /\ \A t \in Agents :
        /\ "settings" \in Wants[t] =>
             /\ Before(<<t, "settings">>, <<t, "connection">>)
             /\ Before(<<t, "settings">>, <<t, "transfer">>)
        /\ "connection" \in Wants[t] =>
             /\ Before(<<t, "connection">>, <<t, "transfer">>)
             /\ Before(<<t, "connection">>, <<t, "relay">>)
        /\ HasData(t) => Before(<<t, "transfer">>, <<t, "relay">>)

-----------------------------------------------------------------------------
(* Sequences: one more in front, one less at the end, one less anywhere.   *)

LEMMA PushProperties ==
    ASSUME NEW S, NEW s \in Seq(S), NEW e \in S
    PROVE  /\ <<e>> \o s \in Seq(S)
           /\ Len(<<e>> \o s) = Len(s) + 1
           /\ \A a \in 1 .. Len(s) + 1 : (<<e>> \o s)[a] = IF a = 1 THEN e ELSE s[a - 1]
  <1>1. <<e>> \in Seq(S) /\ Len(<<e>>) = 1 /\ <<e>>[1] = e /\ Len(s) \in Nat
    OBVIOUS
  <1> QED
    BY <1>1, ConcatProperties

LEMMA FrontProperties ==
    ASSUME NEW S, NEW s \in Seq(S), s # <<>>
    PROVE  /\ Front(s) \in Seq(S) /\ Len(Front(s)) = Len(s) - 1
           /\ \A a \in 1 .. Len(s) - 1 : Front(s)[a] = s[a]
           /\ Len(s) \in Nat \ {0} /\ Last(s) = s[Len(s)] /\ Last(s) \in S
           /\ Len(s) = 1 => Front(s) = <<>>
  <1>1. Len(s) \in Nat \ {0}
    BY EmptySeq
  <1>2. \A a \in 1 .. Len(s) - 1 : s[a] \in S
    BY <1>1, ElementOfSeq
  <1> DEFINE front == SubSeq(s, 1, Len(s) - 1)
  <1>3. /\ front \in Seq(S)
        /\ Len(front) = IF 1 <= Len(s) - 1 THEN (Len(s) - 1) - 1 + 1 ELSE 0
        /\ \A a \in 1 .. (Len(s) - 1) - 1 + 1 : front[a] = s[1 + a - 1]
    BY <1>1, <1>2, SubSeqProperties
  <1>4. /\ Front(s) \in Seq(S) /\ Len(Front(s)) = Len(s) - 1
        /\ \A a \in 1 .. Len(s) - 1 : Front(s)[a] = s[a]
    <2>1. Front(s) = front
      BY DEF Front
    <2> HIDE DEF front
    <2> QED
      BY <1>1, <1>3, <2>1
  <1>5. Last(s) = s[Len(s)] /\ Last(s) \in S
    BY <1>1, ElementOfSeq DEF Last
  <1>6. Len(s) = 1 => Front(s) = <<>>
    BY <1>4, EmptySeq
  <1> QED
    BY <1>1, <1>4, <1>5, <1>6

LEMMA RemoveAtProperties ==
    ASSUME NEW S, NEW s \in Seq(S), NEW k \in 1 .. Len(s)
    PROVE  /\ RemoveAt(s, k) \in Seq(S)
           /\ Len(RemoveAt(s, k)) = Len(s) - 1
           /\ \A a \in 1 .. Len(s) - 1 : RemoveAt(s, k)[a] = IF a < k THEN s[a] ELSE s[a + 1]
  <1> DEFINE front == SubSeq(s, 1, k - 1)
             back == SubSeq(s, k + 1, Len(s))
  <1>1. Len(s) \in Nat /\ k \in Nat /\ k - 1 \in Nat /\ k + 1 \in Nat
    OBVIOUS
  <1>2. /\ front \in Seq(S) /\ Len(front) = k - 1
        /\ \A a \in 1 .. k - 1 : front[a] = s[a]
    <2>1. \A a \in 1 .. k - 1 : s[a] \in S
      BY <1>1, ElementOfSeq
    <2>2. /\ front \in Seq(S)
          /\ Len(front) = IF 1 <= k - 1 THEN (k - 1) - 1 + 1 ELSE 0
          /\ \A a \in 1 .. (k - 1) - 1 + 1 : front[a] = s[1 + a - 1]
      BY <1>1, <2>1, SubSeqProperties
    <2> QED
      BY <1>1, <2>2
  <1>3. /\ back \in Seq(S) /\ Len(back) = Len(s) - k
        /\ \A a \in 1 .. Len(s) - k : back[a] = s[k + a]
    <2>1. \A a \in k + 1 .. Len(s) : s[a] \in S
      BY <1>1, ElementOfSeq
    <2>2. /\ back \in Seq(S)
          /\ Len(back) = IF k + 1 <= Len(s) THEN Len(s) - (k + 1) + 1 ELSE 0
          /\ \A a \in 1 .. Len(s) - (k + 1) + 1 : back[a] = s[(k + 1) + a - 1]
      BY <1>1, <2>1, SubSeqProperties
    <2> QED
      BY <1>1, <2>2
  <1>4. RemoveAt(s, k) = front \o back
    BY DEF RemoveAt
  <1> HIDE DEF front, back
  <1>5. /\ front \o back \in Seq(S)
        /\ Len(front \o back) = Len(front) + Len(back)
        /\ \A a \in 1 .. Len(front) + Len(back) :
             (front \o back)[a] = IF a <= Len(front) THEN front[a] ELSE back[a - Len(front)]
    BY <1>2, <1>3, ConcatProperties
  <1> QED
    BY <1>1, <1>2, <1>3, <1>4, <1>5

-----------------------------------------------------------------------------
(* The chain and the walk.                                                 *)

\* The report at hand is the last of the stretch, and linked.
LEMMA CurrentProperties ==
    ASSUME TypeOK, ListInv, WalkInv, Walking
    PROVE  /\ Current \in Reports /\ mem[Current] = "linked"
           /\ \E i \in 0 .. Len(list) : \E j \in i + 1 .. Len(list) :
                Stretch(i, j) /\ j \in DOMAIN list /\ Current = list[j]
  <1>1. list \in Seq(Reports) /\ visit \in Seq(Reports) /\ visit # <<>> /\ Len(list) \in Nat
    BY DEF TypeOK, WalkInv
  <1>2. Current = visit[Len(visit)] /\ Len(visit) \in Nat \ {0}
    BY <1>1, FrontProperties DEF Current
  <1>0. PICK i \in 0 .. Len(list) : \E j \in i .. Len(list) : Stretch(i, j)
    BY DEF WalkInv
  <1>3. PICK j \in i .. Len(list) : Stretch(i, j)
    BY <1>0
  <1>4. Len(visit) = j - i
    BY <1>3 DEF Stretch
  <1>5. j \in i + 1 .. Len(list) /\ j \in DOMAIN list
    BY <1>1, <1>2, <1>4
  <1>6. Current = list[j]
    <2>1. \A a \in 1 .. j - i : visit[a] = list[i + a]
      BY <1>3 DEF Stretch
    <2> QED
      BY <1>2, <1>4, <2>1
  <1>7. Current \in Reports /\ mem[Current] = "linked"
    BY <1>1, <1>5, <1>6, ElementOfSeq DEF ListInv
  <1> QED
    BY <1>3, <1>5, <1>6, <1>7

\* Nothing that happens to a report passed by makes it another.
LEMMA PassedKept ==
    ASSUME NEW r, Passed(r), type'[r] \subseteq type[r],
           \A a \in DOMAIN visit' : \E b \in DOMAIN visit : visit'[a] = visit[b],
           (\E b \in DOMAIN visit : visit[b] = ReportOf(AgentOf(r), "relay"))
               /\ got[AgentOf(r)] = put[AgentOf(r)] => got'[AgentOf(r)] = put'[AgentOf(r)]
    PROVE  Passed(r)'
BY DEF Passed

\* Linking a report in, in front of all others of its agent.
LEMMA PushKeepsList ==
    ASSUME TypeOK, ListInv, NEW r \in Reports, mem[r] = "unborn", Push(r),
           \A s \in Reports : MadeAfter(s, r) => mem[s] # "linked"
    PROVE  list' \in Seq(Reports) /\ ListInv'
  <1>1. list \in Seq(Reports) /\ Len(list) \in Nat /\ DOMAIN list = 1 .. Len(list)
    BY DEF TypeOK
  <1>2. /\ list' \in Seq(Reports) /\ Len(list') = Len(list) + 1
        /\ DOMAIN list' = 1 .. Len(list) + 1
        /\ \A a \in 1 .. Len(list) + 1 : list'[a] = IF a = 1 THEN r ELSE list[a - 1]
    BY <1>1, PushProperties DEF Push
  <1>3. mem' = [mem EXCEPT ![r] = "linked"] /\ mem \in [Reports -> {"unborn", "linked", "freed"}]
    BY DEF Push, TypeOK
  <1>4. /\ \A a \in DOMAIN list : a + 1 \in DOMAIN list' /\ list'[a + 1] = list[a]
        /\ 1 \in DOMAIN list' /\ list'[1] = r
        /\ \A a \in DOMAIN list' : a \in Nat /\ (a = 1 \/ (a > 1 /\ a - 1 \in DOMAIN list /\ list'[a] = list[a - 1]))
    BY <1>1, <1>2
  <1>5. \A a \in DOMAIN list : list[a] # r /\ list[a] \in Reports
    BY <1>1, ElementOfSeq DEF ListInv
  <1>6. \A a, b \in DOMAIN list' : list'[a] = list'[b] => a = b
    <2> SUFFICES ASSUME NEW a \in DOMAIN list', NEW b \in DOMAIN list', list'[a] = list'[b]
                 PROVE  a = b
      OBVIOUS
    <2>1. CASE a = 1 \/ b = 1
      BY <1>4, <1>5, <2>1
    <2>2. CASE a > 1 /\ b > 1
      <3>1. a - 1 = b - 1
        BY <1>4, <2>2 DEF ListInv
      <3> QED
        BY <1>4, <3>1
    <2> QED
      BY <1>4, <2>1, <2>2
  <1>7. \A s \in Reports : mem'[s] = "linked" <=> \E a \in DOMAIN list' : list'[a] = s
    <2> SUFFICES ASSUME NEW s \in Reports
                 PROVE  mem'[s] = "linked" <=> \E a \in DOMAIN list' : list'[a] = s
      OBVIOUS
    <2>1. CASE s = r
      BY <1>3, <1>4, <2>1
    <2>2. CASE s # r
      <3>1. mem'[s] = "linked" <=> \E a \in DOMAIN list : list[a] = s
        BY <1>3, <2>2 DEF ListInv
      <3> QED
        BY <1>4, <2>2, <3>1
    <2> QED
      BY <2>1, <2>2
  <1>8. \A a, b \in DOMAIN list' : MadeAfter(list'[a], list'[b]) => a < b
    <2> SUFFICES ASSUME NEW a \in DOMAIN list', NEW b \in DOMAIN list', MadeAfter(list'[a], list'[b])
                 PROVE  a < b
      OBVIOUS
    <2>1. CASE b = 1
      <3>1. a # 1
        BY <1>4, <2>1 DEF MadeAfter
      <3>2. mem[list'[a]] = "linked" /\ list'[a] \in Reports
        BY <1>4, <1>5, <3>1 DEF ListInv
      <3> QED
        BY <1>4, <2>1, <3>2
    <2>2. CASE a = 1 /\ b > 1
      BY <2>2
    <2>3. CASE a > 1 /\ b > 1
      <3>1. a - 1 < b - 1
        BY <1>4, <2>3 DEF ListInv
      <3> QED
        BY <1>1, <1>2, <3>1
    <2> QED
      BY <1>4, <2>1, <2>2, <2>3
  <1> QED
    BY <1>2, <1>6, <1>7, <1>8 DEF ListInv

\* The walk goes on behind the new report.
LEMMA PushKeepsWalk ==
    ASSUME TypeOK, WalkInv, NEW r \in Reports, Push(r), UNCHANGED <<rpc, visit>>,
           \A s \in Reports : Passed(s) => Passed(s)'
    PROVE  WalkInv'
  <1>1. list \in Seq(Reports) /\ Len(list) \in Nat
    BY DEF TypeOK
  <1>2. /\ list' \in Seq(Reports) /\ Len(list') = Len(list) + 1
        /\ \A a \in 1 .. Len(list) + 1 : list'[a] = IF a = 1 THEN r ELSE list[a - 1]
    BY <1>1, PushProperties DEF Push
  <1>0. PICK i \in 0 .. Len(list) : \E j \in i .. Len(list) : Stretch(i, j)
    BY DEF WalkInv
  <1>3. PICK j \in i .. Len(list) : Stretch(i, j)
    BY <1>0
  <1>4. i \in Nat /\ j \in Nat /\ i <= j /\ j <= Len(list)
    BY <1>1
  <1>5. Stretch(i + 1, j + 1)'
    <2>1. Len(visit) = j - i /\ \A a \in 1 .. j - i : visit[a] = list[i + a]
      BY <1>3 DEF Stretch
    <2>2. Len(visit') = (j + 1) - (i + 1)
      BY <1>4, <2>1
    <2>3. \A a \in 1 .. (j + 1) - (i + 1) : visit'[a] = list'[i + 1 + a]
      <3> SUFFICES ASSUME NEW a \in 1 .. (j + 1) - (i + 1)
                   PROVE  visit'[a] = list'[i + 1 + a]
        OBVIOUS
      <3>1. a \in 1 .. j - i /\ i + 1 + a \in 1 .. Len(list) + 1 /\ i + 1 + a # 1
        BY <1>1, <1>4
      <3>2. list'[i + 1 + a] = list[i + 1 + a - 1]
        BY <1>2, <3>1
      <3>3. i + 1 + a - 1 = i + a
        BY <1>4, <3>1
      <3> QED
        BY <2>1, <3>1, <3>2, <3>3
    <2>4. ASSUME Walking', NEW a \in j + 1 + 1 .. Len(list')
          PROVE  Passed(list[a])'
      <3>0. Walking
        BY <2>4 DEF Walking
      <3>1. a - 1 \in j + 1 .. Len(list) /\ list'[a] = list[a - 1]
        BY <1>1, <1>2, <1>4
      <3>2. Passed(list[a - 1]) /\ list[a - 1] \in Reports
        BY <1>1, <1>3, <1>4, <3>0, <3>1, ElementOfSeq DEF Stretch
      <3>3. PICK s \in Reports : s = list[a - 1] /\ Passed(s)
        BY <3>2
      <3>4. Passed(s)' /\ list'[a] = s
        BY <3>1, <3>3
      <3> QED
        BY <3>4 DEF Passed
    <2> QED
      BY <2>2, <2>3, <2>4, Zenon DEF Stretch
  <1>6. i + 1 \in 0 .. Len(list') /\ j + 1 \in i + 1 .. Len(list')
    BY <1>1, <1>2, <1>4
  <1> QED
    BY <1>5, <1>6 DEF WalkInv, Walking

\* Unlinking closes the gap.
LEMMA UnlinkKeepsList ==
    ASSUME TypeOK, ListInv, NEW k \in DOMAIN list, Unlink(list[k]),
           mem' = [mem EXCEPT ![list[k]] = "freed"]
    PROVE  /\ list' \in Seq(Reports) /\ Len(list') = Len(list) - 1
           /\ \A a \in 1 .. Len(list) - 1 : list'[a] = IF a < k THEN list[a] ELSE list[a + 1]
           /\ ListInv'
  <1>1. list \in Seq(Reports) /\ Len(list) \in Nat /\ DOMAIN list = 1 .. Len(list) /\ k \in 1 .. Len(list)
    BY DEF TypeOK
  <1>2. PositionOf(list[k]) = k
    <2>1. \A a \in DOMAIN list : list[a] = list[k] => a = k
      BY DEF ListInv
    <2> QED
      BY <2>1, Zenon DEF PositionOf
  <1>3. list' = RemoveAt(list, k)
    BY <1>2 DEF Unlink
  <1>4. /\ RemoveAt(list, k) \in Seq(Reports) /\ Len(RemoveAt(list, k)) = Len(list) - 1
        /\ \A a \in 1 .. Len(list) - 1 :
             RemoveAt(list, k)[a] = IF a < k THEN list[a] ELSE list[a + 1]
    BY <1>1, RemoveAtProperties
  <1>5. /\ list' \in Seq(Reports) /\ Len(list') = Len(list) - 1
        /\ \A a \in 1 .. Len(list) - 1 : list'[a] = IF a < k THEN list[a] ELSE list[a + 1]
    BY <1>3, <1>4, Zenon
  <1>6. DOMAIN list' = 1 .. Len(list) - 1
    BY <1>1, <1>5
  <1> DEFINE from(a) == IF a < k THEN a ELSE a + 1
  <1>7. /\ \A a \in DOMAIN list' : from(a) \in DOMAIN list /\ from(a) # k /\ list'[a] = list[from(a)]
        /\ \A a, b \in DOMAIN list' : from(a) = from(b) => a = b
        /\ \A a, b \in DOMAIN list' : from(a) < from(b) => a < b
    BY <1>1, <1>5, <1>6
  <1>8. \A b \in DOMAIN list : b # k => \E a \in DOMAIN list' : list'[a] = list[b]
    <2> SUFFICES ASSUME NEW b \in DOMAIN list, b # k
                 PROVE  \E a \in DOMAIN list' : list'[a] = list[b]
      OBVIOUS
    <2>1. CASE b < k
      BY <1>1, <1>5, <1>6, <2>1
    <2>2. CASE b > k
      <3>1. b - 1 \in DOMAIN list' /\ list'[b - 1] = list[b]
        BY <1>1, <1>5, <1>6, <2>2
      <3> QED
        BY <3>1
    <2> QED
      BY <1>1, <2>1, <2>2
  <1>9. ListInv'
    <2> HIDE DEF from
    <2>1. \A r \in Reports : mem'[r] = "linked" <=> mem[r] = "linked" /\ r # list[k]
      BY DEF TypeOK
    <2>2. \A r \in Reports : mem'[r] = "linked" <=> \E a \in DOMAIN list' : list'[a] = r
      <3>1. \A a \in DOMAIN list : list[a] = list[k] => a = k
        BY DEF ListInv
      <3>2. \A r \in Reports : mem[r] = "linked" <=> \E a \in DOMAIN list : list[a] = r
        BY DEF ListInv
      <3> SUFFICES ASSUME NEW r \in Reports
                   PROVE  mem'[r] = "linked" <=> \E a \in DOMAIN list' : list'[a] = r
        OBVIOUS
      <3>3. ASSUME mem'[r] = "linked"
            PROVE  \E a \in DOMAIN list' : list'[a] = r
        <4>1. PICK b \in DOMAIN list : list[b] = r /\ r # list[k]
          BY <2>1, <3>2, <3>3
        <4>2. PICK a \in DOMAIN list' : list'[a] = list[b]
          BY <1>8, <4>1
        <4> QED
          BY <4>1, <4>2
      <3>4. ASSUME NEW a \in DOMAIN list', list'[a] = r
            PROVE  mem'[r] = "linked"
        <4>1. from(a) \in DOMAIN list /\ from(a) # k /\ r = list[from(a)]
          BY <1>7, <3>4
        <4>2. mem[r] = "linked" /\ r # list[k]
          BY <3>1, <3>2, <4>1
        <4> QED
          BY <2>1, <4>2
      <3> QED
        BY <3>3, <3>4
    <2>3. \A a, b \in DOMAIN list' : list'[a] = list'[b] => a = b
      BY <1>7 DEF ListInv
    <2>4. \A a, b \in DOMAIN list' : MadeAfter(list'[a], list'[b]) => a < b
      BY <1>7 DEF ListInv
    <2> QED
      BY <2>2, <2>3, <2>4 DEF ListInv
  <1> QED
    BY <1>5, <1>9

\* What is visited next, when the last of the stretch is done with.
LEMMA FrontOfVisit ==
    ASSUME TypeOK, WalkInv, Walking, visit' = Front(visit)
    PROVE  /\ visit' \in Seq(Reports) /\ Len(visit') = Len(visit) - 1
           /\ \A a \in 1 .. Len(visit) - 1 : visit'[a] = visit[a]
           /\ \A a \in DOMAIN visit' : \E b \in DOMAIN visit : visit'[a] = visit[b]
           /\ Len(visit) \in Nat \ {0} /\ (visit' = <<>> <=> Len(visit) = 1)
  <1>1. visit \in Seq(Reports) /\ visit # <<>>
    BY DEF TypeOK, WalkInv
  <1>2. /\ Front(visit) \in Seq(Reports) /\ Len(Front(visit)) = Len(visit) - 1
        /\ \A a \in 1 .. Len(visit) - 1 : Front(visit)[a] = visit[a]
        /\ Len(visit) \in Nat \ {0} /\ (Len(visit) = 1 => Front(visit) = <<>>)
    BY <1>1, FrontProperties
  <1>3. /\ visit' \in Seq(Reports) /\ Len(visit') = Len(visit) - 1
        /\ \A a \in 1 .. Len(visit) - 1 : visit'[a] = visit[a]
        /\ Len(visit) \in Nat \ {0} /\ (Len(visit) = 1 => visit' = <<>>)
    BY <1>2
  <1>4. visit' = <<>> => Len(visit) = 1
    BY <1>3
  <1>5. DOMAIN visit' = 1 .. Len(visit) - 1 /\ DOMAIN visit = 1 .. Len(visit)
    BY <1>1, <1>3
  <1> QED
    BY <1>3, <1>4, <1>5

\* The walk leaves a report linked.
LEMMA LeaveLinkedKeepsWalk ==
    ASSUME TypeOK, ListInv, WalkInv, rpc \in {"visit", "drain"}, LeaveLinked,
           \A s \in Reports : Passed(s) \/ s = Current => Passed(s)'
    PROVE  visit' \in Seq(Reports) /\ WalkInv'
  <1>1. Walking /\ list \in Seq(Reports) /\ Len(list) \in Nat
    BY DEF Walking, TypeOK
  <1>2. /\ visit' = Front(visit) /\ rpc' = IF Len(visit) > 1 THEN "visit" ELSE "nap"
        /\ UNCHANGED <<list, mem>>
    BY DEF LeaveLinked
  <1>3. PICK i \in 0 .. Len(list) : \E j \in i + 1 .. Len(list) :
                Stretch(i, j) /\ j \in DOMAIN list /\ Current = list[j]
    BY <1>1, CurrentProperties
  <1>4. PICK j \in i + 1 .. Len(list) : Stretch(i, j) /\ j \in DOMAIN list /\ Current = list[j]
    BY <1>3
  <1>5. i \in Nat /\ j \in Nat /\ i <= j - 1 /\ j <= Len(list)
    BY <1>1
  <1>6. Len(visit) = j - i /\ \A a \in 1 .. j - i : visit[a] = list[i + a]
    BY <1>4 DEF Stretch
  <1>7. /\ visit' \in Seq(Reports) /\ Len(visit') = Len(visit) - 1
        /\ \A a \in 1 .. Len(visit) - 1 : visit'[a] = visit[a]
        /\ visit' = <<>> <=> Len(visit) = 1
    BY <1>1, <1>2, FrontOfVisit
  <1>8. Stretch(i, j - 1)'
    <2>1. Len(visit') = (j - 1) - i
      BY <1>5, <1>6, <1>7
    <2>2. \A a \in 1 .. (j - 1) - i : visit'[a] = list'[i + a]
      BY <1>2, <1>5, <1>6, <1>7
    <2>3. ASSUME NEW a \in (j - 1) + 1 .. Len(list')
          PROVE  Passed(list[a])'
      <3>1. a \in j .. Len(list) /\ a \in DOMAIN list /\ list[a] \in Reports
        BY <1>1, <1>2, <1>5, ElementOfSeq
      <3>2. Passed(list[a]) \/ list[a] = Current
        <4>1. \A b \in j + 1 .. Len(list) : Passed(list[b])
          BY <1>1, <1>4 DEF Stretch
        <4>2. a = j \/ a \in j + 1 .. Len(list)
          BY <1>1, <1>5, <3>1
        <4> QED
          BY <1>4, <4>1, <4>2, Zenon
      <3>3. PICK s \in Reports : s = list[a] /\ (Passed(s) \/ s = Current)
        BY <3>1, <3>2
      <3>4. Passed(s)' /\ list'[a] = s
        BY <1>2, <3>3
      <3> QED
        BY <3>4 DEF Passed
    <2> QED
      BY <2>1, <2>2, <2>3, Zenon DEF Stretch
  <1>9. i \in 0 .. Len(list') /\ j - 1 \in i .. Len(list')
    BY <1>2, <1>5
  <1>10. (Walking <=> visit # <<>>)' /\ rpc' # "unlink"
    BY <1>2, <1>5, <1>6, <1>7 DEF Walking
  <1> QED
    BY <1>7, <1>8, <1>9, <1>10, Zenon DEF WalkInv

\* The walk takes a report out, unless it is the one it started from.
LEMMA LeaveFinishedKeepsWalk ==
    ASSUME TypeOK, ListInv, WalkInv, rpc \in {"visit", "drain"}, LeaveFinished,
           \A s \in Reports : Passed(s) => Passed(s)'
    PROVE  /\ list' \in Seq(Reports) /\ visit' \in Seq(Reports)
           /\ ListInv' /\ WalkInv'
           /\ \/ rpc' = "visit" /\ mem' = [mem EXCEPT ![Current] = "freed"]
              \/ rpc' = "unlink" /\ UNCHANGED <<list, mem, visit>>
  <1>1. Walking /\ list \in Seq(Reports) /\ visit \in Seq(Reports) /\ Len(list) \in Nat
    BY DEF Walking, TypeOK
  <1>2. PICK i \in 0 .. Len(list) : \E j \in i + 1 .. Len(list) :
                Stretch(i, j) /\ j \in DOMAIN list /\ Current = list[j]
    BY <1>1, CurrentProperties
  <1>3. PICK j \in i + 1 .. Len(list) : Stretch(i, j) /\ j \in DOMAIN list /\ Current = list[j]
    BY <1>2
  <1>4. i \in Nat /\ j \in Nat /\ i <= j - 1 /\ j <= Len(list)
    BY <1>1
  <1>5. Len(visit) = j - i /\ \A a \in 1 .. j - i : visit[a] = list[i + a]
    BY <1>3 DEF Stretch
  <1>6. CASE Len(visit) > 1
    <2>1. /\ Unlink(Current) /\ mem' = [mem EXCEPT ![Current] = "freed"]
          /\ visit' = Front(visit) /\ rpc' = "visit"
      BY <1>6 DEF LeaveFinished
    <2>2. /\ list' \in Seq(Reports) /\ Len(list') = Len(list) - 1
          /\ \A a \in 1 .. Len(list) - 1 : list'[a] = IF a < j THEN list[a] ELSE list[a + 1]
          /\ ListInv'
      <3>1. Unlink(list[j]) /\ mem' = [mem EXCEPT ![list[j]] = "freed"]
        BY <1>3, <2>1
      <3> QED
        BY <1>3, <3>1, UnlinkKeepsList
    <2>3. /\ visit' \in Seq(Reports) /\ Len(visit') = Len(visit) - 1
          /\ \A a \in 1 .. Len(visit) - 1 : visit'[a] = visit[a]
          /\ visit' = <<>> <=> Len(visit) = 1
      BY <1>1, <2>1, FrontOfVisit
    <2>4. Stretch(i, j - 1)'
      <3>1. Len(visit') = (j - 1) - i
        BY <1>4, <1>5, <2>3
      <3>2. \A a \in 1 .. (j - 1) - i : visit'[a] = list'[i + a]
        <4> SUFFICES ASSUME NEW a \in 1 .. (j - 1) - i
                     PROVE  visit'[a] = list'[i + a]
          OBVIOUS
        <4>1. i + a \in 1 .. Len(list) - 1 /\ i + a < j /\ a \in 1 .. j - i /\ a \in 1 .. Len(visit) - 1
          BY <1>1, <1>4, <1>5
        <4>2. list'[i + a] = list[i + a] /\ visit'[a] = visit[a] /\ visit[a] = list[i + a]
          BY <1>5, <2>2, <2>3, <4>1
        <4> QED
          BY <4>2
      <3>3. ASSUME NEW a \in (j - 1) + 1 .. Len(list')
            PROVE  Passed(list[a])'
        <4>1. a + 1 \in j + 1 .. Len(list) /\ list'[a] = list[a + 1]
          BY <1>1, <1>4, <2>2
        <4>2. list[a + 1] \in Reports /\ Passed(list[a + 1])
          BY <1>1, <1>3, <1>4, <4>1, ElementOfSeq DEF Stretch
        <4>3. PICK s \in Reports : s = list[a + 1] /\ Passed(s)
          BY <4>2
        <4>4. Passed(s)' /\ list'[a] = s
          BY <4>1, <4>3
        <4> QED
          BY <4>4 DEF Passed
      <3> QED
        BY <3>1, <3>2, <3>3, Zenon DEF Stretch
    <2>5. i \in 0 .. Len(list') /\ j - 1 \in i .. Len(list')
      BY <1>1, <1>4, <2>2
    <2>6. (Walking <=> visit # <<>>)' /\ rpc' # "unlink"
      <3>1. visit' # <<>>
        BY <1>4, <1>5, <1>6, <2>3
      <3> QED
        BY <2>1, <3>1 DEF Walking
    <2>7. WalkInv'
      BY <2>4, <2>5, <2>6, Zenon DEF WalkInv
    <2> QED
      BY <2>1, <2>2, <2>3, <2>7
  <1>7. CASE ~(Len(visit) > 1)
    <2>1. rpc' = "unlink" /\ UNCHANGED <<list, mem, visit>>
      BY <1>7 DEF LeaveFinished
    <2>2. Len(visit) = 1
      BY <1>4, <1>5, <1>7
    <2>3. ListInv'
      BY <2>1 DEF ListInv
    <2>4. Stretch(i, j)'
      <3>1. ASSUME NEW a \in j + 1 .. Len(list')
            PROVE  Passed(list[a])'
        <4>1. list[a] \in Reports /\ Passed(list[a])
          BY <1>1, <1>3, <1>4, <2>1, <3>1, ElementOfSeq DEF Stretch
        <4>2. PICK s \in Reports : s = list[a] /\ Passed(s)
          BY <4>1
        <4>3. Passed(s)' /\ list'[a] = s
          BY <2>1, <4>2
        <4> QED
          BY <4>3 DEF Passed
      <3>2. Len(visit') = j - i /\ \A a \in 1 .. j - i : visit'[a] = list'[i + a]
        BY <1>5, <2>1
      <3> QED
        BY <3>1, <3>2, Zenon DEF Stretch
    <2>5. i \in 0 .. Len(list') /\ j \in i .. Len(list')
      BY <1>1, <1>4, <2>1
    <2>6. (Walking <=> visit # <<>>)' /\ Len(visit') = 1
      BY <1>1, <2>1, <2>2 DEF Walking, WalkInv
    <2>7. WalkInv'
      BY <2>4, <2>5, <2>6, Zenon DEF WalkInv
    <2> QED
      BY <1>1, <2>1, <2>3, <2>7
  <1> QED
    BY <1>6, <1>7

\* The walk goes on where it was.
LEMMA StayKeepsWalk ==
    ASSUME TypeOK, WalkInv, UNCHANGED <<list, visit>>, Walking' = Walking,
           rpc' = "unlink" => rpc = "unlink",
           \A s \in Reports : Passed(s) => Passed(s)'
    PROVE  WalkInv'
  <1>1. PICK i \in 0 .. Len(list) : \E j \in i .. Len(list) : Stretch(i, j)
    BY DEF WalkInv
  <1>2. PICK j \in i .. Len(list) : Stretch(i, j)
    BY <1>1
  <1>3. list \in Seq(Reports) /\ Len(list) \in Nat
    BY DEF TypeOK
  <1>4. Stretch(i, j)'
    <2>1. ASSUME Walking', NEW a \in j + 1 .. Len(list')
          PROVE  Passed(list[a])'
      <3>1. list[a] \in Reports /\ Passed(list[a])
        BY <1>2, <1>3, <2>1, ElementOfSeq DEF Stretch
      <3>2. PICK s \in Reports : s = list[a] /\ Passed(s)
        BY <3>1
      <3>3. Passed(s)' /\ list'[a] = s
        BY <3>2
      <3> QED
        BY <3>3 DEF Passed
    <2>2. Len(visit') = j - i /\ \A a \in 1 .. j - i : visit'[a] = list'[i + a]
      BY <1>2 DEF Stretch
    <2> QED
      BY <2>1, <2>2, Zenon DEF Stretch
  <1> QED
    BY <1>2, <1>4 DEF WalkInv

-----------------------------------------------------------------------------
(* The log.                                                                *)

\* One more entry is in the log, after all others.
LEMMA LogAppend ==
    ASSUME TypeOK, NEW e \in Agents \X Parts, log' = Append(log, e)
    PROVE  /\ log' \in Seq(Agents \X Parts)
           /\ \A t \in Agents, part \in Parts : Printed(t, part)' <=> Printed(t, part) \/ e = <<t, part>>
           /\ (\A a, b \in DOMAIN log : log[a] = log[b] => a = b)
                /\ (\A a \in DOMAIN log : log[a] # e)
              => \A a, b \in DOMAIN log' : log'[a] = log'[b] => a = b
           /\ \A x, y : Before(x, y) /\ (e = y => \E a \in DOMAIN log : log[a] = x) => Before(x, y)'
  <1>1. log \in Seq(Agents \X Parts) /\ Len(log) \in Nat /\ DOMAIN log = 1 .. Len(log)
    BY DEF TypeOK
  <1>2. /\ log' \in Seq(Agents \X Parts) /\ Len(log') = Len(log) + 1
        /\ \A a \in 1 .. Len(log) : log'[a] = log[a]
        /\ log'[Len(log) + 1] = e
    BY <1>1, AppendProperties
  <1>3. DOMAIN log' = 1 .. Len(log) + 1
    BY <1>1, <1>2
  <1>4. /\ DOMAIN log \subseteq DOMAIN log' /\ Len(log) + 1 \in DOMAIN log'
        /\ \A a \in DOMAIN log' : a \in DOMAIN log \/ a = Len(log) + 1
        /\ \A a \in DOMAIN log : log'[a] = log[a]
    BY <1>1, <1>2, <1>3
  <1>5. \A t \in Agents, part \in Parts : Printed(t, part)' <=> Printed(t, part) \/ e = <<t, part>>
    BY <1>2, <1>4, Zenon DEF Printed
  <1>6. ASSUME \A a, b \in DOMAIN log : log[a] = log[b] => a = b, \A a \in DOMAIN log : log[a] # e
        PROVE  \A a, b \in DOMAIN log' : log'[a] = log'[b] => a = b
    <2> SUFFICES ASSUME NEW a \in DOMAIN log', NEW b \in DOMAIN log', log'[a] = log'[b]
                 PROVE  a = b
      OBVIOUS
    <2>1. CASE a \in DOMAIN log /\ b \in DOMAIN log
      BY <1>4, <1>6, <2>1
    <2>2. CASE a \in DOMAIN log /\ b = Len(log) + 1
      BY <1>2, <1>4, <1>6, <2>2, Zenon
    <2>3. CASE a = Len(log) + 1 /\ b \in DOMAIN log
      BY <1>2, <1>4, <1>6, <2>3, Zenon
    <2> QED
      BY <1>4, <2>1, <2>2, <2>3
  <1>7. ASSUME NEW x, NEW y, Before(x, y), e = y => \E a \in DOMAIN log : log[a] = x
        PROVE  Before(x, y)'
    <2> SUFFICES ASSUME NEW b \in DOMAIN log', log'[b] = y
                 PROVE  \E a \in 1 .. b - 1 : log'[a] = x
      BY DEF Before
    <2>1. CASE b \in DOMAIN log
      <3>1. PICK a \in 1 .. b - 1 : log[a] = x
        BY <1>4, <1>7, <2>1 DEF Before
      <3>2. a \in DOMAIN log
        BY <1>1, <2>1, <3>1
      <3> QED
        BY <1>4, <3>1, <3>2
    <2>2. CASE b = Len(log) + 1
      <3>1. PICK a \in DOMAIN log : log[a] = x
        BY <1>2, <1>7, <2>2
      <3>2. a \in 1 .. b - 1
        BY <1>1, <2>2
      <3> QED
        BY <1>4, <3>1, <3>2
    <2> QED
      BY <1>4, <2>1, <2>2
  <1> QED
    BY <1>2, <1>5, <1>6, <1>7

\* A part is printed after those that belong before it.
LEMMA PrintKeepsOrder ==
    ASSUME TypeOK, LogInv, NEW t \in Agents, NEW part \in Parts,
           log' = Append(log, <<t, part>>), ~Printed(t, part),
           part \in {"connection", "transfer"} /\ "settings" \in Wants[t] => Printed(t, "settings"),
           part \in {"transfer", "relay"} /\ "connection" \in Wants[t] => Printed(t, "connection"),
           part = "relay" /\ HasData(t) => Printed(t, "transfer")
    PROVE  LogInv'
  <1>1. <<t, part>> \in Agents \X Parts
    OBVIOUS
  <1>2. /\ (\A a, b \in DOMAIN log : log[a] = log[b] => a = b)
             /\ (\A a \in DOMAIN log : log[a] # <<t, part>>)
           => \A a, b \in DOMAIN log' : log'[a] = log'[b] => a = b
        /\ \A x, y : Before(x, y) /\ (<<t, part>> = y => \E a \in DOMAIN log : log[a] = x) => Before(x, y)'
    BY <1>1, LogAppend
  <1>3. \A a, b \in DOMAIN log' : log'[a] = log'[b] => a = b
    BY <1>2 DEF LogInv, Printed
  <1>4. ASSUME NEW u \in Agents, NEW p \in Parts, NEW q \in Parts, Before(<<u, p>>, <<u, q>>),
               u = t /\ q = part => Printed(t, p)
        PROVE  Before(<<u, p>>, <<u, q>>)'
    <2>1. <<t, part>> = <<u, q>> => \E a \in DOMAIN log : log[a] = <<u, p>>
      BY <1>4 DEF Printed
    <2> QED
      BY <1>2, <1>4, <2>1
  <1>5. {"settings", "connection", "transfer", "relay"} = Parts
    BY DEF Parts
  <1>6. ASSUME NEW u \in Agents
        PROVE  /\ "settings" \in Wants[u] =>
                    /\ Before(<<u, "settings">>, <<u, "connection">>)'
                    /\ Before(<<u, "settings">>, <<u, "transfer">>)'
               /\ "connection" \in Wants[u] =>
                    /\ Before(<<u, "connection">>, <<u, "transfer">>)'
                    /\ Before(<<u, "connection">>, <<u, "relay">>)'
               /\ HasData(u) => Before(<<u, "transfer">>, <<u, "relay">>)'
    <2>1. /\ "settings" \in Wants[u] =>
                    /\ Before(<<u, "settings">>, <<u, "connection">>)
                    /\ Before(<<u, "settings">>, <<u, "transfer">>)
          /\ "connection" \in Wants[u] =>
                    /\ Before(<<u, "connection">>, <<u, "transfer">>)
                    /\ Before(<<u, "connection">>, <<u, "relay">>)
          /\ HasData(u) => Before(<<u, "transfer">>, <<u, "relay">>)
      BY DEF LogInv
    <2>2. ASSUME "settings" \in Wants[u]
          PROVE  /\ Before(<<u, "settings">>, <<u, "connection">>)'
                 /\ Before(<<u, "settings">>, <<u, "transfer">>)'
      BY <1>4, <1>5, <2>1, <2>2
    <2>3. ASSUME "connection" \in Wants[u]
          PROVE  /\ Before(<<u, "connection">>, <<u, "transfer">>)'
                 /\ Before(<<u, "connection">>, <<u, "relay">>)'
      BY <1>4, <1>5, <2>1, <2>3
    <2>4. ASSUME HasData(u)
          PROVE  Before(<<u, "transfer">>, <<u, "relay">>)'
      BY <1>4, <1>5, <2>1, <2>4
    <2> QED
      BY <2>2, <2>3, <2>4
  <1> QED
    BY <1>3, <1>6, Zenon DEF LogInv, HasData

\* A part of the report at hand that is not the transfer.
LEMMA PrintPartKeepsParts ==
    ASSUME TypeOK, PartsInv, Current \in Reports, UNCHANGED <<apc, put, got>>,
           NEW part \in type[Current] \ {"transfer"}, PrintPart(part)
    PROVE  /\ log' = Append(log, <<AgentOf(Current), part>>)
           /\ AgentOf(Current) \in Agents /\ part \in Parts
           /\ type' \in [Reports -> SUBSET Parts] /\ log' \in Seq(Agents \X Parts)
           /\ type' = [type EXCEPT ![Current] = @ \ {part}]
           /\ \A r \in Reports : type'[r] \subseteq type[r]
           /\ ~Printed(AgentOf(Current), part)
           /\ PartsInv'
  <1>1. /\ type' = [type EXCEPT ![Current] = @ \ {part}]
        /\ log' = Append(log, <<AgentOf(Current), part>>)
    BY DEF PrintPart
  <1>2. type \in [Reports -> SUBSET Parts] /\ part \in Parts /\ AgentOf(Current) \in Agents
    BY DEF TypeOK, Reports, AgentOf
  <1>3. type' \in [Reports -> SUBSET Parts] /\ \A r \in Reports : type'[r] \subseteq type[r]
    BY <1>1, <1>2
  <1>4. /\ log' \in Seq(Agents \X Parts)
        /\ \A t \in Agents, p \in Parts :
             Printed(t, p)' <=> Printed(t, p) \/ <<AgentOf(Current), part>> = <<t, p>>
    <2>1. <<AgentOf(Current), part>> \in Agents \X Parts
      BY <1>2
    <2> QED
      BY <1>1, <2>1, LogAppend
  <1>5. type[Current] \subseteq TypeOfReport(Current)
    BY DEF PartsInv
  <1>6. ~Printed(AgentOf(Current), part)
    BY <1>5 DEF PartsInv
  <1>7. ASSUME NEW r \in Reports
        PROVE  /\ type'[r] \subseteq TypeOfReport(r)
               /\ "transfer" \in TypeOfReport(r) => "transfer" \in type'[r]
               /\ \A p \in TypeOfReport(r) \ {"transfer"} :
                    Printed(AgentOf(r), p)' <=> p \notin type'[r]
    <2>1. /\ type[r] \subseteq TypeOfReport(r)
          /\ "transfer" \in TypeOfReport(r) => "transfer" \in type[r]
          /\ \A p \in TypeOfReport(r) \ {"transfer"} : Printed(AgentOf(r), p) <=> p \notin type[r]
      BY DEF PartsInv
    <2>2. TypeOfReport(r) \subseteq Parts /\ AgentOf(r) \in Agents
      BY WantsAssumption DEF TypeOfReport, Reports, AgentOf
    <2>3. ASSUME NEW p \in TypeOfReport(r) \ {"transfer"}
          PROVE  Printed(AgentOf(r), p)' <=> p \notin type'[r]
      <3>1. Printed(AgentOf(r), p)' <=> p \notin type[r] \/ (AgentOf(Current) = AgentOf(r) /\ part = p)
        BY <1>4, <2>1, <2>2
      <3>2. AgentOf(Current) = AgentOf(r) /\ part = p <=> r = Current /\ part = p
        <4>1. part \in TypeOfReport(Current) /\ part # "transfer"
          BY <1>5
        <4> QED
          BY <4>1 DEF TypeOfReport, Reports, Kinds, AgentOf, Parts
      <3>3. p \notin type'[r] <=> p \notin type[r] \/ (r = Current /\ part = p)
        BY <1>1, <1>2
      <3> QED
        BY <3>1, <3>2, <3>3
    <2> QED
      BY <1>1, <1>2, <2>1, <2>3
  <1>8. ASSUME NEW t \in Agents, HasData(t)
        PROVE  Printed(t, "transfer")' <=> apc'[t] \in Closed /\ got'[t] = put'[t]
    <2>1. Printed(t, "transfer") <=> apc[t] \in Closed /\ got[t] = put[t]
      BY <1>8 DEF PartsInv
    <2>2. Printed(t, "transfer")' <=> Printed(t, "transfer")
      BY <1>4 DEF Parts
    <2> QED
      BY <2>1, <2>2
  <1> QED
    BY <1>1, <1>2, <1>3, <1>4, <1>6, <1>7, <1>8, Zenon DEF PartsInv

-----------------------------------------------------------------------------
(* The steps of the agents.                                                *)

\* The inductive invariant.
ListSafe ==
    TypeOK /\ CountInv /\ BornInv /\ ListInv /\ WalkInv /\ FreedInv /\ PartsInv /\ LogInv

\* What is still to be visited is linked.
LEMMA VisitedIsLinked ==
    ASSUME TypeOK, ListInv, WalkInv
    PROVE  \A a \in DOMAIN visit : visit[a] \in Reports /\ mem[visit[a]] = "linked"
  <1> SUFFICES ASSUME NEW a \in DOMAIN visit
               PROVE  visit[a] \in Reports /\ mem[visit[a]] = "linked"
    OBVIOUS
  <1>1. list \in Seq(Reports) /\ visit \in Seq(Reports) /\ Len(list) \in Nat
    BY DEF TypeOK
  <1>2. PICK i \in 0 .. Len(list) : \E j \in i .. Len(list) : Stretch(i, j)
    BY DEF WalkInv
  <1>3. PICK j \in i .. Len(list) : Stretch(i, j)
    BY <1>2
  <1>4. Len(visit) = j - i /\ \A b \in 1 .. j - i : visit[b] = list[i + b]
    BY <1>3 DEF Stretch
  <1>5. a \in 1 .. j - i /\ i + a \in DOMAIN list
    BY <1>1, <1>4
  <1>6. visit[a] = list[i + a] /\ list[i + a] \in Reports
    BY <1>1, <1>4, <1>5, ElementOfSeq
  <1> QED
    BY <1>5, <1>6 DEF ListInv

\* Packets come to reports of agents that have no relayed report in the walk.
LEMMA AgentKeepsPassed ==
    ASSUME TypeOK, BornInv, ListInv, WalkInv, NEW t \in Agents, UNCHANGED reporterVars,
           \A u \in Agents : u # t \/ apc[u] # "running" => put'[u] = put[u]
    PROVE  \A s \in Reports : Passed(s) => Passed(s)'
  <1> SUFFICES ASSUME NEW s \in Reports, Passed(s)
               PROVE  Passed(s)'
    OBVIOUS
  <1>1. /\ type' = type /\ got' = got /\ visit' = visit
    BY DEF reporterVars
  <1>2. AgentOf(s) \in Agents
    BY DEF Reports, AgentOf
  <1>3. ASSUME NEW b \in DOMAIN visit, visit[b] = ReportOf(AgentOf(s), "relay")
        PROVE  put'[AgentOf(s)] = put[AgentOf(s)]
    <2>1. mem[ReportOf(AgentOf(s), "relay")] = "linked"
      BY <1>3, VisitedIsLinked
    <2>2. apc[AgentOf(s)] # "running"
      BY <1>2, <2>1 DEF BornInv
    <2> QED
      BY <1>2, <2>2
  <1>4. /\ type'[s] \subseteq type[s]
        /\ \A a \in DOMAIN visit' : \E b \in DOMAIN visit : visit'[a] = visit[b]
        /\ (\E b \in DOMAIN visit : visit[b] = ReportOf(AgentOf(s), "relay"))
               /\ got[AgentOf(s)] = put[AgentOf(s)] => got'[AgentOf(s)] = put'[AgentOf(s)]
    BY <1>1, <1>3
  <1> QED
    BY <1>4, PassedKept

\* What an agent does leaves the log as it is, and frees nothing.
LEMMA AgentKeepsRest ==
    ASSUME ListSafe, NEW t \in Agents, UNCHANGED reporterVars,
           \A r \in Reports : mem'[r] = "freed" => mem[r] = "freed",
           \A u \in Agents : apc[u] = "done" => apc'[u] = "done"
    PROVE  FreedInv' /\ LogInv'
  <1>1. type' = type /\ rpc' = rpc /\ visit' = visit /\ log' = log
    BY DEF reporterVars
  <1>2. \A r \in Reports : Finished(r) => Finished(r)'
    BY <1>1 DEF Finished, Reports, AgentOf
  <1>3. Current' = Current
    BY <1>1 DEF Current
  <1>4. LogInv'
    BY <1>1 DEF ListSafe, LogInv, Before, HasData
  <1>5. rpc \in {"unlink", "drain"} => Current \in Reports
    BY CurrentProperties DEF ListSafe, Walking
  <1>6. rpc' = "unlink" => Finished(Current)'
    <2>1. rpc = "unlink" => \A r \in Reports : r = Current => Finished(r)'
      BY <1>2 DEF ListSafe, FreedInv
    <2> QED
      BY <1>1, <1>3, <1>5, <2>1 DEF Finished
  <1>7. rpc' = "drain" => /\ Current'[2] = "data" /\ HasData(AgentOf(Current'))
                          /\ "connection" \notin type'[Current']
    BY <1>1, <1>3 DEF ListSafe, FreedInv
  <1>8. \A r \in Reports : mem'[r] = "freed" => Finished(r)'
    BY <1>2 DEF ListSafe, FreedInv
  <1> QED
    BY <1>4, <1>6, <1>7, <1>8 DEF FreedInv, HasData

LEMMA ReportsOfAgents ==
    /\ \A t \in Agents, kind \in Kinds : ReportOf(t, kind) \in Reports
    /\ \A t \in Agents, kind \in Kinds :
         AgentOf(ReportOf(t, kind)) = t /\ ReportOf(t, kind)[2] = kind
    /\ \A t, u \in Agents, kind, other \in Kinds :
         ReportOf(t, kind) = ReportOf(u, other) => t = u /\ kind = other
    /\ \A r \in Reports : /\ AgentOf(r) \in Agents /\ r[2] \in Kinds
                          /\ r = ReportOf(AgentOf(r), r[2])
    /\ Kinds = {"settings", "data", "relay"}
BY DEF ReportOf, AgentOf, Reports, Kinds

LEMMA TypesOfReports ==
    /\ \A r \in Reports : TypeOfReport(r) \subseteq Parts
    /\ \A t \in Agents :
         /\ TypeOfReport(ReportOf(t, "settings")) = Wants[t] \cap {"settings"}
         /\ TypeOfReport(ReportOf(t, "data")) = Wants[t] \cap {"connection", "transfer"}
         /\ TypeOfReport(ReportOf(t, "relay")) = Wants[t] \cap {"relay"}
BY WantsAssumption DEF TypeOfReport, ReportOf, AgentOf, Reports

\* An agent that moves on, and links a report in or not.
LEMMA LinkStep ==
    ASSUME ListSafe, NEW t \in Agents, NEW place \in AgentPCs, NEW r \in Reports, NEW condition \in BOOLEAN,
           PushIf(condition, r), apc' = [apc EXCEPT ![t] = place], apc[t] # "done",
           UNCHANGED <<put, reporterVars>>,
           condition => mem[r] = "unborn" /\ \A s \in Reports : MadeAfter(s, r) => mem[s] # "linked"
    PROVE  /\ TypeOK' /\ ListInv' /\ WalkInv' /\ FreedInv' /\ LogInv'
           /\ mem' = IF condition THEN [mem EXCEPT ![r] = "linked"] ELSE mem
  <1>1. /\ type' = type /\ got' = got /\ rpc' = rpc /\ visit' = visit /\ log' = log /\ put' = put
    BY DEF reporterVars
  <1>2. TypeOK /\ BornInv /\ ListInv /\ WalkInv
    BY DEF ListSafe
  <1>3. \A s \in Reports : Passed(s) => Passed(s)'
    BY <1>1, <1>2, AgentKeepsPassed
  <1>4. mem \in [Reports -> {"unborn", "linked", "freed"}] /\ apc' \in [Agents -> AgentPCs]
    BY <1>2 DEF TypeOK
  <1>5. /\ mem' = IF condition THEN [mem EXCEPT ![r] = "linked"] ELSE mem
        /\ mem' \in [Reports -> {"unborn", "linked", "freed"}]
        /\ signalled' \in BOOLEAN
    BY <1>2, <1>4 DEF PushIf, Push, TypeOK
  <1>6. \A s \in Reports : mem'[s] = "freed" => mem[s] = "freed"
    BY <1>4, <1>5
  <1>7. \A u \in Agents : apc[u] = "done" => apc'[u] = "done"
    BY <1>2 DEF TypeOK
  <1>8. FreedInv' /\ LogInv'
    BY <1>6, <1>7, AgentKeepsRest
  <1>9. list' \in Seq(Reports) /\ ListInv' /\ WalkInv'
    <2>1. CASE condition
      <3>1. Push(r)
        BY <2>1 DEF PushIf
      <3>2. list' \in Seq(Reports) /\ ListInv'
        BY <1>2, <2>1, <3>1, PushKeepsList
      <3>3. WalkInv'
        BY <1>1, <1>2, <1>3, <3>1, PushKeepsWalk
      <3> QED
        BY <3>2, <3>3
    <2>2. CASE ~condition
      <3>1. list' = list /\ mem' = mem
        BY <2>2 DEF PushIf
      <3>2. list' \in Seq(Reports) /\ ListInv'
        BY <1>2, <3>1 DEF ListInv, TypeOK
      <3>3. WalkInv'
        <4>1. Walking' = Walking
          BY <1>1 DEF Walking
        <4> QED
          BY <1>1, <1>2, <1>3, <3>1, <4>1, StayKeepsWalk
      <3> QED
        BY <3>2, <3>3
    <2> QED
      BY <2>1, <2>2
  <1>10. TypeOK'
    BY <1>1, <1>2, <1>4, <1>5, <1>9 DEF TypeOK
  <1> QED
    BY <1>5, <1>8, <1>9, <1>10

LEMMA AgentKeepsParts ==
    ASSUME PartsInv, UNCHANGED reporterVars,
           \A u \in Agents : HasData(u) =>
               (apc'[u] \in Closed /\ got[u] = put'[u] <=> apc[u] \in Closed /\ got[u] = put[u])
    PROVE  PartsInv'
  <1>1. type' = type /\ got' = got /\ log' = log
    BY DEF reporterVars
  <1>2. \A t, part : Printed(t, part)' <=> Printed(t, part)
    BY <1>1 DEF Printed
  <1>3. \A r \in Reports :
        /\ type'[r] \subseteq TypeOfReport(r)
        /\ "transfer" \in TypeOfReport(r) => "transfer" \in type'[r]
        /\ \A part \in TypeOfReport(r) \ {"transfer"} : Printed(AgentOf(r), part)' <=> part \notin type'[r]
    BY <1>1, <1>2, Zenon DEF PartsInv
  <1>4. \A u \in Agents : HasData(u) =>
        (Printed(u, "transfer")' <=> apc'[u] \in Closed /\ got'[u] = put'[u])
    BY <1>1, <1>2 DEF PartsInv
  <1> QED
    BY <1>3, <1>4, Zenon DEF PartsInv, HasData, TypeOfReport, AgentOf

LEMMA ReportSettingsStep ==
    ASSUME ListSafe, NEW t \in Agents, ReportSettings(t)
    PROVE  ListSafe'
  <1> DEFINE r == ReportOf(t, "settings")
  <1>1. /\ apc[t] = "new" /\ apc' = [apc EXCEPT ![t] = "ready"]
        /\ PushIf("settings" \in Wants[t], r) /\ put' = put /\ got' = got
        /\ UNCHANGED <<put, reporterVars>>
    BY DEF ReportSettings, reporterVars
  <1>2. r \in Reports /\ "ready" \in AgentPCs /\ ("settings" \in Wants[t]) \in BOOLEAN
    BY ReportsOfAgents DEF AgentPCs
  <1>3. /\ mem[ReportOf(t, "settings")] = "unborn"
        /\ mem[ReportOf(t, "data")] = "unborn"
        /\ mem[ReportOf(t, "relay")] = "unborn"
    BY <1>1 DEF ListSafe, BornInv
  <1>4. \A s \in Reports : MadeAfter(s, r) => mem[s] # "linked"
    <2> SUFFICES ASSUME NEW s \in Reports, MadeAfter(s, r)
                 PROVE  s = ReportOf(t, "data")
      BY <1>3
    <2> QED
      BY ReportsOfAgents DEF MadeAfter
  <1> HIDE DEF r
  <1>5. /\ TypeOK' /\ ListInv' /\ WalkInv' /\ FreedInv' /\ LogInv'
        /\ mem' = IF "settings" \in Wants[t] THEN [mem EXCEPT ![r] = "linked"] ELSE mem
    <2>1. apc[t] # "done" /\ mem[r] = "unborn"
      BY <1>1, <1>3 DEF r
    <2> QED
      BY <1>1, <1>2, <1>4, <2>1, LinkStep
  <1>6. CountInv'
    BY <1>1 DEF ListSafe, CountInv, TypeOK, Closed, HasData
  <1>7. PartsInv'
    <2>1. \A u \in Agents : apc'[u] \in Closed <=> apc[u] \in Closed
      BY <1>1 DEF ListSafe, TypeOK, Closed
    <2> QED
      BY <1>1, <2>1, AgentKeepsParts DEF ListSafe
  <1>8. BornInv'
    <2>1. mem \in [Reports -> {"unborn", "linked", "freed"}] /\ apc \in [Agents -> AgentPCs]
      BY DEF ListSafe, TypeOK
    <2> SUFFICES ASSUME NEW u \in Agents
                 PROVE  /\ mem'[ReportOf(u, "settings")] = "unborn" <=> apc'[u] = "new" \/ "settings" \notin Wants[u]
                        /\ mem'[ReportOf(u, "data")] = "unborn" <=>
                             apc'[u] \in {"new", "ready"} \/ TypeOfReport(ReportOf(u, "data")) = {}
                        /\ mem'[ReportOf(u, "relay")] # "unborn" => apc'[u] \in {"relayed", "done"}
      BY DEF BornInv
    <2>2. /\ mem[ReportOf(u, "settings")] = "unborn" <=> apc[u] = "new" \/ "settings" \notin Wants[u]
          /\ mem[ReportOf(u, "data")] = "unborn" <=>
               apc[u] \in {"new", "ready"} \/ TypeOfReport(ReportOf(u, "data")) = {}
          /\ mem[ReportOf(u, "relay")] # "unborn" => apc[u] \in {"relayed", "done"}
      BY DEF ListSafe, BornInv
    <2>3. /\ mem'[ReportOf(u, "data")] = mem[ReportOf(u, "data")]
          /\ mem'[ReportOf(u, "relay")] = mem[ReportOf(u, "relay")]
          /\ u # t => mem'[ReportOf(u, "settings")] = mem[ReportOf(u, "settings")]
          /\ mem'[r] = IF "settings" \in Wants[t] THEN "linked" ELSE "unborn"
      <3>1. /\ ReportOf(u, "data") # r /\ ReportOf(u, "relay") # r
            /\ u # t => ReportOf(u, "settings") # r
            /\ mem[r] = "unborn"
        BY <1>3, ReportsOfAgents DEF r
      <3> QED
        BY <1>2, <1>5, <2>1, <3>1, ReportsOfAgents
    <2>4. CASE u = t
      BY <1>1, <2>1, <2>2, <2>3, <2>4 DEF r
    <2>5. CASE u # t
      BY <1>1, <2>1, <2>2, <2>3, <2>5
    <2> QED
      BY <2>4, <2>5
  <1> QED
    BY <1>5, <1>6, <1>7, <1>8 DEF ListSafe

LEMMA InitReportStep ==
    ASSUME ListSafe, NEW t \in Agents, InitReport(t)
    PROVE  ListSafe'
  <1> DEFINE r == ReportOf(t, "data")
             any == TypeOfReport(r) # {}
  <1>1. /\ apc[t] = "ready" /\ apc' = [apc EXCEPT ![t] = "running"]
        /\ PushIf(any, r) /\ put' = put /\ got' = got
        /\ UNCHANGED <<put, reporterVars>>
    BY DEF InitReport, reporterVars
  <1>2. r \in Reports /\ "running" \in AgentPCs /\ any \in BOOLEAN
    BY ReportsOfAgents DEF AgentPCs
  <1>3. /\ mem[ReportOf(t, "data")] = "unborn"
        /\ mem[ReportOf(t, "relay")] = "unborn"
    BY <1>1 DEF ListSafe, BornInv
  <1>4. \A s \in Reports : MadeAfter(s, r) => mem[s] # "linked"
    <2> SUFFICES ASSUME NEW s \in Reports, MadeAfter(s, r)
                 PROVE  s = ReportOf(t, "relay")
      BY <1>3
    <2> QED
      BY ReportsOfAgents DEF MadeAfter
  <1> HIDE DEF r
  <1>5. /\ TypeOK' /\ ListInv' /\ WalkInv' /\ FreedInv' /\ LogInv'
        /\ mem' = IF any THEN [mem EXCEPT ![r] = "linked"] ELSE mem
    <2>1. apc[t] # "done" /\ mem[r] = "unborn"
      BY <1>1, <1>3 DEF r
    <2> QED
      BY <1>1, <1>2, <1>4, <2>1, LinkStep
  <1>6. CountInv'
    BY <1>1 DEF ListSafe, CountInv, TypeOK, Closed, HasData
  <1>7. PartsInv'
    <2>1. \A u \in Agents : apc'[u] \in Closed <=> apc[u] \in Closed
      BY <1>1 DEF ListSafe, TypeOK, Closed
    <2> QED
      BY <1>1, <2>1, AgentKeepsParts DEF ListSafe
  <1>8. BornInv'
    <2>1. mem \in [Reports -> {"unborn", "linked", "freed"}] /\ apc \in [Agents -> AgentPCs]
      BY DEF ListSafe, TypeOK
    <2> SUFFICES ASSUME NEW u \in Agents
                 PROVE  /\ mem'[ReportOf(u, "settings")] = "unborn" <=> apc'[u] = "new" \/ "settings" \notin Wants[u]
                        /\ mem'[ReportOf(u, "data")] = "unborn" <=>
                             apc'[u] \in {"new", "ready"} \/ TypeOfReport(ReportOf(u, "data")) = {}
                        /\ mem'[ReportOf(u, "relay")] # "unborn" => apc'[u] \in {"relayed", "done"}
      BY DEF BornInv
    <2>2. /\ mem[ReportOf(u, "settings")] = "unborn" <=> apc[u] = "new" \/ "settings" \notin Wants[u]
          /\ mem[ReportOf(u, "data")] = "unborn" <=>
               apc[u] \in {"new", "ready"} \/ TypeOfReport(ReportOf(u, "data")) = {}
          /\ mem[ReportOf(u, "relay")] # "unborn" => apc[u] \in {"relayed", "done"}
      BY DEF ListSafe, BornInv
    <2>3. /\ mem'[ReportOf(u, "settings")] = mem[ReportOf(u, "settings")]
          /\ mem'[ReportOf(u, "relay")] = mem[ReportOf(u, "relay")]
          /\ u # t => mem'[ReportOf(u, "data")] = mem[ReportOf(u, "data")]
          /\ mem'[r] = IF any THEN "linked" ELSE "unborn"
      <3>1. /\ ReportOf(u, "settings") # r /\ ReportOf(u, "relay") # r
            /\ u # t => ReportOf(u, "data") # r
            /\ mem[r] = "unborn"
        BY <1>3, ReportsOfAgents DEF r
      <3> QED
        BY <1>2, <1>5, <2>1, <3>1, ReportsOfAgents
    <2>4. CASE u = t
      BY <1>1, <2>1, <2>2, <2>3, <2>4 DEF r
    <2>5. CASE u # t
      BY <1>1, <2>1, <2>2, <2>3, <2>5
    <2> QED
      BY <2>4, <2>5
  <1> QED
    BY <1>5, <1>6, <1>7, <1>8 DEF ListSafe

LEMMA ReportServerUDPStep ==
    ASSUME ListSafe, NEW t \in Agents, ReportServerUDP(t)
    PROVE  ListSafe'
  <1> DEFINE r == ReportOf(t, "relay")
  <1>1. /\ apc[t] = "closed" /\ apc' = [apc EXCEPT ![t] = "relayed"]
        /\ PushIf(TRUE, r) /\ put' = put /\ got' = got
        /\ UNCHANGED <<put, reporterVars>>
    BY DEF ReportServerUDP, reporterVars, PushIf
  <1>2. r \in Reports /\ "relayed" \in AgentPCs /\ TRUE \in BOOLEAN
    BY ReportsOfAgents DEF AgentPCs
  <1>3. mem[ReportOf(t, "relay")] = "unborn"
    BY <1>1 DEF ListSafe, BornInv
  <1>4. \A s \in Reports : MadeAfter(s, r) => mem[s] # "linked"
    BY ReportsOfAgents DEF MadeAfter
  <1> HIDE DEF r
  <1>5. /\ TypeOK' /\ ListInv' /\ WalkInv' /\ FreedInv' /\ LogInv'
        /\ mem' = [mem EXCEPT ![r] = "linked"]
    <2>1. apc[t] # "done" /\ mem[r] = "unborn"
      BY <1>1, <1>3 DEF r
    <2> QED
      BY <1>1, <1>2, <1>4, <2>1, LinkStep
  <1>6. CountInv'
    BY <1>1 DEF ListSafe, CountInv, TypeOK, Closed, HasData
  <1>7. PartsInv'
    <2>1. \A u \in Agents : apc'[u] \in Closed <=> apc[u] \in Closed
      BY <1>1 DEF ListSafe, TypeOK, Closed
    <2> QED
      BY <1>1, <2>1, AgentKeepsParts DEF ListSafe
  <1>8. BornInv'
    <2>1. mem \in [Reports -> {"unborn", "linked", "freed"}] /\ apc \in [Agents -> AgentPCs]
      BY DEF ListSafe, TypeOK
    <2> SUFFICES ASSUME NEW u \in Agents
                 PROVE  /\ mem'[ReportOf(u, "settings")] = "unborn" <=> apc'[u] = "new" \/ "settings" \notin Wants[u]
                        /\ mem'[ReportOf(u, "data")] = "unborn" <=>
                             apc'[u] \in {"new", "ready"} \/ TypeOfReport(ReportOf(u, "data")) = {}
                        /\ mem'[ReportOf(u, "relay")] # "unborn" => apc'[u] \in {"relayed", "done"}
      BY DEF BornInv
    <2>2. /\ mem[ReportOf(u, "settings")] = "unborn" <=> apc[u] = "new" \/ "settings" \notin Wants[u]
          /\ mem[ReportOf(u, "data")] = "unborn" <=>
               apc[u] \in {"new", "ready"} \/ TypeOfReport(ReportOf(u, "data")) = {}
          /\ mem[ReportOf(u, "relay")] # "unborn" => apc[u] \in {"relayed", "done"}
      BY DEF ListSafe, BornInv
    <2>3. /\ mem'[ReportOf(u, "settings")] = mem[ReportOf(u, "settings")]
          /\ mem'[ReportOf(u, "data")] = mem[ReportOf(u, "data")]
          /\ u # t => mem'[ReportOf(u, "relay")] = mem[ReportOf(u, "relay")]
      <3>1. /\ ReportOf(u, "settings") # r /\ ReportOf(u, "data") # r
            /\ u # t => ReportOf(u, "relay") # r
        BY ReportsOfAgents DEF r
      <3> QED
        BY <1>2, <1>5, <2>1, <3>1, ReportsOfAgents
    <2>4. CASE u = t
      BY <1>1, <2>1, <2>2, <2>3, <2>4
    <2>5. CASE u # t
      BY <1>1, <2>1, <2>2, <2>3, <2>5
    <2> QED
      BY <2>4, <2>5
  <1> QED
    BY <1>5, <1>6, <1>7, <1>8 DEF ListSafe

\* An agent that puts packets, closes or ends.
LEMMA QuietStep ==
    ASSUME ListSafe, NEW t \in Agents, NEW place \in AgentPCs, apc' = [apc EXCEPT ![t] = place],
           put' \in [Agents -> 0 .. MaxPackets], signalled' \in BOOLEAN,
           UNCHANGED <<list, mem, reporterVars>>, apc[t] # "done",
           \A u \in Agents : u # t \/ apc[u] # "running" => put'[u] = put[u]
    PROVE  TypeOK' /\ ListInv' /\ WalkInv' /\ FreedInv' /\ LogInv'
  <1>1. /\ list' = list /\ mem' = mem /\ UNCHANGED reporterVars
        /\ type' = type /\ got' = got /\ rpc' = rpc /\ visit' = visit /\ log' = log
    BY DEF reporterVars
  <1>2. TypeOK /\ BornInv /\ ListInv /\ WalkInv
    BY DEF ListSafe
  <1>3. \A s \in Reports : Passed(s) => Passed(s)'
    BY <1>1, <1>2, AgentKeepsPassed
  <1>4. TypeOK' /\ ListInv'
    BY <1>1, <1>2 DEF TypeOK, ListInv
  <1>5. WalkInv'
    <2>1. Walking' = Walking
      BY <1>1 DEF Walking
    <2> QED
      BY <1>1, <1>2, <1>3, <2>1, StayKeepsWalk
  <1>6. FreedInv' /\ LogInv'
    <2>1. \A u \in Agents : apc[u] = "done" => apc'[u] = "done"
      BY <1>2 DEF TypeOK
    <2> QED
      BY <1>1, <2>1, AgentKeepsRest
  <1> QED
    BY <1>4, <1>5, <1>6

LEMMA ReportPacketStep ==
    ASSUME ListSafe, NEW t \in Agents, ReportPacket(t)
    PROVE  ListSafe'
  <1>1. /\ apc[t] = "running" /\ HasData(t) /\ put[t] < MaxPackets - 1 /\ apc' = apc
        /\ \/ put' = [put EXCEPT ![t] = @ + 1] /\ signalled' = signalled
           \/ signalled' = TRUE /\ put' = put
        /\ UNCHANGED <<list, mem, reporterVars>>
    BY DEF ReportPacket
  <1>2. /\ apc \in [Agents -> AgentPCs] /\ put \in [Agents -> 0 .. MaxPackets]
        /\ got \in [Agents -> 0 .. MaxPackets] /\ MaxPackets \in Nat /\ signalled \in BOOLEAN
    BY MaxPacketsAssumption DEF ListSafe, TypeOK
  <1>3. /\ put' \in [Agents -> 0 .. MaxPackets] /\ signalled' \in BOOLEAN
        /\ \A u \in Agents : /\ put[u] <= put'[u]
                             /\ u # t => put'[u] = put[u]
        /\ put'[t] <= MaxPackets - 1
    <2>1. CASE put' = [put EXCEPT ![t] = @ + 1] /\ signalled' = signalled
      <3>1. put[t] + 1 \in 0 .. MaxPackets /\ put[t] + 1 <= MaxPackets - 1
        BY <1>1, <1>2
      <3>2. /\ put' \in [Agents -> 0 .. MaxPackets] /\ put'[t] = put[t] + 1
            /\ \A u \in Agents : u # t => put'[u] = put[u]
        BY <1>2, <2>1, <3>1
      <3>3. \A u \in Agents : put[u] <= put'[u]
        BY <1>2, <3>2
      <3> QED
        BY <1>2, <2>1, <3>1, <3>2, <3>3
    <2>2. CASE signalled' = TRUE /\ put' = put
      BY <1>1, <1>2, <2>2
    <2> QED
      BY <1>1, <2>1, <2>2
  <1>4. mem' = mem /\ got' = got
    BY <1>1 DEF reporterVars
  <1>5. TypeOK' /\ ListInv' /\ WalkInv' /\ FreedInv' /\ LogInv'
    <2>1. apc' = [apc EXCEPT ![t] = "running"] /\ "running" \in AgentPCs /\ apc[t] # "done"
      BY <1>1, <1>2
    <2>2. \A u \in Agents : u # t \/ apc[u] # "running" => put'[u] = put[u]
      BY <1>1, <1>3
    <2> QED
      BY <1>1, <1>3, <2>1, <2>2, QuietStep
  <1>6. CountInv'
    <2> SUFFICES ASSUME NEW u \in Agents
                 PROVE  /\ got[u] <= put'[u]
                        /\ apc[u] \notin Closed => put'[u] <= MaxPackets - 1
                        /\ apc[u] = "done" /\ HasData(u) => got[u] = put'[u]
      BY <1>1, <1>4, Zenon DEF CountInv, HasData
    <2>1. /\ got[u] <= put[u]
          /\ apc[u] \notin Closed => put[u] <= MaxPackets - 1
          /\ apc[u] = "done" /\ HasData(u) => got[u] = put[u]
      BY DEF ListSafe, CountInv
    <2>2. CASE u = t
      BY <1>1, <1>2, <1>3, <2>1, <2>2
    <2>3. CASE u # t
      BY <1>3, <2>1, <2>3
    <2> QED
      BY <2>2, <2>3
  <1>7. PartsInv'
    <2>1. apc[t] \notin Closed
      BY <1>1 DEF Closed
    <2>2. \A u \in Agents : apc'[u] \in Closed /\ got[u] = put'[u] <=> apc[u] \in Closed /\ got[u] = put[u]
      BY <1>1, <1>3, <2>1
    <2>3. PartsInv /\ UNCHANGED reporterVars
      BY <1>1 DEF ListSafe
    <2> QED
      BY <2>2, <2>3, AgentKeepsParts
  <1>8. BornInv'
    BY <1>1, <1>4 DEF ListSafe, BornInv, TypeOfReport, ReportOf, AgentOf
  <1> QED
    BY <1>5, <1>6, <1>7, <1>8 DEF ListSafe

LEMMA CloseReportStep ==
    ASSUME ListSafe, NEW t \in Agents, CloseReport(t)
    PROVE  ListSafe'
  <1>1. /\ apc[t] = "running" /\ apc' = [apc EXCEPT ![t] = "closed"]
        /\ put' = IF HasData(t) THEN [put EXCEPT ![t] = @ + 1] ELSE put
        /\ UNCHANGED <<list, mem, signalled, reporterVars>>
    BY DEF CloseReport
  <1>2. /\ apc \in [Agents -> AgentPCs] /\ put \in [Agents -> 0 .. MaxPackets]
        /\ got \in [Agents -> 0 .. MaxPackets] /\ MaxPackets \in Nat /\ signalled \in BOOLEAN
    BY MaxPacketsAssumption DEF ListSafe, TypeOK
  <1>3. got[t] <= put[t] /\ put[t] <= MaxPackets - 1
    BY <1>1 DEF ListSafe, CountInv, Closed
  <1>4. /\ put' \in [Agents -> 0 .. MaxPackets] /\ signalled' \in BOOLEAN
        /\ \A u \in Agents : u # t => put'[u] = put[u]
        /\ got[t] <= put'[t]
        /\ HasData(t) => got[t] # put'[t]
    BY <1>1, <1>2, <1>3
  <1>5. mem' = mem /\ got' = got
    BY <1>1 DEF reporterVars
  <1>6. TypeOK' /\ ListInv' /\ WalkInv' /\ FreedInv' /\ LogInv'
    <2>1. "closed" \in AgentPCs /\ apc[t] # "done"
      BY <1>1 DEF AgentPCs
    <2>2. \A u \in Agents : u # t \/ apc[u] # "running" => put'[u] = put[u]
      BY <1>1, <1>4
    <2> QED
      BY <1>1, <1>4, <2>1, <2>2, QuietStep
  <1>7. CountInv'
    <2> SUFFICES ASSUME NEW u \in Agents
                 PROVE  /\ got[u] <= put'[u]
                        /\ apc'[u] \notin Closed => put'[u] <= MaxPackets - 1
                        /\ apc'[u] = "done" /\ HasData(u) => got[u] = put'[u]
      BY <1>5, Zenon DEF CountInv, HasData
    <2>1. /\ got[u] <= put[u]
          /\ apc[u] \notin Closed => put[u] <= MaxPackets - 1
          /\ apc[u] = "done" /\ HasData(u) => got[u] = put[u]
      BY DEF ListSafe, CountInv
    <2>2. CASE u = t
      BY <1>1, <1>2, <1>4, <2>2 DEF Closed
    <2>3. CASE u # t
      BY <1>1, <1>2, <1>4, <2>1, <2>3
    <2> QED
      BY <2>2, <2>3
  <1>8. PartsInv'
    <2>1. apc[t] \notin Closed
      BY <1>1 DEF Closed
    <2>2. \A u \in Agents : HasData(u) =>
            (apc'[u] \in Closed /\ got[u] = put'[u] <=> apc[u] \in Closed /\ got[u] = put[u])
      BY <1>1, <1>2, <1>4, <2>1
    <2>3. PartsInv /\ UNCHANGED reporterVars
      BY <1>1 DEF ListSafe
    <2> QED
      BY <2>2, <2>3, AgentKeepsParts
  <1>9. BornInv'
    <2> SUFFICES ASSUME NEW u \in Agents
                 PROVE  /\ mem[ReportOf(u, "settings")] = "unborn" <=> apc'[u] = "new" \/ "settings" \notin Wants[u]
                        /\ mem[ReportOf(u, "data")] = "unborn" <=>
                             apc'[u] \in {"new", "ready"} \/ TypeOfReport(ReportOf(u, "data")) = {}
                        /\ mem[ReportOf(u, "relay")] # "unborn" => apc'[u] \in {"relayed", "done"}
      BY <1>5 DEF BornInv
    <2>1. /\ mem[ReportOf(u, "settings")] = "unborn" <=> apc[u] = "new" \/ "settings" \notin Wants[u]
          /\ mem[ReportOf(u, "data")] = "unborn" <=>
               apc[u] \in {"new", "ready"} \/ TypeOfReport(ReportOf(u, "data")) = {}
          /\ mem[ReportOf(u, "relay")] # "unborn" => apc[u] \in {"relayed", "done"}
      BY DEF ListSafe, BornInv
    <2> QED
      BY <1>1, <1>2, <2>1
  <1> QED
    BY <1>6, <1>7, <1>8, <1>9 DEF ListSafe

LEMMA EndReportStep ==
    ASSUME ListSafe, NEW t \in Agents, EndReport(t)
    PROVE  ListSafe'
  <1>1. /\ apc[t] \in {"closed", "relayed"} /\ apc' = [apc EXCEPT ![t] = "done"]
        /\ HasData(t) => got[t] = put[t]
        /\ put' = put /\ UNCHANGED <<list, mem, signalled, reporterVars>>
    BY DEF EndReport, Drained
  <1>2. /\ apc \in [Agents -> AgentPCs] /\ put \in [Agents -> 0 .. MaxPackets]
        /\ got \in [Agents -> 0 .. MaxPackets] /\ signalled \in BOOLEAN
    BY DEF ListSafe, TypeOK
  <1>3. mem' = mem /\ got' = got
    BY <1>1 DEF reporterVars
  <1>4. TypeOK' /\ ListInv' /\ WalkInv' /\ FreedInv' /\ LogInv'
    <2>1. "done" \in AgentPCs /\ apc[t] # "done" /\ signalled' \in BOOLEAN /\ put' \in [Agents -> 0 .. MaxPackets]
      BY <1>1, <1>2 DEF AgentPCs
    <2> QED
      BY <1>1, <2>1, QuietStep
  <1>5. CountInv'
    BY <1>1, <1>2, <1>3 DEF ListSafe, CountInv, HasData, Closed
  <1>6. PartsInv'
    <2>1. \A u \in Agents : apc'[u] \in Closed <=> apc[u] \in Closed
      BY <1>1, <1>2 DEF Closed
    <2>2. PartsInv /\ UNCHANGED reporterVars /\ put' = put
      BY <1>1 DEF ListSafe
    <2> QED
      BY <2>1, <2>2, AgentKeepsParts
  <1>7. BornInv'
    <2> SUFFICES ASSUME NEW u \in Agents
                 PROVE  /\ mem[ReportOf(u, "settings")] = "unborn" <=> apc'[u] = "new" \/ "settings" \notin Wants[u]
                        /\ mem[ReportOf(u, "data")] = "unborn" <=>
                             apc'[u] \in {"new", "ready"} \/ TypeOfReport(ReportOf(u, "data")) = {}
                        /\ mem[ReportOf(u, "relay")] # "unborn" => apc'[u] \in {"relayed", "done"}
      BY <1>3 DEF BornInv
    <2>1. /\ mem[ReportOf(u, "settings")] = "unborn" <=> apc[u] = "new" \/ "settings" \notin Wants[u]
          /\ mem[ReportOf(u, "data")] = "unborn" <=>
               apc[u] \in {"new", "ready"} \/ TypeOfReport(ReportOf(u, "data")) = {}
          /\ mem[ReportOf(u, "relay")] # "unborn" => apc[u] \in {"relayed", "done"}
      BY DEF ListSafe, BornInv
    <2> QED
      BY <1>1, <1>2, <2>1
  <1> QED
    BY <1>4, <1>5, <1>6, <1>7 DEF ListSafe

-----------------------------------------------------------------------------
(* The steps of the reporter.                                              *)

\* The settings of an agent are printed before the reporter sees its data.
LEMMA SettingsPrintedFirst ==
    ASSUME ListSafe, Walking, Current[2] = "data", "settings" \in Wants[AgentOf(Current)]
    PROVE  Printed(AgentOf(Current), "settings")
  <1> DEFINE t == AgentOf(Current)
             s == ReportOf(t, "settings")
  <1>1. TypeOK /\ BornInv /\ ListInv /\ FreedInv /\ PartsInv
    BY DEF ListSafe
  <1>2. Current \in Reports /\ mem[Current] = "linked"
    BY CurrentProperties DEF ListSafe
  <1>3. PICK i \in 0 .. Len(list) : \E j \in i + 1 .. Len(list) :
                Stretch(i, j) /\ j \in DOMAIN list /\ Current = list[j]
    BY CurrentProperties DEF ListSafe
  <1>4. PICK j \in i + 1 .. Len(list) : Stretch(i, j) /\ j \in DOMAIN list /\ Current = list[j]
    BY <1>3
  <1>5. t \in Agents /\ s \in Reports /\ Current = ReportOf(t, "data") /\ MadeAfter(Current, s)
        /\ AgentOf(s) = t /\ s[2] = "settings"
    BY <1>2, ReportsOfAgents DEF MadeAfter
  <1>6. mem[s] # "unborn"
    BY <1>1, <1>2, <1>5 DEF BornInv
  <1>7. mem[s] # "linked"
    <2> SUFFICES ASSUME mem[s] = "linked"
                 PROVE  FALSE
      OBVIOUS
    <2>1. PICK b \in DOMAIN list : list[b] = s
      BY <1>1, <1>5 DEF ListInv
    <2>2. j < b
      BY <1>1, <1>4, <1>5, <2>1 DEF ListInv
    <2>3. b \in j + 1 .. Len(list)
      BY <1>1, <2>2 DEF TypeOK
    <2>4. Passed(list[b])
      BY <1>4, <2>3 DEF Stretch
    <2> QED
      BY <1>5, <2>1, <2>4 DEF Passed
  <1>8. type[s] \subseteq {"transfer"}
    BY <1>1, <1>5, <1>6, <1>7 DEF FreedInv, Finished, TypeOK
  <1>9. "settings" \in TypeOfReport(s) \ {"transfer"}
    BY <1>5, TypesOfReports
  <1>10. Printed(AgentOf(s), "settings") <=> "settings" \notin type[s]
    BY <1>1, <1>5, <1>9 DEF PartsInv
  <1> QED
    BY <1>5, <1>8, <1>10

\* The connection and the transfer are printed before the relayed report.
LEMMA DataPrintedFirst ==
    ASSUME ListSafe, Walking, Current[2] = "relay"
    PROVE  /\ "connection" \in Wants[AgentOf(Current)] => Printed(AgentOf(Current), "connection")
           /\ HasData(AgentOf(Current)) => Printed(AgentOf(Current), "transfer")
  <1> DEFINE t == AgentOf(Current)
             d == ReportOf(t, "data")
  <1>1. TypeOK /\ CountInv /\ BornInv /\ ListInv /\ WalkInv /\ FreedInv /\ PartsInv
    BY DEF ListSafe
  <1>2. Current \in Reports /\ mem[Current] = "linked"
    BY CurrentProperties DEF ListSafe
  <1>3. PICK i \in 0 .. Len(list) : \E j \in i + 1 .. Len(list) :
                Stretch(i, j) /\ j \in DOMAIN list /\ Current = list[j]
    BY CurrentProperties DEF ListSafe
  <1>4. PICK j \in i + 1 .. Len(list) : Stretch(i, j) /\ j \in DOMAIN list /\ Current = list[j]
    BY <1>3
  <1>5. t \in Agents /\ d \in Reports /\ Current = ReportOf(t, "relay") /\ MadeAfter(Current, d)
        /\ AgentOf(d) = t /\ d[2] = "data"
    BY <1>2, ReportsOfAgents DEF MadeAfter
  <1>6. apc[t] \in {"relayed", "done"}
    BY <1>1, <1>2, <1>5 DEF BornInv
  <1>7. TypeOfReport(d) # {} => mem[d] # "unborn"
    BY <1>1, <1>5, <1>6 DEF BornInv
  <1>8. \E a \in DOMAIN visit : visit[a] = ReportOf(AgentOf(d), "relay")
    <2>1. visit \in Seq(Reports) /\ visit # <<>>
      BY <1>1 DEF TypeOK, WalkInv
    <2>2. Last(visit) = visit[Len(visit)] /\ Len(visit) \in Nat \ {0}
      BY <2>1, FrontProperties
    <2>3. Len(visit) \in DOMAIN visit /\ Current = visit[Len(visit)]
      BY <2>1, <2>2 DEF Current
    <2> QED
      BY <1>5, <2>3
  <1>9. mem[d] = "linked" => Passed(d)
    <2> SUFFICES ASSUME mem[d] = "linked"
                 PROVE  Passed(d)
      OBVIOUS
    <2>1. PICK b \in DOMAIN list : list[b] = d
      BY <1>1, <1>5 DEF ListInv
    <2>2. j < b
      BY <1>1, <1>4, <1>5, <2>1 DEF ListInv
    <2>3. b \in j + 1 .. Len(list)
      BY <1>1, <2>2 DEF TypeOK
    <2>4. Passed(list[b])
      BY <1>4, <2>3 DEF Stretch
    <2> QED
      BY <2>1, <2>4
  <1> HIDE DEF t, d
  <1>10. TypeOfReport(d) # {} => /\ "connection" \notin type[d]
                                 /\ HasData(t) => got[t] = put[t]
    <2> SUFFICES ASSUME TypeOfReport(d) # {}
                 PROVE  /\ "connection" \notin type[d]
                        /\ HasData(t) => got[t] = put[t]
      OBVIOUS
    <2>1. mem[d] \in {"linked", "freed"}
      BY <1>1, <1>5, <1>7 DEF TypeOK
    <2>2. CASE mem[d] = "linked"
      BY <1>5, <1>8, <1>9, <2>2 DEF Passed
    <2>3. CASE mem[d] = "freed"
      <3>1. Finished(d)
        BY <1>1, <1>5, <2>3 DEF FreedInv
      <3>2. type[d] \subseteq {"transfer"} /\ apc[t] = "done"
        BY <1>5, <3>1 DEF Finished
      <3> QED
        BY <1>1, <1>5, <3>2 DEF CountInv
    <2> QED
      BY <2>1, <2>2, <2>3
  <1>11. /\ "connection" \in Wants[t] => "connection" \in TypeOfReport(d) \ {"transfer"}
         /\ HasData(t) => TypeOfReport(d) # {}
    BY <1>5, TypesOfReports DEF d, HasData
  <1>12. ASSUME "connection" \in Wants[t]
         PROVE  Printed(t, "connection")
    <2>1. "connection" \in TypeOfReport(d) \ {"transfer"} /\ "connection" \notin type[d]
      BY <1>10, <1>11, <1>12
    <2>2. Printed(AgentOf(d), "connection") <=> "connection" \notin type[d]
      BY <1>1, <1>5, <2>1 DEF PartsInv
    <2> QED
      BY <1>5, <2>1, <2>2
  <1>13. ASSUME HasData(t)
         PROVE  Printed(t, "transfer")
    <2>1. got[t] = put[t] /\ apc[t] \in Closed
      BY <1>6, <1>10, <1>11, <1>13 DEF Closed
    <2> QED
      BY <1>1, <1>5, <1>13, <2>1 DEF PartsInv
  <1> QED
    BY <1>12, <1>13 DEF t

\* Steps that print nothing and move no counter.
LEMMA NothingPrinted ==
    ASSUME ListSafe, UNCHANGED <<type, log, got, put, apc>>
    PROVE  PartsInv' /\ LogInv'
  <1>1. PartsInv /\ LogInv
    BY DEF ListSafe
  <1>2. \A t, part : Printed(t, part)' <=> Printed(t, part)
    BY DEF Printed
  <1>3. LogInv'
    BY <1>1 DEF LogInv, Before, HasData
  <1>4. \A r \in Reports :
          /\ type'[r] \subseteq TypeOfReport(r)
          /\ "transfer" \in TypeOfReport(r) => "transfer" \in type'[r]
          /\ \A part \in TypeOfReport(r) \ {"transfer"} : Printed(AgentOf(r), part)' <=> part \notin type'[r]
    BY <1>1, <1>2, Zenon DEF PartsInv
  <1>5. \A u \in Agents : HasData(u) =>
          (Printed(u, "transfer")' <=> apc'[u] \in Closed /\ got'[u] = put'[u])
    BY <1>1, <1>2 DEF PartsInv
  <1> QED
    BY <1>3, <1>4, <1>5, Zenon DEF PartsInv, HasData, TypeOfReport, AgentOf

\* A report that is done with keeps everything but the log in order.
LEMMA LeaveFinishedStep ==
    ASSUME ListSafe, rpc \in {"visit", "drain"}, LeaveFinished, UNCHANGED <<agentVars, signalled, got>>,
           type' \in [Reports -> SUBSET Parts], log' \in Seq(Agents \X Parts),
           \A r \in Reports : type'[r] \subseteq type[r],
           type'[Current] \subseteq {"transfer"},
           Current[2] = "data" => apc[AgentOf(Current)] = "done",
           PartsInv', LogInv'
    PROVE  ListSafe'
  <1>1. TypeOK /\ CountInv /\ BornInv /\ ListInv /\ WalkInv /\ FreedInv /\ Walking
        /\ put' = put /\ apc' = apc /\ got' = got /\ signalled' = signalled
    BY DEF ListSafe, Walking, agentVars
  <1>2. Current \in Reports /\ mem[Current] = "linked"
    BY <1>1, CurrentProperties
  <1>3. \A s \in Reports : Passed(s) => Passed(s)'
    <2> SUFFICES ASSUME NEW s \in Reports, Passed(s)
                 PROVE  Passed(s)'
      OBVIOUS
    <2>1. \A a \in DOMAIN visit' : \E b \in DOMAIN visit : visit'[a] = visit[b]
      <3>1. visit' = Front(visit) \/ visit' = visit
        BY DEF LeaveFinished
      <3> QED
        BY <1>1, <3>1, FrontOfVisit
    <2> QED
      BY <1>1, <2>1, PassedKept
  <1>4. /\ list' \in Seq(Reports) /\ visit' \in Seq(Reports)
        /\ ListInv' /\ WalkInv'
        /\ \/ rpc' = "visit" /\ mem' = [mem EXCEPT ![Current] = "freed"]
           \/ rpc' = "unlink" /\ UNCHANGED <<list, mem, visit>>
    BY <1>1, <1>3, LeaveFinishedKeepsWalk
  <1>5. TypeOK'
    <2>1. mem' \in [Reports -> {"unborn", "linked", "freed"}]
      BY <1>1, <1>4 DEF TypeOK
    <2>2. rpc' \in ReporterPCs
      BY <1>4 DEF ReporterPCs
    <2> QED
      BY <1>1, <1>4, <2>1, <2>2 DEF TypeOK
  <1>6. CountInv'
    BY <1>1 DEF CountInv, HasData
  <1>7. \A s \in Reports : mem'[s] = "unborn" <=> mem[s] = "unborn"
    BY <1>1, <1>2, <1>4 DEF TypeOK
  <1>8. BornInv'
    <2>1. \A t \in Agents, kind \in Kinds :
            mem'[ReportOf(t, kind)] = "unborn" <=> mem[ReportOf(t, kind)] = "unborn"
      BY <1>7, ReportsOfAgents
    <2> QED
      BY <1>1, <2>1, ReportsOfAgents DEF BornInv
  <1>9. \A s \in Reports : Finished(s) \/ s = Current => Finished(s)'
    BY <1>1 DEF Finished
  <1>10. FreedInv'
    <2>1. ASSUME NEW s \in Reports, mem'[s] = "freed"
          PROVE  Finished(s)'
      <3>1. mem[s] = "freed" \/ s = Current
        BY <1>1, <1>4, <2>1 DEF TypeOK
      <3> QED
        BY <1>1, <1>9, <3>1 DEF FreedInv
    <2>2. ASSUME rpc' = "unlink"
          PROVE  Finished(Current)'
      <3>1. visit' = visit
        BY <1>4, <2>2
      <3>2. PICK s \in Reports : s = Current
        BY <1>2
      <3>3. Finished(s)' /\ Current' = s
        BY <1>9, <3>1, <3>2 DEF Current
      <3> QED
        BY <3>3 DEF Finished
    <2>3. rpc' # "drain"
      BY <1>4
    <2> QED
      BY <2>1, <2>2, <2>3 DEF FreedInv
  <1> QED
    BY <1>4, <1>5, <1>6, <1>8, <1>10 DEF ListSafe

\* A data report the walk leaves behind linked.
LEMMA LeaveLinkedStep ==
    ASSUME ListSafe, rpc \in {"visit", "drain"}, LeaveLinked, UNCHANGED <<agentVars, signalled, got>>,
           type' \in [Reports -> SUBSET Parts], log' \in Seq(Agents \X Parts),
           \A r \in Reports : type'[r] \subseteq type[r],
           Current[2] = "data", "connection" \notin type'[Current],
           HasData(AgentOf(Current)) => got[AgentOf(Current)] = put[AgentOf(Current)],
           PartsInv', LogInv'
    PROVE  ListSafe'
  <1>1. TypeOK /\ CountInv /\ BornInv /\ ListInv /\ WalkInv /\ FreedInv /\ Walking
        /\ put' = put /\ apc' = apc /\ got' = got /\ signalled' = signalled
    BY DEF ListSafe, Walking, agentVars
  <1>2. /\ visit' = Front(visit) /\ rpc' \in {"visit", "nap"} /\ list' = list /\ mem' = mem
    BY DEF LeaveLinked
  <1>3. \A s \in Reports : Passed(s) \/ s = Current => Passed(s)'
    <2> SUFFICES ASSUME NEW s \in Reports, Passed(s) \/ s = Current
                 PROVE  Passed(s)'
      OBVIOUS
    <2>1. CASE Passed(s)
      <3>1. \A a \in DOMAIN visit' : \E b \in DOMAIN visit : visit'[a] = visit[b]
        BY <1>1, <1>2, FrontOfVisit
      <3> QED
        BY <1>1, <2>1, <3>1, PassedKept
    <2>2. CASE s = Current
      BY <1>1, <2>2 DEF Passed, HasData
    <2> QED
      BY <2>1, <2>2
  <1>4. visit' \in Seq(Reports) /\ WalkInv'
    BY <1>1, <1>3, LeaveLinkedKeepsWalk
  <1>5. TypeOK'
    BY <1>1, <1>2, <1>4 DEF TypeOK, ReporterPCs
  <1>6. CountInv' /\ ListInv'
    BY <1>1, <1>2 DEF CountInv, HasData, ListInv
  <1>7. BornInv'
    BY <1>1, <1>2 DEF BornInv, TypeOfReport, ReportOf, AgentOf
  <1>8. FreedInv'
    <2>1. \A s \in Reports : Finished(s) => Finished(s)'
      BY <1>1 DEF Finished
    <2> QED
      BY <1>1, <1>2, <2>1 DEF FreedInv
  <1> QED
    BY <1>4, <1>5, <1>6, <1>7, <1>8 DEF ListSafe

\* The reporter goes from the head of a data report to its packets.
LEMMA ToDrainStep ==
    ASSUME ListSafe, rpc = "visit", rpc' = "drain", UNCHANGED <<list, mem, visit, agentVars, signalled, got>>,
           type' \in [Reports -> SUBSET Parts], log' \in Seq(Agents \X Parts),
           \A r \in Reports : type'[r] \subseteq type[r],
           Current[2] = "data", "connection" \notin type'[Current], HasData(AgentOf(Current)),
           PartsInv', LogInv'
    PROVE  ListSafe'
  <1>1. TypeOK /\ CountInv /\ BornInv /\ ListInv /\ WalkInv /\ FreedInv
        /\ put' = put /\ apc' = apc /\ got' = got /\ signalled' = signalled
        /\ list' = list /\ mem' = mem /\ visit' = visit
    BY DEF ListSafe, agentVars
  <1>2. \A s \in Reports : Passed(s) => Passed(s)'
    <2>1. \A a \in DOMAIN visit' : \E b \in DOMAIN visit : visit'[a] = visit[b]
      BY <1>1
    <2> QED
      BY <1>1, <2>1, PassedKept
  <1>3. WalkInv'
    <2>1. Walking' = Walking
      BY DEF Walking
    <2> QED
      BY <1>1, <1>2, <2>1, StayKeepsWalk
  <1>4. TypeOK' /\ CountInv' /\ ListInv'
    BY <1>1 DEF TypeOK, ReporterPCs, CountInv, HasData, ListInv
  <1>5. BornInv'
    BY <1>1 DEF BornInv, TypeOfReport, ReportOf, AgentOf
  <1>6. FreedInv'
    <2>1. \A s \in Reports : Finished(s) => Finished(s)'
      BY <1>1 DEF Finished
    <2>2. Current' = Current
      BY <1>1 DEF Current
    <2> QED
      BY <1>1, <2>1, <2>2 DEF FreedInv, HasData
  <1> QED
    BY <1>3, <1>4, <1>5, <1>6 DEF ListSafe

LEMMA VisitWholeStep ==
    ASSUME ListSafe, VisitWhole
    PROVE  ListSafe'
  <1>1. /\ rpc = "visit" /\ LeaveFinished /\ UNCHANGED <<agentVars, signalled, got>>
        /\ apc' = apc /\ put' = put /\ got' = got
    BY DEF VisitWhole, agentVars
  <1>2. PICK part \in {"settings", "relay"} \cap type[Current] : PrintPart(part)
    BY DEF VisitWhole
  <1>3. Walking /\ TypeOK /\ PartsInv /\ LogInv /\ Current \in Reports
    BY <1>1, CurrentProperties DEF ListSafe, Walking
  <1>4. part \in type[Current] \ {"transfer"} /\ type[Current] \subseteq TypeOfReport(Current)
    BY <1>2, <1>3 DEF PartsInv
  <1>5. /\ log' = Append(log, <<AgentOf(Current), part>>)
        /\ AgentOf(Current) \in Agents /\ part \in Parts
        /\ type' \in [Reports -> SUBSET Parts] /\ log' \in Seq(Agents \X Parts)
        /\ type' = [type EXCEPT ![Current] = @ \ {part}]
        /\ \A r \in Reports : type'[r] \subseteq type[r]
        /\ ~Printed(AgentOf(Current), part)
        /\ PartsInv'
    BY <1>1, <1>2, <1>3, <1>4, PrintPartKeepsParts
  <1>6. Current[2] = part /\ type'[Current] \subseteq {"transfer"}
    <2>1. Current[2] = part /\ TypeOfReport(Current) \subseteq {part}
      BY <1>2, <1>4 DEF TypeOfReport
    <2> QED
      BY <1>3, <1>4, <1>5, <2>1 DEF TypeOK
  <1>7. LogInv'
    <2>1. part \in {"settings", "relay"}
      BY <1>2
    <2>2. part = "relay" =>
            /\ "connection" \in Wants[AgentOf(Current)] => Printed(AgentOf(Current), "connection")
            /\ HasData(AgentOf(Current)) => Printed(AgentOf(Current), "transfer")
      BY <1>3, <1>6, DataPrintedFirst
    <2> QED
      BY <1>3, <1>5, <2>1, <2>2, PrintKeepsOrder
  <1>8. Current[2] # "data"
    BY <1>2, <1>6
  <1> QED
    BY <1>1, <1>5, <1>6, <1>7, <1>8, LeaveFinishedStep

LEMMA VisitConnectionStep ==
    ASSUME ListSafe, VisitConnection
    PROVE  ListSafe'
  <1>1. /\ rpc = "visit" /\ UNCHANGED <<agentVars, signalled, got>>
        /\ apc' = apc /\ put' = put /\ got' = got
        /\ "connection" \in type[Current] /\ PrintPart("connection")
    BY DEF VisitConnection, agentVars
  <1>2. Walking /\ TypeOK /\ PartsInv /\ LogInv /\ Current \in Reports
    BY <1>1, CurrentProperties DEF ListSafe, Walking
  <1>3. type[Current] \subseteq TypeOfReport(Current)
        /\ ("transfer" \in TypeOfReport(Current) => "transfer" \in type[Current])
    BY <1>2 DEF PartsInv
  <1>4. /\ log' = Append(log, <<AgentOf(Current), "connection">>)
        /\ AgentOf(Current) \in Agents /\ "connection" \in Parts
        /\ type' \in [Reports -> SUBSET Parts] /\ log' \in Seq(Agents \X Parts)
        /\ type' = [type EXCEPT ![Current] = @ \ {"connection"}]
        /\ \A r \in Reports : type'[r] \subseteq type[r]
        /\ ~Printed(AgentOf(Current), "connection")
        /\ PartsInv'
    <2>1. "connection" \in type[Current] \ {"transfer"}
      BY <1>1
    <2> QED
      BY <1>1, <1>2, <2>1, PrintPartKeepsParts
  <1>5. Current[2] = "data" /\ "connection" \notin type'[Current]
    <2>1. Current[2] \in Kinds
      BY <1>2, ReportsOfAgents
    <2> QED
      BY <1>1, <1>2, <1>3, <1>4, <2>1 DEF TypeOfReport, Kinds, TypeOK
  <1>6. HasData(AgentOf(Current)) <=> "transfer" \in type[Current]
    BY <1>3, <1>5 DEF HasData, TypeOfReport
  <1>7. LogInv'
    <2>1. "settings" \in Wants[AgentOf(Current)] => Printed(AgentOf(Current), "settings")
      BY <1>2, <1>5, SettingsPrintedFirst
    <2> QED
      BY <1>2, <1>4, <2>1, PrintKeepsOrder
  <1>8. CASE "transfer" \in type[Current]
    <2>1. rpc' = "drain" /\ UNCHANGED <<list, mem, visit>>
      BY <1>8 DEF VisitConnection
    <2>2. UNCHANGED <<list, mem, visit, agentVars, signalled, got>>
      BY <1>1, <2>1
    <2> QED
      BY <1>1, <1>4, <1>5, <1>6, <1>7, <1>8, <2>1, <2>2, ToDrainStep
  <1>9. CASE "transfer" \notin type[Current]
    <2>1. LeaveLinked
      BY <1>9 DEF VisitConnection
    <2> QED
      BY <1>1, <1>4, <1>5, <1>6, <1>7, <1>9, <2>1, LeaveLinkedStep
  <1> QED
    BY <1>8, <1>9

LEMMA VisitTransferStep ==
    ASSUME ListSafe, VisitTransfer
    PROVE  ListSafe'
  <1>1. /\ rpc = "visit" /\ UNCHANGED <<agentVars, signalled, got>>
        /\ apc' = apc /\ put' = put /\ got' = got /\ type' = type /\ log' = log
        /\ Current[2] = "data" /\ "connection" \notin type[Current]
    BY DEF VisitTransfer, agentVars
  <1>2. PartsInv' /\ LogInv'
    BY <1>1, NothingPrinted
  <1>3. type' \in [Reports -> SUBSET Parts] /\ log' \in Seq(Agents \X Parts)
        /\ \A r \in Reports : type'[r] \subseteq type[r]
    BY <1>1 DEF ListSafe, TypeOK
  <1>4. "connection" \notin type'[Current]
    BY <1>1
  <1>5. CASE HasData(AgentOf(Current))
    <2>1. rpc' = "drain" /\ UNCHANGED <<list, mem, visit>>
      BY <1>5 DEF VisitTransfer
    <2>2. UNCHANGED <<list, mem, visit, agentVars, signalled, got>>
      BY <1>1, <2>1
    <2> QED
      BY <1>1, <1>2, <1>3, <1>4, <1>5, <2>1, <2>2, ToDrainStep
  <1>6. CASE ~HasData(AgentOf(Current))
    <2>1. LeaveLinked
      BY <1>6 DEF VisitTransfer
    <2> QED
      BY <1>1, <1>2, <1>3, <1>4, <1>6, <2>1, LeaveLinkedStep
  <1> QED
    BY <1>5, <1>6

LEMMA DrainEndStep ==
    ASSUME ListSafe, DrainEnd
    PROVE  ListSafe'
  <1>1. /\ rpc = "drain" /\ UNCHANGED <<agentVars, signalled, got>>
        /\ apc' = apc /\ put' = put /\ got' = got /\ type' = type /\ log' = log
        /\ got[AgentOf(Current)] = put[AgentOf(Current)]
        /\ IF apc[AgentOf(Current)] = "done" THEN LeaveFinished ELSE LeaveLinked
    BY DEF DrainEnd, agentVars
  <1>2. PartsInv' /\ LogInv'
    BY <1>1, NothingPrinted
  <1>3. type' \in [Reports -> SUBSET Parts] /\ log' \in Seq(Agents \X Parts)
        /\ \A r \in Reports : type'[r] \subseteq type[r]
    BY <1>1 DEF ListSafe, TypeOK
  <1>4. Current[2] = "data" /\ "connection" \notin type'[Current]
    BY <1>1 DEF ListSafe, FreedInv
  <1>5. CASE apc[AgentOf(Current)] = "done"
    <2>1. type'[Current] \subseteq {"transfer"}
      <3>1. Current \in Reports /\ type[Current] \subseteq TypeOfReport(Current)
        BY <1>1, CurrentProperties DEF ListSafe, Walking, PartsInv
      <3> QED
        BY <1>1, <1>4, <3>1 DEF TypeOfReport
    <2> QED
      BY <1>1, <1>2, <1>3, <1>5, <2>1, LeaveFinishedStep
  <1>6. CASE apc[AgentOf(Current)] # "done"
    BY <1>1, <1>2, <1>3, <1>4, <1>6, LeaveLinkedStep
  <1> QED
    BY <1>5, <1>6

LEMMA DrainPacketStep ==
    ASSUME ListSafe, DrainPacket
    PROVE  ListSafe'
  <1> DEFINE t == AgentOf(Current)
             closing == apc[t] \in {"closed", "relayed"} /\ got[t] + 1 = put[t]
  <1>1. /\ rpc = "drain" /\ got[t] < put[t] /\ got' = [got EXCEPT ![t] = @ + 1]
        /\ log' = IF closing THEN Append(log, <<t, "transfer">>) ELSE log
        /\ list' = list /\ mem' = mem /\ signalled' = signalled /\ apc' = apc /\ put' = put
        /\ type' = type /\ rpc' = rpc /\ visit' = visit
    BY DEF DrainPacket, agentVars
  <1>2. /\ TypeOK /\ CountInv /\ BornInv /\ ListInv /\ WalkInv /\ FreedInv /\ PartsInv /\ LogInv
        /\ Walking /\ Current \in Reports
    BY <1>1, CurrentProperties DEF ListSafe, Walking
  <1>3. /\ t \in Agents /\ Current[2] = "data" /\ HasData(t) /\ "connection" \notin type[Current]
        /\ Current = ReportOf(t, "data")
    BY <1>1, <1>2, ReportsOfAgents DEF FreedInv
  <1>4. "settings" \in Wants[t] => Printed(t, "settings")
    BY <1>2, <1>3, SettingsPrintedFirst
  <1>5. "connection" \in Wants[t] => Printed(t, "connection")
    <2> SUFFICES ASSUME "connection" \in Wants[t]
                 PROVE  Printed(t, "connection")
      OBVIOUS
    <2>1. "connection" \in TypeOfReport(Current) \ {"transfer"}
      BY <1>3 DEF TypeOfReport
    <2> QED
      BY <1>2, <1>3, <2>1 DEF PartsInv
  <1> HIDE DEF t
  <1>6. /\ got \in [Agents -> 0 .. MaxPackets] /\ put \in [Agents -> 0 .. MaxPackets]
        /\ MaxPackets \in Nat
    BY <1>2, MaxPacketsAssumption DEF TypeOK
  <1>7. /\ got' \in [Agents -> 0 .. MaxPackets] /\ got'[t] = got[t] + 1 /\ got'[t] <= put[t]
        /\ \A u \in Agents : u # t => got'[u] = got[u]
    <2>1. got[t] + 1 \in 0 .. MaxPackets /\ got[t] + 1 <= put[t]
      BY <1>1, <1>3, <1>6
    <2> QED
      BY <1>1, <1>3, <1>6, <2>1
  <1>8. apc[t] # "done" /\ ~Printed(t, "transfer")
    <2>1. got[t] # put[t]
      BY <1>1, <1>3, <1>6
    <2> QED
      BY <1>2, <1>3, <2>1 DEF CountInv, PartsInv
  <1>9. closing <=> apc[t] \in Closed /\ got'[t] = put[t]
    BY <1>7, <1>8 DEF Closed
  <1> HIDE DEF closing
  <1>10. log' \in Seq(Agents \X Parts) /\ LogInv'
    <2>1. CASE closing
      <3>1. log' = Append(log, <<t, "transfer">>) /\ "transfer" \in Parts /\ <<t, "transfer">> \in Agents \X Parts
        BY <1>1, <1>3, <2>1 DEF Parts
      <3>2. log' \in Seq(Agents \X Parts)
        BY <1>2, <3>1, LogAppend
      <3>3. LogInv'
        BY <1>2, <1>3, <1>4, <1>5, <1>8, <3>1, PrintKeepsOrder
      <3> QED
        BY <3>2, <3>3
    <2>2. CASE ~closing
      <3>1. log' = log
        BY <1>1, <2>2
      <3> QED
        BY <1>2, <3>1 DEF TypeOK, LogInv, Before, HasData
    <2> QED
      BY <2>1, <2>2
  <1>11. \A u \in Agents, part \in Parts :
            Printed(u, part)' <=> Printed(u, part) \/ (closing /\ u = t /\ part = "transfer")
    <2>1. CASE closing
      <3>1. log' = Append(log, <<t, "transfer">>) /\ <<t, "transfer">> \in Agents \X Parts
        BY <1>1, <1>3, <2>1 DEF Parts
      <3>2. \A u \in Agents, part \in Parts :
              Printed(u, part)' <=> Printed(u, part) \/ <<t, "transfer">> = <<u, part>>
        BY <1>2, <3>1, LogAppend
      <3> QED
        BY <2>1, <3>2
    <2>2. CASE ~closing
      <3>1. log' = log
        BY <1>1, <2>2
      <3> QED
        BY <2>2, <3>1 DEF Printed
    <2> QED
      BY <2>1, <2>2
  <1>12. PartsInv'
    <2>1. ASSUME NEW r \in Reports
          PROVE  /\ type'[r] \subseteq TypeOfReport(r)
                 /\ "transfer" \in TypeOfReport(r) => "transfer" \in type'[r]
                 /\ \A part \in TypeOfReport(r) \ {"transfer"} : Printed(AgentOf(r), part)' <=> part \notin type'[r]
      <3>1. AgentOf(r) \in Agents /\ TypeOfReport(r) \subseteq Parts
        BY ReportsOfAgents, TypesOfReports
      <3>2. /\ type[r] \subseteq TypeOfReport(r)
            /\ "transfer" \in TypeOfReport(r) => "transfer" \in type[r]
            /\ \A part \in TypeOfReport(r) \ {"transfer"} : Printed(AgentOf(r), part) <=> part \notin type[r]
        BY <1>2 DEF PartsInv
      <3>3. \A part \in TypeOfReport(r) \ {"transfer"} : Printed(AgentOf(r), part)' <=> Printed(AgentOf(r), part)
        BY <1>11, <3>1
      <3> QED
        BY <1>1, <3>2, <3>3
    <2>2. ASSUME NEW u \in Agents, HasData(u)
          PROVE  Printed(u, "transfer")' <=> apc'[u] \in Closed /\ got'[u] = put'[u]
      <3>1. Printed(u, "transfer") <=> apc[u] \in Closed /\ got[u] = put[u]
        BY <1>2, <2>2 DEF PartsInv
      <3>2. Printed(u, "transfer")' <=> Printed(u, "transfer") \/ (closing /\ u = t)
        BY <1>11 DEF Parts
      <3>3. CASE u = t
        BY <1>1, <1>8, <1>9, <3>2, <3>3
      <3>4. CASE u # t
        BY <1>1, <1>7, <3>1, <3>2, <3>4
      <3> QED
        BY <3>3, <3>4
    <2> QED
      BY <2>1, <2>2, Zenon DEF PartsInv, HasData
  <1>13. CountInv'
    <2> SUFFICES ASSUME NEW u \in Agents
                 PROVE  /\ got'[u] <= put[u]
                        /\ apc[u] \notin Closed => put[u] <= MaxPackets - 1
                        /\ apc[u] = "done" /\ HasData(u) => got'[u] = put[u]
      BY <1>1, Zenon DEF CountInv, HasData
    <2>1. /\ got[u] <= put[u]
          /\ apc[u] \notin Closed => put[u] <= MaxPackets - 1
          /\ apc[u] = "done" /\ HasData(u) => got[u] = put[u]
      BY <1>2 DEF CountInv
    <2> QED
      BY <1>7, <1>8, <2>1
  <1>14. \A s \in Reports : Passed(s) => Passed(s)'
    <2> SUFFICES ASSUME NEW s \in Reports, Passed(s)
                 PROVE  Passed(s)'
      OBVIOUS
    <2>1. AgentOf(s) \in Agents
      BY ReportsOfAgents
    <2>2. got[AgentOf(s)] = put[AgentOf(s)] => got'[AgentOf(s)] = put'[AgentOf(s)]
      BY <1>1, <1>6, <1>7, <2>1
    <2> QED
      BY <1>1, <2>2, PassedKept
  <1>15. WalkInv'
    <2>1. Walking' = Walking
      BY <1>1 DEF Walking
    <2> QED
      BY <1>1, <1>2, <1>14, <2>1, StayKeepsWalk
  <1>16. TypeOK' /\ ListInv'
    BY <1>1, <1>2, <1>7, <1>10 DEF TypeOK, ListInv
  <1>17. BornInv'
    BY <1>1, <1>2 DEF BornInv, TypeOfReport, ReportOf, AgentOf
  <1>18. FreedInv'
    <2>1. Current' = Current /\ \A s \in Reports : Finished(s) => Finished(s)'
      BY <1>1 DEF Current, Finished
    <2> QED
      BY <1>1, <1>2, <2>1 DEF FreedInv, HasData
  <1> QED
    BY <1>10, <1>12, <1>13, <1>15, <1>16, <1>17, <1>18 DEF ListSafe

\* Between two walks.
LEMMA IdleStep ==
    ASSUME ListSafe, ~Walking, rpc' \in {"loop", "wait", "pick"}, signalled' \in BOOLEAN,
           UNCHANGED <<list, mem, agentVars, type, got, visit, log>>
    PROVE  ListSafe'
  <1>1. /\ list' = list /\ mem' = mem /\ put' = put /\ apc' = apc /\ type' = type
        /\ got' = got /\ visit' = visit /\ log' = log
    BY DEF agentVars
  <1>2. PartsInv' /\ LogInv'
    BY <1>1, NothingPrinted
  <1>3. TypeOK' /\ CountInv' /\ ListInv'
    BY <1>1 DEF ListSafe, TypeOK, ReporterPCs, CountInv, HasData, ListInv
  <1>4. BornInv'
    BY <1>1 DEF ListSafe, BornInv, TypeOfReport, ReportOf, AgentOf
  <1>5. FreedInv'
    BY <1>1 DEF ListSafe, FreedInv, Finished
  <1>6. WalkInv'
    <2>1. Walking' = Walking
      BY DEF Walking
    <2>2. \A s \in Reports : Passed(s) => Passed(s)'
      BY <1>1 DEF Passed, HasData
    <2> QED
      BY <1>1, <2>1, <2>2, StayKeepsWalk DEF ListSafe
  <1> QED
    BY <1>2, <1>3, <1>4, <1>5, <1>6 DEF ListSafe

LEMMA PickStep ==
    ASSUME ListSafe, Pick
    PROVE  ListSafe'
  <1>1. /\ rpc = "pick" /\ rpc' = IF list = <<>> THEN "loop" ELSE "visit"
        /\ visit' = list /\ list' = list /\ mem' = mem /\ signalled' = signalled
        /\ put' = put /\ apc' = apc /\ type' = type /\ got' = got /\ log' = log
    BY DEF Pick, agentVars
  <1>2. TypeOK /\ list \in Seq(Reports) /\ Len(list) \in Nat
    BY DEF ListSafe, TypeOK
  <1>3. PartsInv' /\ LogInv'
    BY <1>1, NothingPrinted
  <1>4. TypeOK' /\ CountInv' /\ ListInv'
    BY <1>1 DEF ListSafe, TypeOK, ReporterPCs, CountInv, HasData, ListInv
  <1>5. BornInv'
    BY <1>1 DEF ListSafe, BornInv, TypeOfReport, ReportOf, AgentOf
  <1>6. FreedInv'
    BY <1>1 DEF ListSafe, FreedInv, Finished
  <1>7. WalkInv'
    <2>1. Stretch(0, Len(list))'
      <3>1. Len(visit') = Len(list) - 0 /\ \A a \in 1 .. Len(list) - 0 : visit'[a] = list'[0 + a]
        BY <1>1, <1>2
      <3>2. \A a \in Len(list) + 1 .. Len(list') : FALSE
        BY <1>1, <1>2
      <3> QED
        BY <1>1, <3>1, <3>2, Zenon DEF Stretch
    <2>2. 0 \in 0 .. Len(list') /\ Len(list) \in 0 .. Len(list')
      BY <1>1, <1>2
    <2>3. (Walking <=> visit # <<>>)' /\ rpc' # "unlink"
      BY <1>1 DEF Walking
    <2> QED
      BY <1>1, <2>1, <2>2, <2>3 DEF WalkInv
  <1> QED
    BY <1>3, <1>4, <1>5, <1>6, <1>7 DEF ListSafe

LEMMA UnlinkRootStep ==
    ASSUME ListSafe, UnlinkRoot
    PROVE  ListSafe'
  <1>1. /\ rpc = "unlink" /\ Unlink(Current) /\ mem' = [mem EXCEPT ![Current] = "freed"]
        /\ visit' = <<>> /\ rpc' = "nap" /\ signalled' = signalled
        /\ put' = put /\ apc' = apc /\ type' = type /\ got' = got /\ log' = log
    BY DEF UnlinkRoot, agentVars
  <1>2. TypeOK /\ BornInv /\ ListInv /\ WalkInv /\ FreedInv /\ Walking
    BY <1>1 DEF ListSafe, Walking
  <1>3. Current \in Reports /\ mem[Current] = "linked"
    BY <1>2, CurrentProperties
  <1>4. list' \in Seq(Reports) /\ ListInv'
    <2>1. PICK i \in 0 .. Len(list) : \E j \in i + 1 .. Len(list) :
                Stretch(i, j) /\ j \in DOMAIN list /\ Current = list[j]
      BY <1>2, CurrentProperties
    <2>2. PICK j \in DOMAIN list : Current = list[j]
      BY <2>1
    <2>3. Unlink(list[j]) /\ mem' = [mem EXCEPT ![list[j]] = "freed"]
      BY <1>1, <2>2
    <2> QED
      BY <1>2, <2>3, UnlinkKeepsList
  <1>5. PartsInv' /\ LogInv'
    BY <1>1, NothingPrinted
  <1>6. TypeOK' /\ CountInv'
    <2>1. mem' \in [Reports -> {"unborn", "linked", "freed"}]
      BY <1>1, <1>2 DEF TypeOK
    <2>2. visit' \in Seq(Reports)
      BY <1>1
    <2> QED
      BY <1>1, <1>4, <2>1, <2>2 DEF ListSafe, TypeOK, ReporterPCs, CountInv, HasData
  <1>7. BornInv'
    <2>1. \A t \in Agents, kind \in Kinds :
            mem'[ReportOf(t, kind)] = "unborn" <=> mem[ReportOf(t, kind)] = "unborn"
      BY <1>1, <1>2, <1>3, ReportsOfAgents DEF TypeOK
    <2> QED
      BY <1>1, <1>2, <2>1, ReportsOfAgents DEF BornInv
  <1>8. FreedInv'
    <2>1. \A s \in Reports : mem'[s] = "freed" => Finished(s)
      BY <1>1, <1>2 DEF FreedInv, TypeOK
    <2>2. \A s \in Reports : Finished(s) => Finished(s)'
      BY <1>1 DEF Finished
    <2> QED
      BY <1>1, <2>1, <2>2 DEF FreedInv
  <1>9. WalkInv'
    <2>1. Stretch(0, 0)'
      BY <1>1 DEF Stretch, Walking
    <2>2. 0 \in 0 .. Len(list')
      BY <1>4
    <2> QED
      BY <1>1, <2>1, <2>2 DEF WalkInv, Walking
  <1> QED
    BY <1>4, <1>5, <1>6, <1>7, <1>8, <1>9 DEF ListSafe

-----------------------------------------------------------------------------
(* The theorems.                                                           *)

LEMMA InitIsSafe ==
    ASSUME Init
    PROVE  ListSafe
  <1>1. /\ list = <<>> /\ visit = <<>> /\ log = <<>> /\ rpc = "loop" /\ signalled = FALSE
        /\ type = [r \in Reports |-> TypeOfReport(r)]
        /\ mem = [r \in Reports |-> "unborn"]
        /\ put = [t \in Agents |-> 0] /\ got = [t \in Agents |-> 0]
        /\ apc = [t \in Agents |-> "new"]
    BY DEF Init
  <1>2. \A r \in Reports : TypeOfReport(r) \subseteq Parts
    BY TypesOfReports
  <1>3. MaxPackets \in Nat \ {0}
    BY MaxPacketsAssumption
  <1>4. TypeOK
    <2>1. type \in [Reports -> SUBSET Parts]
      BY <1>1, <1>2
    <2>2. 0 \in 0 .. MaxPackets
      BY <1>3
    <2>3. list \in Seq(Reports) /\ visit \in Seq(Reports) /\ log \in Seq(Agents \X Parts)
      BY <1>1
    <2>4. /\ put \in [Agents -> 0 .. MaxPackets] /\ got \in [Agents -> 0 .. MaxPackets]
          /\ mem \in [Reports -> {"unborn", "linked", "freed"}]
      BY <1>1, <2>2
    <2>5. apc \in [Agents -> AgentPCs] /\ rpc \in ReporterPCs /\ signalled \in BOOLEAN
      BY <1>1 DEF AgentPCs, ReporterPCs
    <2> QED
      BY <2>1, <2>3, <2>4, <2>5 DEF TypeOK
  <1>5. CountInv
    BY <1>1, <1>3 DEF CountInv
  <1>6. BornInv
    BY <1>1, ReportsOfAgents DEF BornInv
  <1>7. ListInv
    BY <1>1 DEF ListInv
  <1>8. WalkInv
    <2>1. Stretch(0, 0)
      BY <1>1 DEF Stretch, Walking
    <2>2. 0 \in 0 .. Len(list) /\ 0 \in 0 .. 0
      BY <1>1
    <2> QED
      BY <1>1, <2>1, <2>2 DEF WalkInv, Walking
  <1>9. FreedInv
    BY <1>1 DEF FreedInv
  <1>10. PartsInv
    <2>1. \A t, part : ~Printed(t, part)
      BY <1>1 DEF Printed
    <2> QED
      BY <1>1, <2>1 DEF PartsInv, Closed
  <1>11. LogInv
    BY <1>1 DEF LogInv, Before
  <1> QED
    BY <1>4, <1>5, <1>6, <1>7, <1>8, <1>9, <1>10, <1>11 DEF ListSafe

LEMMA NextKeepsSafe ==
    ASSUME ListSafe, [Next]_vars
    PROVE  ListSafe'
  <1>1. CASE UNCHANGED vars
    <2>1. /\ list' = list /\ mem' = mem /\ signalled' = signalled /\ put' = put /\ apc' = apc
          /\ type' = type /\ got' = got /\ rpc' = rpc /\ visit' = visit /\ log' = log
      BY <1>1 DEF vars, agentVars, reporterVars
    <2>2. PartsInv' /\ LogInv'
      BY <2>1, NothingPrinted
    <2>3. TypeOK' /\ CountInv' /\ ListInv'
      BY <2>1 DEF ListSafe, TypeOK, CountInv, HasData, ListInv
    <2>4. BornInv'
      BY <2>1 DEF ListSafe, BornInv, TypeOfReport, ReportOf, AgentOf
    <2>5. FreedInv'
      BY <2>1 DEF ListSafe, FreedInv, Finished, Current, HasData
    <2>6. WalkInv'
      <3>1. Walking' = Walking
        BY <2>1 DEF Walking
      <3>2. \A s \in Reports : Passed(s) => Passed(s)'
        BY <2>1 DEF Passed, HasData
      <3> QED
        BY <2>1, <3>1, <3>2, StayKeepsWalk DEF ListSafe
    <2> QED
      BY <2>2, <2>3, <2>4, <2>5, <2>6 DEF ListSafe
  <1>2. ASSUME NEW t \in Agents, Agent(t)
        PROVE  ListSafe'
    BY <1>2, ReportSettingsStep, InitReportStep, ReportPacketStep, CloseReportStep,
       ReportServerUDPStep, EndReportStep DEF Agent
  <1>3. CASE LoopTest
    BY <1>3, IdleStep DEF LoopTest, Walking, ListSafe, TypeOK
  <1>4. CASE Wake
    BY <1>4, IdleStep DEF Wake, Walking, ListSafe, TypeOK
  <1>5. CASE WakeSpuriously
    BY <1>5, IdleStep DEF WakeSpuriously, Walking, ListSafe, TypeOK
  <1>6. CASE NapEnds
    BY <1>6, IdleStep DEF NapEnds, Walking, ListSafe, TypeOK
  <1>7. CASE Pick
    BY <1>7, PickStep
  <1>8. CASE VisitWhole \/ VisitConnection \/ VisitTransfer
    BY <1>8, VisitWholeStep, VisitConnectionStep, VisitTransferStep
  <1>9. CASE DrainPacket \/ DrainEnd \/ UnlinkRoot
    BY <1>9, DrainPacketStep, DrainEndStep, UnlinkRootStep
  <1> QED
    BY <1>1, <1>2, <1>3, <1>4, <1>5, <1>6, <1>7, <1>8, <1>9 DEF Next, Reporter

\* The inductive invariant holds in every behaviour: the packets counted, the
\* reports born in order, the chain, the walk, what was freed and what printed.
THEOREM ListInductive == Spec => []ListSafe
  <1>1. Init => ListSafe
    BY InitIsSafe
  <1>2. ListSafe /\ [Next]_vars => ListSafe'
    BY NextKeepsSafe
  <1> QED
    BY <1>1, <1>2, PTL DEF Spec

LEMMA SafeChainIsSound ==
    ASSUME ListSafe
    PROVE  ChainIsSound
  <1>1. TypeOK /\ ListInv /\ WalkInv /\ FreedInv
    BY DEF ListSafe
  <1>2. list \in Seq(Reports) /\ visit \in Seq(Reports) /\ Len(list) \in Nat /\ DOMAIN list = 1 .. Len(list)
    BY <1>1 DEF TypeOK
  <1>3. NoFreeUnderAgent
    <2> SUFFICES ASSUME NEW t \in Agents, mem[ReportOf(t, "data")] = "freed"
                 PROVE  apc[t] = "done"
      BY DEF NoFreeUnderAgent
    <2>1. /\ ReportOf(t, "data") \in Reports /\ AgentOf(ReportOf(t, "data")) = t
          /\ ReportOf(t, "data")[2] = "data"
      BY ReportsOfAgents
    <2>2. Finished(ReportOf(t, "data"))
      BY <1>1, <2>1 DEF FreedInv
    <2> QED
      BY <2>1, <2>2 DEF Finished
  <1>4. IsInjective(list)
    BY <1>1 DEF ListInv, IsInjective
  <1>5. Range(list) = {r \in Reports : mem[r] = "linked"}
    <2>1. \A a \in DOMAIN list : list[a] \in Reports
      BY <1>2, ElementOfSeq
    <2> QED
      BY <1>1, <2>1 DEF ListInv, Range
  <1>6. \E i \in 0 .. Len(list) : \E j \in i .. Len(list) : visit = SubSeq(list, i + 1, j)
    <2>1. PICK i \in 0 .. Len(list) : \E j \in i .. Len(list) : Stretch(i, j)
      BY <1>1 DEF WalkInv
    <2>2. PICK j \in i .. Len(list) : Stretch(i, j)
      BY <2>1
    <2>3. i \in Nat /\ j \in Nat /\ i <= j /\ j <= Len(list) /\ i + 1 \in Nat \ {0}
      BY <1>2
    <2>4. \A a \in i + 1 .. j : list[a] \in Reports
      BY <1>2, <2>3, ElementOfSeq
    <2>5. /\ SubSeq(list, i + 1, j) \in Seq(Reports)
          /\ Len(SubSeq(list, i + 1, j)) = IF i + 1 <= j THEN j - (i + 1) + 1 ELSE 0
          /\ \A a \in 1 .. j - (i + 1) + 1 : SubSeq(list, i + 1, j)[a] = list[i + 1 + a - 1]
      BY <2>3, <2>4, SubSeqProperties
    <2> DEFINE stretch == SubSeq(list, i + 1, j)
    <2> HIDE DEF stretch
    <2>6. stretch \in Seq(Reports) /\ Len(stretch) = j - i
          /\ \A a \in 1 .. j - i : stretch[a] = list[i + a]
      <3>1. /\ stretch \in Seq(Reports)
            /\ Len(stretch) = IF i + 1 <= j THEN j - (i + 1) + 1 ELSE 0
            /\ \A a \in 1 .. j - (i + 1) + 1 : stretch[a] = list[i + 1 + a - 1]
        BY <2>5 DEF stretch
      <3> QED
        BY <2>3, <3>1
    <2>7. Len(visit) = j - i /\ \A a \in 1 .. j - i : visit[a] = list[i + a]
      BY <2>2 DEF Stretch
    <2>8. visit = stretch
      BY <1>2, <2>6, <2>7, SeqEqual
    <2> QED
      BY <2>2, <2>8 DEF stretch
  <1> QED
    BY <1>1, <1>3, <1>4, <1>5, <1>6 DEF ChainIsSound

\* The chain of ReportRoot holds each linked report once and nothing freed, the
\* recursion of reporter_process_report visits a stretch of it, and no report
\* is freed under the agent that still uses it.
THEOREM ChainCorrect == Spec => []ChainIsSound
  <1>1. ListSafe => ChainIsSound
    BY SafeChainIsSound
  <1> QED
    BY <1>1, ListInductive, PTL

LEMMA SafePrintedInOrder ==
    ASSUME ListSafe
    PROVE  PrintedInOrder
  <1>1. TypeOK /\ FreedInv /\ PartsInv /\ LogInv /\ CountInv
    BY DEF ListSafe
  <1>2. IsInjective(log)
    BY <1>1 DEF LogInv, IsInjective
  <1>3. ASSUME NEW r \in Reports, mem[r] = "freed", NEW part \in TypeOfReport(r)
        PROVE  <<AgentOf(r), part>> \in Range(log)
    <2>1. Finished(r)
      BY <1>1, <1>3 DEF FreedInv
    <2>2. /\ AgentOf(r) \in Agents /\ r[2] \in Kinds /\ r = ReportOf(AgentOf(r), r[2])
      BY ReportsOfAgents
    <2>3. Printed(AgentOf(r), part)
      <3>1. CASE part = "transfer"
        <4>1. r[2] = "data" /\ HasData(AgentOf(r))
          BY <1>3, <2>2, <3>1, ReportsOfAgents DEF TypeOfReport, HasData
        <4>2. apc[AgentOf(r)] = "done"
          BY <2>1, <4>1 DEF Finished
        <4>3. got[AgentOf(r)] = put[AgentOf(r)] /\ apc[AgentOf(r)] \in Closed
          BY <1>1, <2>2, <4>1, <4>2 DEF CountInv, Closed
        <4> QED
          BY <1>1, <2>2, <3>1, <4>1, <4>3 DEF PartsInv
      <3>2. CASE part # "transfer"
        <4>1. part \notin type[r]
          BY <2>1, <3>2 DEF Finished
        <4>2. Printed(AgentOf(r), part) <=> part \notin type[r]
          BY <1>1, <1>3, <3>2 DEF PartsInv
        <4> QED
          BY <4>1, <4>2
      <3> QED
        BY <3>1, <3>2
    <2> QED
      BY <2>3 DEF Printed, Range
  <1> QED
    BY <1>1, <1>2, <1>3 DEF PrintedInOrder, LogInv

\* Nothing is printed twice or freed unprinted, and what an agent reports comes
\* out in the order it made it, the statistics of the server last.
THEOREM OrderCorrect == Spec => []PrintedInOrder
  <1>1. ListSafe => PrintedInOrder
    BY SafePrintedInOrder
  <1> QED
    BY <1>1, ListInductive, PTL

-----------------------------------------------------------------------------
(* The barrier.                                                            *)

USE ClientsAssumption, MaxTimeAssumption

\* Any set of clients picked out by their places is finite.
LEMMA AtFinite ==
    ASSUME NEW places
    PROVE  IsFiniteSet(At(places)) /\ Cardinality(At(places)) \in Nat
  <1>1. At(places) \subseteq Clients
    BY DEF At
  <1> QED
    BY <1>1, FS_Subset, FS_CardinalityType

\* InitMulti counts every client, and all are still to come.
LEMMA InitBarrierInv == BarrierInit => BarrierInv
  <1> SUFFICES ASSUME BarrierInit PROVE BarrierInv
    OBVIOUS
  <1>1. At({"coming"}) = Clients /\ At({"woken", "past", "linked"}) = {}
    BY DEF BarrierInit, At
  <1>2. BarrierTypeOK
    BY DEF BarrierInit, BarrierTypeOK, PCs, Unset
  <1> QED
    BY <1>1, <1>2 DEF BarrierInit, BarrierInv, ClosedInv, OneStartTime, At

\* A client that comes early or leaves keeps the count of its phase.
LEMMA StepBarrierInv == BarrierInv /\ [BarrierNext]_barrierVars => BarrierInv'
  <1> SUFFICES ASSUME BarrierInv, [BarrierNext]_barrierVars
               PROVE  BarrierInv'
    OBVIOUS
  <1> USE DEF BarrierInv
  <1>1. ASSUME NEW c \in Clients, ArriveAndWait(c)
        PROVE  BarrierInv'
    <2>1. c \in At({"coming"}) /\ ClosedInv
      BY <1>1 DEF ArriveAndWait, At, OpenInv
    <2>2. At({"coming"})' = At({"coming"}) \ {c}
      BY <1>1 DEF ArriveAndWait, At, BarrierTypeOK
    <2>3. threads' = Cardinality(At({"coming"})')
      BY <1>1, <2>1, <2>2, AtFinite, FS_RemoveElement DEF ArriveAndWait, ClosedInv
    <2>4. At({"woken", "past", "linked"})' = {}
      BY <1>1, <2>1 DEF ArriveAndWait, ClosedInv, At, BarrierTypeOK
    <2>5. BarrierTypeOK'
      <3>1. At({"coming"})' \subseteq Clients
        BY DEF At
      <3>2. threads' \in 0 .. Cardinality(Clients)
        BY <2>3, <3>1, FS_Subset, FS_CardinalityType
      <3> QED
        BY <1>1, <3>2 DEF ArriveAndWait, BarrierTypeOK, PCs
    <2> QED
      BY <2>3, <2>4, <2>5 DEF ClosedInv, OneStartTime, At
  <1>2. ASSUME NEW c \in Clients, ArriveLast(c)
        PROVE  BarrierInv'
    <2>1. c \in At({"coming"}) /\ ClosedInv /\ Cardinality(At({"coming"})) = 1
      BY <1>2, ClientsAssumption DEF ArriveLast, At, OpenInv, ClosedInv, BarrierTypeOK
    <2>2. At({"coming"}) = {c}
      <3>1. PICK d : At({"coming"}) = {d}
        BY <2>1, AtFinite, FS_Singleton
      <3> QED
        BY <2>1, <3>1
    <2>3. At({"past", "linked"})' = {c}
      BY <1>2, <2>1 DEF ArriveLast, WakeAll, ClosedInv, At, BarrierTypeOK
    <2>4. At({"coming", "waiting"})' = {}
      BY <1>2, <2>2 DEF ArriveLast, WakeAll, At, BarrierTypeOK
    <2>5. threads' = Cardinality(At({"past", "linked"})')
      BY <1>2, <2>1, <2>3, FS_Singleton DEF ArriveLast, ClosedInv
    <2>6. BarrierTypeOK'
      BY <1>2 DEF ArriveLast, WakeAll, BarrierTypeOK, PCs
    <2>7. At({"linked"})' = {}
      BY <1>2, <2>1 DEF ArriveLast, WakeAll, ClosedInv, At, BarrierTypeOK
    <2>8. groupStart' # Unset
      BY <1>2 DEF ArriveLast, BarrierTypeOK, Unset
    <2> QED
      BY <2>4, <2>5, <2>6, <2>7, <2>8 DEF OpenInv, OneStartTime
  <1>3. ASSUME NEW c \in Clients, Leave(c)
        PROVE  BarrierInv'
    <2>1. OpenInv /\ c \notin At({"past", "linked"})
      BY <1>3 DEF Leave, At, ClosedInv
    <2>2. At({"past", "linked"})' = At({"past", "linked"}) \cup {c}
      BY <1>3 DEF Leave, At, BarrierTypeOK
    <2>3. threads' = Cardinality(At({"past", "linked"})')
      BY <1>3, <2>1, <2>2, AtFinite, FS_AddElement DEF Leave, OpenInv
    <2>4. At({"coming", "waiting"})' = {} /\ At({"linked"})' = At({"linked"})
      BY <1>3, <2>1 DEF Leave, OpenInv, At, BarrierTypeOK
    <2>5. BarrierTypeOK'
      <3>1. At({"past", "linked"})' \subseteq Clients
        BY DEF At
      <3>2. threads' \in 0 .. Cardinality(Clients)
        BY <2>3, <3>1, FS_Subset, FS_CardinalityType
      <3> QED
        BY <1>3, <3>2 DEF Leave, BarrierTypeOK, PCs
    <2> QED
      BY <1>3, <2>1, <2>3, <2>4, <2>5 DEF Leave, OpenInv, OneStartTime
  <1>4. ASSUME NEW c \in Clients, LinkReport(c)
        PROVE  BarrierInv'
    <2>1. OpenInv
      BY <1>4 DEF LinkReport, At, ClosedInv
    <2>2. /\ At({"past", "linked"})' = At({"past", "linked"})
          /\ At({"coming", "waiting"})' = At({"coming", "waiting"})
          /\ At({"linked"})' = At({"linked"}) \cup {c}
      BY <1>4 DEF LinkReport, At, BarrierTypeOK
    <2>3. BarrierTypeOK'
      BY <1>4 DEF LinkReport, BarrierTypeOK, PCs
    <2> QED
      BY <1>4, <2>1, <2>2, <2>3 DEF LinkReport, OpenInv, OneStartTime, At, BarrierTypeOK
  <1>5. CASE Tick
    BY <1>5 DEF Tick, BarrierTypeOK, ClosedInv, OpenInv, OneStartTime, At
  <1>6. CASE UNCHANGED barrierVars
    BY <1>6 DEF barrierVars, BarrierTypeOK, ClosedInv, OpenInv, OneStartTime, At
  <1> QED
    BY <1>1, <1>2, <1>3, <1>4, <1>5, <1>6 DEF BarrierNext, Client, Terminated

\* The barrier's phases and its count hold throughout.
LEMMA BarrierInvHolds == BarrierSpec => []BarrierInv
  BY InitBarrierInv, StepBarrierInv, PTL DEF BarrierSpec

-----------------------------------------------------------------------------

\* Among any number of parallel clients, nobody passes the barrier while
\* somebody is still to come to it.
THEOREM BarrierHolds == BarrierSpec => []NobodyStartsEarly
  <1>1. BarrierInv => NobodyStartsEarly
    BY DEF BarrierInv, ClosedInv, OpenInv, NobodyStartsEarly, At
  <1> QED
    BY <1>1, BarrierInvHolds, PTL

\* All reports of the test carry the one start time the last client set.
THEOREM StartTimesAgree == BarrierSpec => []OneStartTime
  <1>1. BarrierInv => OneStartTime
    BY DEF BarrierInv
  <1> QED
    BY <1>1, BarrierInvHolds, PTL

\* Behind the barrier multihdr->threads is again the number of clients.
THEOREM ThreadsCountedBack == BarrierSpec => []CountRestored
  <1>1. ASSUME BarrierInv, At({"linked"}) = Clients
        PROVE  threads = Cardinality(Clients)
    <2>1. Clients # {}
      BY FS_EmptySet
    <2>2. OpenInv /\ At({"past", "linked"}) = Clients
      BY <1>1, <2>1 DEF BarrierInv, ClosedInv, At
    <2> QED
      BY <2>2 DEF OpenInv
  <1>2. BarrierInv => CountRestored
    BY <1>1 DEF CountRestored
  <1> QED
    BY <1>2, BarrierInvHolds, PTL
=============================================================================

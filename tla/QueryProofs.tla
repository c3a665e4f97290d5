----------------------------- MODULE QueryProofs -----------------------------
(***************************************************************************)
(* Proofs about the STUN queries, for any number of servers and rounds,    *)
(* and about the sweep over the ports near a peer's, for any range of      *)
(* ports, reach and number of packets.                                     *)
(***************************************************************************)
EXTENDS NatQueries, PunchSweep, SequenceTheorems, TLAPS

-----------------------------------------------------------------------------
(* The queries *)

\* A request goes to a server whose name resolved, under the id of its query, and
\* what is in the inbox answers a request or is nobody's.
SentInv ==
    /\ kind = "none" => asked = {} /\ pc = "idle" /\ verdict = "none"
    /\ \A m \in asked : m[1] \in known
    /\ \A m \in asked : IF kind = "discover" THEN m[2] = 0 ELSE m[1] = m[2] /\ m[2] # 0
    /\ inbox \subseteq asked \cup {Stray}

\* The answers detect_nat_type may have after as many servers as round says: the
\* n-th address is of a server of its own.
AnswersOf(n) ==
    {<<>>}
    \cup (IF n > 0 THEN {<<Public(nat, 1)>>} ELSE {})
    \cup (IF n > 1 THEN {<<Public(nat, 2)>>, <<Public(nat, 1), Public(nat, 2)>>} ELSE {})

DetectInv ==
    /\ kind = "none" => round = 0
    /\ kind \in {"none", "discover"} /\ verdict # "found" => addresses = <<>>
    /\ kind = "detect" => addresses \in AnswersOf(round) /\ verdict # "found"
    /\ kind = "detect" /\ pc # "done" => round < Asked
    /\ kind = "discover" /\ pc # "done" => round < MaxRound
    /\ kind # "none" => pc # "idle"
    /\ pc # "done" => verdict = "none"

QueryInv == QueryTypeOK /\ SentInv /\ DetectInv /\ StunTruthful

LEMMA AppendPair == \A x, y : Append(<<x>>, y) = <<x, y>> /\ Len(<<x, y>>) = 2
<1> SUFFICES ASSUME NEW x, NEW y PROVE Append(<<x>>, y) = <<x, y>>
    OBVIOUS
<1>1. <<x>> \in Seq({x, y}) /\ Len(<<x>>) = 1 /\ y \in {x, y}
  OBVIOUS
<1>2. Append(<<x>>, y) \in Seq({x, y}) /\ Len(Append(<<x>>, y)) = 2
  BY <1>1
<1>3. Append(<<x>>, y)[1] = x /\ Append(<<x>>, y)[2] = y
  BY <1>1
<1>4. <<x, y>> \in Seq({x, y}) /\ Len(<<x, y>>) = 2 /\ <<x, y>>[1] = x /\ <<x, y>>[2] = y
  OBVIOUS
<1> DEFINE s == Append(<<x>>, y)
           t == <<x, y>>
           S == {x, y}
<1>5. s \in Seq(S) /\ t \in Seq(S) /\ Len(s) = 2 /\ Len(t) = 2
  BY <1>2, <1>4
<1>6. \A i \in 1 .. 2 : s[i] = t[i]
  <2>1. s[1] = t[1] /\ s[2] = t[2]
    BY <1>3, <1>4
  <2> HIDE DEF s, t
  <2> QED BY <2>1
<1> HIDE DEF s, t, S
<1>7. s = t
  BY <1>5, <1>6, SeqEqual
<1> QED BY <1>7 DEF s, t

\* What the type says is what the two addresses say of the NAT.
LEMMA TypeTruthful ==
    ASSUME nat \in NatKind, NEW n \in {0, 1, 2}, NEW addrs \in AnswersOf(n)
    PROVE  /\ NatTypeOf(addrs) \in NatType
           /\ NatTypeOf(addrs) = "open" => nat = "cone"
           /\ NatTypeOf(addrs) = "symmetric" => nat = "symmetric"
           /\ NatTypeOf(addrs) = "multiple_ips" => nat = "multi"
<1>1. CASE addrs = <<>>
  BY <1>1 DEF NatTypeOf, NatType
<1>2. CASE addrs = <<Public(nat, 1)>> \/ addrs = <<Public(nat, 2)>>
  <2>1. Len(addrs) = 1 /\ addrs # <<>>
    BY <1>2
  <2> QED BY <2>1 DEF NatTypeOf, NatType
<1>3. CASE addrs = <<Public(nat, 1), Public(nat, 2)>>
  <2>1. Len(addrs) = 2 /\ addrs # <<>> /\ addrs[1] = Public(nat, 1) /\ addrs[2] = Public(nat, 2)
    BY <1>3
  <2> QED BY <2>1 DEF NatTypeOf, NatType, Public, NatKind
<1> QED BY <1>1, <1>2, <1>3 DEF AnswersOf

LEMMA QueryStart == QueryInit => QueryInv
<1> SUFFICES ASSUME QueryInit PROVE QueryInv
    OBVIOUS
<1>1. QueryTypeOK
  BY QueryAssumption DEF QueryInit, QueryTypeOK, NatKind, Asked
<1>2. SentInv /\ DetectInv /\ StunTruthful
  BY DEF QueryInit, SentInv, DetectInv, StunTruthful
<1> QED BY <1>1, <1>2 DEF QueryInv

\* A result of detect_nat_type takes the query to the next server or to its verdict.
LEMMA OverStep ==
    ASSUME QueryInv, kind = "detect", pc # "done",
           NEW addrs \in AnswersOf(round + 1), Len(addrs) <= Asked, addrs \in Seq(Address),
           RequestOver(addrs), UNCHANGED <<kind, nat, known, asked>>,
           inbox' \subseteq inbox
    PROVE  QueryInv'
<1> USE DEF QueryInv
<1>1. round \in {0, 1}
  BY DEF QueryTypeOK, DetectInv, Asked
<1>2. QueryTypeOK'
  <2>1. round' \in 0 .. MaxRound + Asked /\ pc' \in {"done", "sending"}
    BY <1>1, QueryAssumption DEF RequestOver, Asked
  <2>2. verdict' \in {"none", "error", "found"} \cup NatType
    BY <1>1, TypeTruthful DEF RequestOver, QueryTypeOK, Asked
  <2> QED BY <2>1, <2>2 DEF QueryTypeOK, RequestOver
<1>3. SentInv'
  BY DEF SentInv
<1>4. DetectInv'
  <2>1. addresses' \in AnswersOf(round)'
    BY DEF RequestOver, AnswersOf
  <2>2. verdict' # "found" /\ (pc' # "done" => verdict' = "none" /\ round' < Asked)
    BY <1>1, TypeTruthful DEF RequestOver, QueryTypeOK, DetectInv, Asked, NatType
  <2>3. pc' # "idle"
    BY DEF RequestOver
  <2> QED BY <2>1, <2>2, <2>3 DEF DetectInv
<1>5. StunTruthful'
  <2>1. verdict' = "none" \/ verdict' = NatTypeOf(addrs)
    BY DEF RequestOver, DetectInv
  <2> QED BY <1>1, <2>1, TypeTruthful DEF StunTruthful, QueryTypeOK, NatType
<1> QED BY <1>2, <1>3, <1>4, <1>5

LEMMA QueryInductive == QueryInv /\ [QueryNext]_queryVars => QueryInv'
<1> SUFFICES ASSUME QueryInv, [QueryNext]_queryVars PROVE QueryInv'
    OBVIOUS
<1> USE QueryAssumption DEF QueryInv
<1>1. CASE UNCHANGED queryVars
  BY <1>1 DEF queryVars, QueryTypeOK, SentInv, DetectInv, StunTruthful, AnswersOf
<1>2. ASSUME NEW k \in {"discover", "detect"}, NEW n \in NatKind,
             NEW resolved \in SUBSET Servers, Starts(k, n, resolved)
      PROVE  QueryInv'
  <2>1. QueryTypeOK'
    BY <1>2 DEF Starts, QueryTypeOK
  <2>2. SentInv'
    BY <1>2 DEF Starts, SentInv
  <2>3. DetectInv'
    BY <1>2 DEF Starts, DetectInv, SentInv, AnswersOf, Asked
  <2>4. StunTruthful'
    BY <1>2 DEF Starts, StunTruthful, SentInv
  <2> QED BY <2>1, <2>2, <2>3, <2>4
<1>3. CASE NoSocket
  <2>1. QueryTypeOK' /\ SentInv'
    BY <1>3 DEF NoSocket, QueryTypeOK, SentInv
  <2>2. DetectInv' /\ StunTruthful'
    BY <1>3 DEF NoSocket, DetectInv, AnswersOf, StunTruthful, SentInv
  <2> QED BY <2>1, <2>2
<1>4. CASE DiscoverSends
  <2>1. asked' \subseteq Servers \X Tx
    BY <1>4 DEF DiscoverSends, QueryTypeOK, OwnTx, Tx, Asked
  <2>2. QueryTypeOK'
    BY <1>4, <2>1 DEF DiscoverSends, QueryTypeOK
  <2>3. SentInv'
    BY <1>4 DEF DiscoverSends, SentInv, OwnTx
  <2>4. DetectInv' /\ StunTruthful'
    BY <1>4 DEF DiscoverSends, DetectInv, StunTruthful
  <2> QED BY <2>2, <2>3, <2>4
<1>5. ASSUME NEW m \in inbox, DiscoverHit(m) PROVE QueryInv'
  <2>1. m \in asked /\ m[1] \in known
    <3>1. m # Stray
      BY <1>5 DEF DiscoverHit, IsOwn, OwnTx, Stray, Asked
    <3> QED BY <3>1 DEF SentInv
  <2>2. Public(nat, m[1]) \in Address
    BY <2>1 DEF QueryTypeOK, Address, Servers
  <2>3. QueryTypeOK'
    BY <1>5, <2>2 DEF DiscoverHit, Takes, QueryTypeOK, Asked
  <2>4. SentInv' /\ DetectInv'
    BY <1>5 DEF DiscoverHit, Takes, SentInv, DetectInv
  <2>5. StunTruthful'
    BY <1>5, <2>1 DEF DiscoverHit, StunTruthful
  <2> QED BY <2>3, <2>4, <2>5
<1>6. ASSUME NEW m \in inbox, DiscoverSkips(m) PROVE QueryInv'
  <2>1. QueryTypeOK' /\ SentInv'
    BY <1>6 DEF DiscoverSkips, Takes, QueryTypeOK, SentInv
  <2>2. DetectInv' /\ StunTruthful'
    BY <1>6 DEF DiscoverSkips, DetectInv, StunTruthful
  <2> QED BY <2>1, <2>2
<1>7. CASE RoundEnds
  <2>1. round \in 0 .. MaxRound - 1
    BY <1>7 DEF RoundEnds, QueryTypeOK, DetectInv
  <2>2. QueryTypeOK' /\ SentInv'
    BY <1>7, <2>1 DEF RoundEnds, QueryTypeOK, SentInv, Asked
  <2>3. DetectInv' /\ StunTruthful'
    BY <1>7, <2>1 DEF RoundEnds, DetectInv, StunTruthful
  <2> QED BY <2>2, <2>3
<1>8. CASE DetectSends
  <2>1. <<round + 1, OwnTx>> \in Servers \X Tx /\ OwnTx = round + 1 /\ round + 1 # 0
    BY <1>8 DEF DetectSends, QueryTypeOK, DetectInv, OwnTx, Tx, Asked
  <2>2. QueryTypeOK'
    BY <1>8, <2>1 DEF DetectSends, QueryTypeOK
  <2>3. SentInv'
    BY <1>8, <2>1 DEF DetectSends, SentInv
  <2>4. DetectInv' /\ StunTruthful'
    BY <1>8 DEF DetectSends, DetectInv, AnswersOf, StunTruthful
  <2> QED BY <2>2, <2>3, <2>4
<1>9. ASSUME NEW m \in inbox, DetectHit(m) PROVE QueryInv'
  <2>1. kind = "detect" /\ pc # "done" /\ round \in {0, 1}
    BY <1>9 DEF DetectHit, Takes, QueryTypeOK, DetectInv, Asked
  <2>2. m[1] = round + 1 /\ m \in asked
    <3>1. m # Stray
      BY <1>9, <2>1 DEF DetectHit, IsOwn, OwnTx, Stray, Asked
    <3> QED BY <1>9, <2>1, <3>1 DEF DetectHit, IsOwn, OwnTx, SentInv
  <2> DEFINE addrs == Append(addresses, Public(nat, m[1]))
  <2>3. Public(nat, m[1]) \in Address
    BY <2>2 DEF QueryTypeOK, Address, Servers
  <2>4. addresses \in AnswersOf(round)
    BY <2>1 DEF DetectInv
  <2>5. addrs \in AnswersOf(round + 1) /\ Len(addrs) <= Asked
    <3>1. CASE round = 0
      BY <2>2, <2>4, <3>1 DEF AnswersOf, Asked
    <3>2. CASE round = 1
      <4>1. m[1] = 2 /\ (addresses = <<>> \/ addresses = <<Public(nat, 1)>>)
        BY <2>2, <2>4, <3>2 DEF AnswersOf
      <4>2. addresses = <<>> => addrs = <<Public(nat, 2)>> /\ Len(addrs) = 1
        BY <4>1
      <4>3. addresses = <<Public(nat, 1)>> =>
                addrs = <<Public(nat, 1), Public(nat, 2)>> /\ Len(addrs) = 2
        BY <4>1, AppendPair
      <4>4. addrs \in AnswersOf(2)
        <5> HIDE DEF addrs
        <5> QED BY <4>1, <4>2, <4>3 DEF AnswersOf
      <4>5. round + 1 = 2 /\ Len(addrs) <= Asked
        BY <3>2, <4>1, <4>2, <4>3 DEF Asked
      <4> QED BY <4>4, <4>5
    <3> QED BY <2>1, <3>1, <3>2
  <2>6. addrs \in Seq(Address)
    BY <2>3 DEF QueryTypeOK
  <2>7. RequestOver(addrs) /\ UNCHANGED <<kind, nat, known, asked>> /\ inbox' \subseteq inbox
    BY <1>9 DEF DetectHit, Takes
  <2> HIDE DEF addrs
  <2> QED BY <2>1, <2>5, <2>6, <2>7, OverStep
<1>10. ASSUME RequestOver(addresses), kind = "detect", pc \in {"sending", "waiting"},
              UNCHANGED <<kind, nat, known, asked>>, inbox' \subseteq inbox
       PROVE  QueryInv'
  <2>1. round \in {0, 1} /\ addresses \in AnswersOf(round)
    BY <1>10 DEF QueryTypeOK, DetectInv, Asked
  <2>2. addresses \in AnswersOf(round + 1)
    BY <2>1 DEF AnswersOf
  <2> QED BY <1>10, <2>2, OverStep DEF QueryTypeOK
<1>11. ASSUME NEW m \in inbox, DetectMismatch(m) PROVE QueryInv'
  BY <1>10, <1>11 DEF DetectMismatch, Takes
<1>12. CASE RequestFails
  BY <1>10, <1>12 DEF RequestFails
<1>13. CASE StrayComes
  <2>1. QueryTypeOK' /\ SentInv'
    BY <1>13 DEF StrayComes, QueryTypeOK, SentInv, Message
  <2>2. DetectInv' /\ StunTruthful'
    BY <1>13 DEF StrayComes, DetectInv, AnswersOf, StunTruthful
  <2> QED BY <2>1, <2>2
<1>14. ASSUME NEW m \in asked, ServerAnswers(m) PROVE QueryInv'
  <2>1. QueryTypeOK' /\ SentInv'
    BY <1>14 DEF ServerAnswers, QueryTypeOK, SentInv, Message
  <2>2. DetectInv' /\ StunTruthful'
    BY <1>14 DEF ServerAnswers, DetectInv, AnswersOf, StunTruthful
  <2> QED BY <2>1, <2>2
<1> QED BY <1>1, <1>2, <1>3, <1>4, <1>5, <1>6, <1>7, <1>8, <1>9, <1>11, <1>12, <1>13, <1>14
        DEF QueryNext, Discover, Detect

\* Late, lost, doubled and foreign answers never make a query say what is not so.
THEOREM Truthful == QuerySpec => [](QueryTypeOK /\ StunTruthful)
<1>1. QuerySpec => []QueryInv
  BY QueryStart, QueryInductive, PTL DEF QuerySpec
<1> QED BY <1>1, PTL DEF QueryInv

-----------------------------------------------------------------------------
(* The sweep *)

LEMMA Halves == \A k \in Nat : /\ k \div 2 \in Nat
                               /\ k % 2 = 0 => k = 2 * (k \div 2)
                               /\ k % 2 # 0 => k = 2 * (k \div 2) + 1
  OBVIOUS

LEMMA Turns == ASSUME NEW n \in Nat, NEW c \in Nat \ {0}
               PROVE  n % c \in 0 .. c - 1 /\ (n < c => n % c = n)
  OBVIOUS

LEMMA Sides ==
    ASSUME NEW b \in UdpPort
    PROVE  /\ Above(b) \in 0 .. Reach /\ Below(b) \in 0 .. Reach
           /\ Above(b) = Reach \/ b + Above(b) = MaxPort
           /\ b + Above(b) <= MaxPort
           /\ Below(b) = Reach \/ Below(b) = b
           /\ Below(b) <= b
  BY SweepAssumption DEF Above, Below, Lesser, UdpPort

Both(b) == Lesser(Above(b), Below(b))
Ports(b) == 1 + Above(b) + Below(b)

\* How far the k-th target is from the announced port.
Far(b, k) == IF k <= 1 + 2 * Both(b) THEN k \div 2 ELSE k - 1 - Both(b)

\* Where the ports at distance d are in the list.
UpIndex(b, d) == IF d = 0 THEN 1 ELSE IF d <= Both(b) THEN 2 * d ELSE 1 + Both(b) + d
DownIndex(b, d) == IF d <= Both(b) THEN 2 * d + 1 ELSE 1 + Both(b) + d

LEMMA PortCount ==
    ASSUME NEW b \in UdpPort
    PROVE  /\ Ports(b) \in Nat \ {0} /\ Both(b) \in Nat
           /\ Len(Targets(b)) = Ports(b)
           /\ Ports(b) <= 2 * Reach + 1
<1>1. Ports(b) \in Nat \ {0} /\ Both(b) \in Nat /\ Ports(b) <= 2 * Reach + 1
  BY Sides, SweepAssumption DEF Ports, Both, Lesser
<1>2. Len(Targets(b)) = Ports(b)
  BY <1>1 DEF Targets, Ports
<1> QED BY <1>1, <1>2

\* The k-th target is a port at distance Far(b, k), and no target before it is
\* further away.
LEMMA TargetAt ==
    ASSUME NEW b \in UdpPort, NEW k \in 1 .. Ports(b)
    PROVE  /\ Targets(b)[k] \in UdpPort
           /\ Far(b, k) \in 0 .. Reach
           /\ Targets(b)[k] = b + Far(b, k) \/ Targets(b)[k] = b - Far(b, k)
<1>1. Both(b) \in Nat /\ k \in Nat /\ b \in Nat
  BY PortCount DEF UdpPort
<1>2. CASE k <= 1 + 2 * Both(b)
  <2>1. Targets(b)[k] = b + Offset(k)
    BY <1>2 DEF Targets, Ports, Both
  <2>2. Far(b, k) = k \div 2 /\ k \div 2 \in 0 .. Both(b)
    BY <1>1, <1>2, Halves DEF Far
  <2>3. Both(b) <= Above(b) /\ Both(b) <= Below(b)
    BY Sides DEF Both, Lesser
  <2>4. Targets(b)[k] = b + Far(b, k) \/ Targets(b)[k] = b - Far(b, k)
    BY <1>1, <2>1, <2>2 DEF Offset
  <2> QED BY <1>1, <2>2, <2>3, <2>4, Sides, SweepAssumption DEF UdpPort
<1>3. CASE k > 1 + 2 * Both(b)
  <2>1. Targets(b)[k] = IF Below(b) = Both(b) THEN b + (k - 1 - Both(b)) ELSE b - (k - 1 - Both(b))
    BY <1>1, <1>3 DEF Targets, Ports, Both
  <2>2. Far(b, k) = k - 1 - Both(b)
    BY <1>1, <1>3 DEF Far
  <2>3. Below(b) = Both(b) => Far(b, k) <= Above(b)
    BY <1>1, <2>2, Sides, SweepAssumption DEF Ports
  <2>4. Below(b) # Both(b) => Above(b) = Both(b) /\ Far(b, k) <= Below(b)
    BY <1>1, <2>2, Sides, SweepAssumption DEF Ports, Both, Lesser
  <2>5. Far(b, k) \in Nat
    BY <1>1, <1>3, <2>2
  <2> QED BY <1>1, <2>1, <2>2, <2>3, <2>4, <2>5, Sides, SweepAssumption DEF UdpPort
<1> QED BY <1>1, <1>2, <1>3

LEMMA Ordered ==
    ASSUME NEW b \in UdpPort, NEW i \in Nat, NEW k \in Nat, Far(b, i) < Far(b, k)
    PROVE  i < k
  BY PortCount, Halves DEF Far

\* Every port that near is in the list, at its index.
LEMMA Listed ==
    ASSUME NEW b \in UdpPort, NEW d \in 0 .. Reach
    PROVE  /\ b + d \in UdpPort =>
                /\ UpIndex(b, d) \in 1 .. Ports(b)
                /\ Targets(b)[UpIndex(b, d)] = b + d /\ Far(b, UpIndex(b, d)) = d
           /\ b - d \in UdpPort =>
                /\ DownIndex(b, d) \in 1 .. Ports(b)
                /\ Targets(b)[DownIndex(b, d)] = b - d /\ Far(b, DownIndex(b, d)) = d
<1>1. /\ Both(b) \in Nat /\ b \in Nat /\ d \in Nat /\ Above(b) \in Nat /\ Below(b) \in Nat
      /\ Both(b) = Above(b) \/ Both(b) = Below(b)
      /\ Both(b) <= Above(b) /\ Both(b) <= Below(b)
  BY PortCount, Sides DEF UdpPort, Both, Lesser
<1>2. (2 * d) \div 2 = d /\ (2 * d + 1) \div 2 = d /\ (2 * d) % 2 = 0 /\ (2 * d + 1) % 2 = 1
  BY <1>1
<1>3. ASSUME b + d \in UdpPort
      PROVE  /\ UpIndex(b, d) \in 1 .. Ports(b)
             /\ Targets(b)[UpIndex(b, d)] = b + d /\ Far(b, UpIndex(b, d)) = d
  <2>1. d <= Above(b)
    BY <1>1, <1>3, Sides, SweepAssumption DEF UdpPort
  <2>2. CASE d <= Both(b)
    <3>1. UpIndex(b, d) \in 1 .. 1 + 2 * Both(b) /\ UpIndex(b, d) \div 2 = d
          /\ Offset(UpIndex(b, d)) = d
      BY <1>1, <1>2, <2>2 DEF UpIndex, Offset
    <3>2. UpIndex(b, d) \in 1 .. Ports(b)
      BY <1>1, <3>1 DEF Ports
    <3>3. Targets(b)[UpIndex(b, d)] = b + Offset(UpIndex(b, d))
      BY <3>1, <3>2 DEF Targets, Ports, Both
    <3> QED BY <1>1, <3>1, <3>2, <3>3 DEF Far
  <2>3. CASE d > Both(b)
    <3>1. UpIndex(b, d) = 1 + Both(b) + d /\ Below(b) = Both(b)
      BY <1>1, <2>1, <2>3 DEF UpIndex
    <3>2. UpIndex(b, d) \in 1 .. Ports(b) /\ UpIndex(b, d) > 1 + 2 * Both(b)
      BY <1>1, <2>1, <2>3, <3>1 DEF Ports
    <3>3. Targets(b)[UpIndex(b, d)] = b + (UpIndex(b, d) - 1 - Both(b))
      BY <1>1, <3>1, <3>2 DEF Targets, Ports, Both
    <3> QED BY <1>1, <2>3, <3>1, <3>2, <3>3 DEF Far
  <2> QED BY <1>1, <2>2, <2>3
<1>4. ASSUME b - d \in UdpPort
      PROVE  /\ DownIndex(b, d) \in 1 .. Ports(b)
             /\ Targets(b)[DownIndex(b, d)] = b - d /\ Far(b, DownIndex(b, d)) = d
  <2>1. d <= Below(b)
    BY <1>1, <1>4, Sides, SweepAssumption DEF UdpPort
  <2>2. CASE d <= Both(b)
    <3>1. DownIndex(b, d) \in 1 .. 1 + 2 * Both(b) /\ DownIndex(b, d) \div 2 = d
          /\ Offset(DownIndex(b, d)) = -d
      BY <1>1, <1>2, <2>2 DEF DownIndex, Offset
    <3>2. DownIndex(b, d) \in 1 .. Ports(b)
      BY <1>1, <3>1 DEF Ports
    <3>3. Targets(b)[DownIndex(b, d)] = b + Offset(DownIndex(b, d))
      BY <3>1, <3>2 DEF Targets, Ports, Both
    <3> QED BY <1>1, <3>1, <3>2, <3>3 DEF Far
  <2>3. CASE d > Both(b)
    <3>1. DownIndex(b, d) = 1 + Both(b) + d /\ Below(b) # Both(b)
      BY <1>1, <2>1, <2>3 DEF DownIndex
    <3>2. DownIndex(b, d) \in 1 .. Ports(b) /\ DownIndex(b, d) > 1 + 2 * Both(b)
      BY <1>1, <2>1, <2>3, <3>1 DEF Ports
    <3>3. Targets(b)[DownIndex(b, d)] = b - (DownIndex(b, d) - 1 - Both(b))
      BY <1>1, <3>1, <3>2 DEF Targets, Ports, Both
    <3> QED BY <1>1, <2>3, <3>1, <3>2, <3>3 DEF Far
  <2> QED BY <1>1, <2>2, <2>3
<1> QED BY <1>3, <1>4

\* ... and at no other.
LEMMA IndexOf ==
    ASSUME NEW b \in UdpPort, NEW k \in 1 .. Ports(b)
    PROVE  \/ Targets(b)[k] = b + Far(b, k) /\ k = UpIndex(b, Far(b, k))
           \/ Targets(b)[k] = b - Far(b, k) /\ k = DownIndex(b, Far(b, k))
<1>1. /\ Both(b) \in Nat /\ k \in Nat \ {0} /\ b \in Nat /\ Above(b) \in Nat /\ Below(b) \in Nat
      /\ Both(b) = Above(b) \/ Both(b) = Below(b)
  BY PortCount, Sides DEF UdpPort, Both, Lesser
<1>2. CASE k <= 1 + 2 * Both(b)
  <2>1. Targets(b)[k] = b + Offset(k) /\ Far(b, k) = k \div 2 /\ k \div 2 <= Both(b)
    BY <1>1, <1>2, Halves DEF Targets, Ports, Both, Far
  <2>2. CASE k % 2 = 0
    <3>1. k = 2 * (k \div 2) /\ k \div 2 # 0 /\ k \div 2 \in Nat
      BY <1>1, <2>2, Halves
    <3> QED BY <1>1, <2>1, <2>2, <3>1 DEF Offset, UpIndex
  <2>3. CASE k % 2 # 0
    <3>1. k = 2 * (k \div 2) + 1 /\ k \div 2 \in Nat
      BY <1>1, <2>3, Halves
    <3> QED BY <1>1, <2>1, <2>3, <3>1 DEF Offset, DownIndex
  <2> QED BY <2>2, <2>3
<1>3. CASE k > 1 + 2 * Both(b)
  <2>1. /\ Targets(b)[k] = IF Below(b) = Both(b) THEN b + (k - 1 - Both(b)) ELSE b - (k - 1 - Both(b))
        /\ Far(b, k) = k - 1 - Both(b)
    BY <1>1, <1>3 DEF Targets, Ports, Both, Far
  <2> QED BY <1>1, <1>3, <2>1 DEF UpIndex, DownIndex
<1> QED BY <1>1, <1>2, <1>3

\* The list of targets is what the loop over the offsets is for: every port within
\* reach of the announced one, no other, none twice, and none before a nearer one.
THEOREM TargetList ==
    ASSUME NEW b \in UdpPort
    PROVE  LET t == Targets(b)
               Gap(p) == IF p < b THEN b - p ELSE p - b
           IN  /\ {t[k] : k \in 1 .. Len(t)} = {p \in UdpPort : Gap(p) <= Reach}
               /\ \A i, k \in 1 .. Len(t) : t[i] = t[k] => i = k
               /\ \A i, k \in 1 .. Len(t) : i < k => Gap(t[i]) <= Gap(t[k])
<1> DEFINE Gap(p) == IF p < b THEN b - p ELSE p - b
<1>1. Len(Targets(b)) = Ports(b) /\ b \in Nat
  BY PortCount DEF UdpPort
<1>2. \A k \in 1 .. Ports(b) : Targets(b)[k] \in UdpPort /\ Gap(Targets(b)[k]) = Far(b, k)
                              /\ Far(b, k) \in 0 .. Reach
  BY <1>1, TargetAt, SweepAssumption DEF UdpPort
<1>3. ASSUME NEW p \in UdpPort, Gap(p) <= Reach
      PROVE  \E k \in 1 .. Ports(b) : Targets(b)[k] = p
  <2>1. Gap(p) \in 0 .. Reach /\ (p = b + Gap(p) \/ p = b - Gap(p))
    BY <1>1, <1>3, SweepAssumption DEF UdpPort
  <2> HIDE DEF Gap
  <2> QED BY <2>1, Listed
<1>4. \A i, k \in 1 .. Ports(b) : Targets(b)[i] = Targets(b)[k] => i = k
  <2> SUFFICES ASSUME NEW i \in 1 .. Ports(b), NEW k \in 1 .. Ports(b),
                      Targets(b)[i] = Targets(b)[k]
               PROVE  i = k
      OBVIOUS
  <2>1. Far(b, i) = Far(b, k) /\ Far(b, i) \in Nat
    BY <1>2, SweepAssumption
  <2>2. UpIndex(b, 0) = DownIndex(b, 0)
    BY PortCount DEF UpIndex, DownIndex
  <2> QED BY <1>1, <2>1, <2>2, IndexOf
<1>5. \A i, k \in 1 .. Ports(b) : i < k => Far(b, i) <= Far(b, k)
  BY <1>2, Ordered, SweepAssumption
<1>6. {Targets(b)[k] : k \in 1 .. Ports(b)} = {p \in UdpPort : Gap(p) <= Reach}
  <2> HIDE DEF Gap
  <2> QED BY <1>2, <1>3, SweepAssumption
<1> QED BY <1>1, <1>2, <1>4, <1>5, <1>6

-----------------------------------------------------------------------------
\* The targets that were sent to are a beginning of the list, and how long it is only
\* depends on the packets of the burst, unless the sweep is broken off.
Tried(n) == {Targets(base)[k] : k \in 1 .. n}

PrefixInv ==
    \E n \in 0 .. Ports(base) :
        /\ hit = Tried(n)
        /\ phase = "idle" => n = 0
        /\ phase = "burst" => n = Lesser(turn, Ports(base))
        /\ phase \in {"sustain", "done"} /\ ~stop => n = Lesser(Packets, Ports(base))

SweepInv ==
    /\ SweepTypeOK /\ PrefixInv
    /\ phase = "idle" => turn = 0 /\ ~stop

LEMMA SweepStart == SweepInit => SweepInv
<1> SUFFICES ASSUME SweepInit PROVE SweepInv
    OBVIOUS
<1>1. SweepTypeOK /\ 0 \in UdpPort
  <2>1. 0 \in UdpPort /\ 0 \in 0 .. Packets
    BY SweepAssumption DEF UdpPort
  <2> QED BY <2>1 DEF SweepInit, SweepTypeOK
<1>2. hit = Tried(0) /\ 0 \in 0 .. Ports(base)
  BY <1>1, PortCount DEF SweepInit, Tried
<1> QED BY <1>1, <1>2 DEF SweepInit, SweepInv, PrefixInv

\* A turn of a loop sends to the announced port and to the next target, or to one it
\* has sent to before.
LEMMA SendsNext ==
    ASSUME SweepInv, Sends
    PROVE  SweepInv'
<1> USE SweepAssumption DEF SweepInv
<1> DEFINE c == Ports(base)
           i == (turn % c) + 1
<1>1. base \in UdpPort /\ turn \in Nat /\ turn < Packets /\ c \in Nat \ {0}
      /\ Len(Targets(base)) = c /\ phase \in {"burst", "sustain"} /\ ~stop
  BY PortCount DEF Sends, SweepTypeOK
<1>2. i \in 1 .. c /\ (turn < c => i = turn + 1)
  <2>1. turn % c \in 0 .. c - 1 /\ (turn < c => turn % c = turn)
    <3> HIDE DEF c
    <3> QED BY <1>1, Turns
  <2> HIDE DEF c
  <2> QED BY <1>1, <2>1
<1>3. TargetOf(base, turn) = Targets(base)[i] /\ Targets(base)[1] = base
  <2>1. Targets(base)[1] = base
    <3>1. 1 \in 1 .. Ports(base) /\ Far(base, 1) = 0
      BY <1>1, PortCount DEF Far
    <3> QED BY <1>1, <3>1, TargetAt DEF UdpPort
  <2> QED BY <1>1, <2>1 DEF TargetOf
<1>4. hit' = hit \cup {Targets(base)[1], Targets(base)[i]} /\ turn' = turn + 1
      /\ UNCHANGED <<base, phase, stop>>
  BY <1>3 DEF Sends
<1>5. SweepTypeOK'
  BY <1>1, <1>2, <1>4, TargetAt DEF SweepTypeOK
<1>6. PrefixInv'
  <2> PICK n \in 0 .. c : /\ hit = Tried(n)
                         /\ (phase = "burst" => n = Lesser(turn, c))
                         /\ (phase \in {"sustain", "done"} /\ ~stop => n = Lesser(Packets, c))
    BY DEF PrefixInv
  <2> DEFINE m == IF phase = "burst" THEN Lesser(turn + 1, c) ELSE n
  <2>1. m \in 0 .. c /\ n <= m /\ 1 <= m /\ i <= m /\ (m = n \/ (m = n + 1 /\ i = m))
    <3> HIDE DEF i, c
    <3> QED BY <1>1, <1>2 DEF Lesser
  <2>2. hit' = Tried(m)
    <3>1. \A k \in 1 .. m : k \in 1 .. n \/ k = i
      <4> HIDE DEF i, c, m
      <4> QED BY <1>2, <2>1
    <3>2. 1 .. n \subseteq 1 .. m /\ 1 \in 1 .. m /\ i \in 1 .. m
      <4> HIDE DEF i, c, m
      <4> QED BY <1>2, <2>1
    <3> HIDE DEF i, c, m
    <3> QED BY <1>4, <3>1, <3>2 DEF Tried
  <2>3. c' = c
    BY <1>4 DEF Ports, Above, Below
  <2> QED BY <1>1, <1>4, <2>1, <2>2 DEF PrefixInv, Tried
<1> QED BY <1>1, <1>4, <1>5, <1>6

LEMMA SweepInductive == SweepInv /\ [SweepNext]_sweepVars => SweepInv'
<1> SUFFICES ASSUME SweepInv, [SweepNext]_sweepVars PROVE SweepInv'
    OBVIOUS
<1> USE SweepAssumption DEF SweepInv
<1>1. CASE UNCHANGED sweepVars
  <2>1. SweepTypeOK'
    BY <1>1 DEF sweepVars, SweepTypeOK
  <2>2. PrefixInv'
    BY <1>1 DEF sweepVars, PrefixInv, Ports, Above, Below, Tried
  <2> QED BY <1>1, <2>1, <2>2 DEF sweepVars
<1>2. ASSUME NEW b \in Base, Begin(b) PROVE SweepInv'
  <2>1. SweepTypeOK' /\ turn = 0 /\ turn' = 0
    BY <1>2 DEF Begin, SweepTypeOK
  <2>2. hit' = {} /\ base' \in UdpPort
    BY <1>2, <2>1 DEF Begin, PrefixInv, Tried, SweepTypeOK
  <2>3. Ports(base') \in Nat
    BY <2>2, PortCount
  <2>4. PrefixInv'
    <3>1. 0 \in 0 .. Ports(base') /\ 0 = Lesser(turn', Ports(base'))
      BY <2>1, <2>3 DEF Lesser
    <3>2. hit' = {Targets(base')[k] : k \in 1 .. 0}
      BY <2>2
    <3> QED BY <1>2, <3>1, <3>2 DEF Begin, PrefixInv, Tried
  <2> QED BY <1>2, <2>1, <2>4 DEF Begin
<1>3. CASE SweepCancel
  <2>1. SweepTypeOK'
    BY <1>3 DEF SweepCancel, SweepTypeOK
  <2>2. PrefixInv'
    BY <1>3 DEF SweepCancel, PrefixInv, Tried, Ports, Above, Below
  <2> QED BY <1>3, <2>1, <2>2 DEF SweepCancel
<1>4. CASE Sends
  BY <1>4, SendsNext
<1>5. CASE PhaseEnds
  <2>1. SweepTypeOK' /\ phase' \in {"sustain", "done"}
    BY <1>5 DEF PhaseEnds, SweepTypeOK
  <2>2. PrefixInv'
    <3>1. PICK n \in 0 .. Ports(base) :
                /\ hit = Tried(n)
                /\ (phase = "burst" => n = Lesser(turn, Ports(base)))
                /\ (phase \in {"sustain", "done"} /\ ~stop => n = Lesser(Packets, Ports(base)))
      BY DEF PrefixInv
    <3>2. ~stop => n = Lesser(Packets, Ports(base))
      BY <1>5, <3>1 DEF PhaseEnds
    <3> QED BY <1>5, <2>1, <3>1, <3>2 DEF PhaseEnds, PrefixInv, Tried, Ports, Above, Below
  <2> QED BY <1>5, <2>1, <2>2 DEF PhaseEnds
<1> QED BY <1>1, <1>2, <1>3, <1>4, <1>5 DEF SweepNext

LEMMA SweepInvariant == SweepSpec => []SweepInv
  BY SweepStart, SweepInductive, PTL DEF SweepSpec

\* A port that is that near and nearer than one that was tried was tried before it.
LEMMA NearestHit == SweepInv => NearestFirst
<1> SUFFICES ASSUME SweepInv, NEW p \in hit, NEW d \in 1 .. Reach, d < Distance(p),
                    NEW q \in {base - d, base + d} \cap UdpPort
             PROVE  q \in hit
    BY DEF NearestFirst
<1>1. base \in UdpPort /\ base \in Nat /\ d \in 0 .. Reach
  BY SweepAssumption DEF SweepInv, SweepTypeOK, UdpPort
<1>2. PICK n \in 0 .. Ports(base) : hit = Tried(n)
  BY DEF SweepInv, PrefixInv
<1>3. n \in Nat /\ n <= Ports(base) /\ Ports(base) \in Nat
  BY <1>1, PortCount
<1>4. PICK k \in 1 .. n : p = Targets(base)[k]
  BY <1>2 DEF Tried
<1>5. k \in 1 .. Ports(base)
  BY <1>3
<1>6. Far(base, k) = Distance(p)
  BY <1>1, <1>4, <1>5, TargetAt, SweepAssumption DEF Distance, UdpPort
<1>7. PICK i \in 1 .. Ports(base) : Targets(base)[i] = q /\ Far(base, i) = d
  BY <1>1, Listed
<1>8. i < k
  BY <1>1, <1>5, <1>6, <1>7, Ordered
<1>9. i \in 1 .. n
  BY <1>3, <1>8
<1> QED BY <1>2, <1>7, <1>9 DEF Tried

\* The ports at distance d are among the first 2 * d + 1 of the list.
LEMMA FullSweep == SweepInv => SweepReach
<1> SUFFICES ASSUME SweepInv, phase = "done", ~stop, NEW d \in 0 .. Reach,
                    2 * d < Packets \/ Len(Targets(base)) <= Packets,
                    NEW q \in {base - d, base + d} \cap UdpPort
             PROVE  q \in hit
    BY DEF SweepReach
<1>1. base \in UdpPort /\ d \in Nat /\ Len(Targets(base)) = Ports(base)
      /\ Ports(base) \in Nat /\ Both(base) \in Nat
  BY PortCount, SweepAssumption DEF SweepInv, SweepTypeOK
<1>2. hit = Tried(Lesser(Packets, Ports(base)))
  BY DEF SweepInv, PrefixInv
<1>3. PICK i \in 1 .. Ports(base) : Targets(base)[i] = q /\ i <= 2 * d + 1
  <2>1. CASE q = base + d
    BY <1>1, <2>1, Listed DEF UpIndex
  <2>2. CASE q = base - d
    BY <1>1, <2>2, Listed DEF DownIndex
  <2> QED BY <2>1, <2>2
<1>4. i \in 1 .. Lesser(Packets, Ports(base))
  BY <1>1, <1>3, SweepAssumption DEF Lesser
<1> QED BY <1>2, <1>3, <1>4 DEF Tried

\* Wherever a sweep is broken off, it has left out no port for one further away.
THEOREM SweepsNearestFirst == SweepSpec => [](SweepTypeOK /\ NearestFirst)
<1>1. SweepInv => SweepTypeOK /\ NearestFirst
  BY NearestHit DEF SweepInv
<1> QED BY <1>1, SweepInvariant, PTL

\* A whole sweep reaches half as far as it has packets, or all the ports that near.
THEOREM SweepsReach == SweepSpec => []SweepReach
  BY FullSweep, SweepInvariant, PTL
==============================================================================

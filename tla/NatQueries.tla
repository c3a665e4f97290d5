----------------------------- MODULE NatQueries -----------------------------
(***************************************************************************)
(* The two STUN clients: discover_public_addr of signaling.rs, which asks  *)
(* all servers in four rounds under one transaction id and takes the first *)
(* answer, and detect_nat_type of stun.rs, which asks two servers one      *)
(* after the other from one socket, each under an id of its own, and       *)
(* compares the answers.  Neither looks at the sender of a datagram.       *)
(*                                                                         *)
(* The network is external: requests and answers are lost, duplicated,     *)
(* reordered and late, and an answer to somebody else may come in.  So is  *)
(* the NAT, which decides what address a server sees.  An answer that does *)
(* not parse, or carries no address, is one more that is not our own.      *)
(***************************************************************************)
EXTENDS Naturals, Sequences

CONSTANTS
    StunServers,  \* number of servers in the list
    MaxRound      \* rounds of discover_public_addr: 4

ASSUME QueryAssumption == StunServers \in Nat \ {0, 1} /\ MaxRound \in Nat \ {0}

Asked == 2      \* servers detect_nat_type asks: STUN_SERVERS.iter().take(2)
Servers == 1 .. StunServers
NatKind == {"cone", "symmetric", "multi"}

\* The address server s sees: the port differs by server behind a symmetric NAT,
\* the IP behind several uplinks.  Server 0 stands for nobody of ours.
Public(n, s) ==
    [ip |-> IF n = "multi" \/ s = 0 THEN s ELSE 1,
     port |-> IF n = "symmetric" \/ s = 0 THEN s ELSE 1]

VARIABLES
    kind,     \* the query that runs
    nat,      \* what is between this host and the servers
    known,    \* servers whose name resolves
    pc,
    round,    \* rounds of discover, or servers detect is done with
    asked,    \* requests sent: <<server, transaction>>
    inbox,    \* answers on the way to the socket or in it, alike
    addresses, \* addresses the query has got
    verdict    \* what it returns; with "found", the address in addresses

queryVars == <<kind, nat, known, pc, round, asked, inbox, addresses, verdict>>

Tx == 0 .. Asked        \* 0: the one of discover; else the one of the n-th request
Stray == <<0, Asked + 1>>
Message == Servers \X Tx \cup {Stray}
Address == {Public(n, s) : n \in NatKind, s \in 0 .. StunServers}
NatType == {"blocked", "restricted", "open", "symmetric", "multiple_ips"}

QueryTypeOK ==
    /\ kind \in {"none", "discover", "detect"} /\ nat \in NatKind
    /\ known \subseteq Servers
    /\ pc \in {"idle", "sending", "waiting", "done"}
    /\ round \in 0 .. MaxRound + Asked
    /\ asked \subseteq Servers \X Tx /\ inbox \subseteq Message
    /\ addresses \in Seq(Address) /\ Len(addresses) <= Asked
    /\ verdict \in {"none", "error", "found"} \cup NatType

QueryInit ==
    /\ kind = "none" /\ nat = "cone" /\ known = {} /\ pc = "idle" /\ round = 0
    /\ asked = {} /\ inbox = {} /\ addresses = <<>> /\ verdict = "none"

-----------------------------------------------------------------------------
(* The network. *)

ServerAnswers(m) ==
    /\ m \in asked
    /\ inbox' = inbox \cup {m}
    /\ UNCHANGED <<kind, nat, known, pc, round, asked, addresses, verdict>>

StrayComes ==
    /\ kind # "none" /\ pc # "done"
    /\ inbox' = inbox \cup {Stray}
    /\ UNCHANGED <<kind, nat, known, pc, round, asked, addresses, verdict>>

-----------------------------------------------------------------------------
\* The names are looked up; without a server there is nothing to discover.
Starts(k, n, resolved) ==
    /\ kind = "none"
    /\ kind' = k /\ nat' = n /\ known' = resolved
    /\ IF k = "discover" /\ resolved = {}
       THEN pc' = "done" /\ verdict' = "error"
       ELSE pc' = "sending" /\ UNCHANGED verdict
    /\ UNCHANGED <<round, asked, inbox, addresses>>

\* detect_nat_type binds a socket of its own.
NoSocket ==
    /\ kind = "none"
    /\ kind' = "detect" /\ pc' = "done" /\ verdict' = "error"
    /\ UNCHANGED <<nat, known, round, asked, inbox, addresses>>

\* Mutant of OwnTx: every request has the same transaction id.
OwnTxMutant == 0

\* The transaction id of the request that is waited for.
OwnTx == IF kind = "discover" THEN 0 ELSE round + 1

Takes(m) == pc = "waiting" /\ m \in inbox /\ inbox' = inbox \ {m}
IsOwn(m) == m[2] = OwnTx

-----------------------------------------------------------------------------
(* discover_public_addr *)

\* To all servers; a send that fails is ignored.
DiscoverSends ==
    /\ kind = "discover" /\ pc = "sending"
    /\ asked' = asked \cup {<<s, OwnTx>> : s \in known}
    /\ pc' = "waiting"
    /\ UNCHANGED <<kind, nat, known, round, inbox, addresses, verdict>>

DiscoverHit(m) ==
    /\ kind = "discover" /\ Takes(m) /\ IsOwn(m)
    /\ pc' = "done" /\ verdict' = "found" /\ addresses' = <<Public(nat, m[1])>>
    /\ UNCHANGED <<kind, nat, known, round, asked>>

DiscoverSkips(m) ==
    /\ kind = "discover" /\ Takes(m) /\ ~IsOwn(m)
    /\ UNCHANGED <<kind, nat, known, pc, round, asked, addresses, verdict>>

\* Mutant of RoundEnds: the last round starts over.
RoundEndsMutant ==
    /\ kind = "discover" /\ pc = "waiting"
    /\ round' = IF round + 1 = MaxRound THEN 0 ELSE round + 1
    /\ pc' = "sending"
    /\ UNCHANGED <<kind, nat, known, asked, inbox, addresses, verdict>>

\* 900 ms are over, or recv_from fails.
RoundEnds ==
    /\ kind = "discover" /\ pc = "waiting"
    /\ round' = round + 1
    /\ IF round + 1 = MaxRound
       THEN pc' = "done" /\ verdict' = "error"
       ELSE pc' = "sending" /\ UNCHANGED verdict
    /\ UNCHANGED <<kind, nat, known, asked, inbox, addresses>>

-----------------------------------------------------------------------------
(* detect_nat_type and stun_binding_request *)

DetectSends ==
    /\ kind = "detect" /\ pc = "sending" /\ round + 1 \in known
    /\ asked' = asked \cup {<<round + 1, OwnTx>>}
    /\ pc' = "waiting"
    /\ UNCHANGED <<kind, nat, known, round, inbox, addresses, verdict>>

\* What two addresses, one or none say of the NAT.
NatTypeOf(addrs) ==
    IF addrs = <<>> THEN "blocked"
    ELSE IF Len(addrs) = 1 THEN "restricted"
    ELSE IF addrs[1].ip # addrs[2].ip THEN "multiple_ips"
    ELSE IF addrs[1].port = addrs[2].port THEN "open" ELSE "symmetric"

\* The request has its result: the next server, or the verdict.
RequestOver(addrs) ==
    /\ addresses' = addrs
    /\ round' = round + 1
    /\ IF round + 1 = Asked
       THEN pc' = "done" /\ verdict' = NatTypeOf(addrs)
       ELSE pc' = "sending" /\ UNCHANGED verdict

DetectHit(m) ==
    /\ kind = "detect" /\ Takes(m) /\ IsOwn(m)
    /\ RequestOver(Append(addresses, Public(nat, m[1])))
    /\ UNCHANGED <<kind, nat, known, asked>>

\* The one datagram that is read is not the answer.
DetectMismatch(m) ==
    /\ kind = "detect" /\ Takes(m) /\ ~IsOwn(m)
    /\ RequestOver(addresses)
    /\ UNCHANGED <<kind, nat, known, asked>>

\* The name does not resolve, the send fails, or no answer in STUN_TIMEOUT.
RequestFails ==
    /\ kind = "detect" /\ pc \in {"sending", "waiting"}
    /\ RequestOver(addresses)
    /\ UNCHANGED <<kind, nat, known, asked, inbox>>

-----------------------------------------------------------------------------
Discover == DiscoverSends \/ RoundEnds \/ \E m \in inbox : DiscoverHit(m) \/ DiscoverSkips(m)
Detect == DetectSends \/ RequestFails \/ \E m \in inbox : DetectHit(m) \/ DetectMismatch(m)

QueryNext ==
    \/ \E k \in {"discover", "detect"}, n \in NatKind, resolved \in SUBSET Servers :
          Starts(k, n, resolved)
    \/ NoSocket \/ Discover \/ Detect
    \/ StrayComes \/ \E m \in asked : ServerAnswers(m)

\* Every wait has a time-out, which nothing that comes in puts off.
QueryFairness ==
    /\ WF_queryVars(DiscoverSends) /\ WF_queryVars(RoundEnds)
    /\ WF_queryVars(DetectSends \/ RequestFails)

QuerySpec == QueryInit /\ [][QueryNext]_queryVars /\ QueryFairness

-----------------------------------------------------------------------------
(* Properties *)

\* What a query says is true of the NAT, whichever answers are late, doubled or
\* not for it: the address is one that a server saw, and the type compares what
\* two servers saw, never one server with itself (stun.rs:71).
StunTruthful ==
    /\ verdict = "found" => \E s \in known : addresses = <<Public(nat, s)>>
    /\ verdict = "open" => nat = "cone"
    /\ verdict = "symmetric" => nat = "symmetric"
    /\ verdict = "multiple_ips" => nat = "multi"

\* A query returns, however many datagrams that are not for it keep it busy.
QueriesEnd == kind # "none" ~> pc = "done"
==============================================================================

----------------------------- MODULE PunchSweep -----------------------------
(***************************************************************************)
(* punch_remote of signaling.rs: packets to the announced port of a peer   *)
(* and, with each, one to a port near it, for peers behind a symmetric NAT *)
(* whose next port has to be guessed.  The ports to try are computed once, *)
(* nearest first; a fast burst and a slower one walk through them, each    *)
(* from the start.  A packet may be lost: hit is what was sent to.         *)
(***************************************************************************)
EXTENDS Integers, Sequences

CONSTANTS
    Base,       \* the announced ports that are tried
    Reach,      \* ports to either side that count as near: 100
    Packets,    \* PUNCH_FAST_BURST_PACKETS = PUNCH_SUSTAIN_PACKETS: 150
    MaxPort     \* u16::MAX

UdpPort == 0 .. MaxPort

ASSUME SweepAssumption ==
    /\ Reach \in Nat /\ Packets \in Nat /\ MaxPort \in Nat
    /\ Base \subseteq UdpPort

VARIABLES base, phase, turn, stop, hit

sweepVars == <<base, phase, turn, stop, hit>>

SweepTypeOK ==
    /\ base \in UdpPort
    /\ phase \in {"idle", "burst", "sustain", "done"}
    /\ turn \in 0 .. Packets
    /\ stop \in BOOLEAN
    /\ hit \subseteq UdpPort

SweepInit == base = 0 /\ phase = "idle" /\ turn = 0 /\ stop = FALSE /\ hit = {}

\* 0, 1, -1, 2, -2, ... for k = 1, 2, 3, ...
Offset(k) == IF k % 2 = 0 THEN k \div 2 ELSE -(k \div 2)

Lesser(i, j) == IF i < j THEN i ELSE j

\* The ports near b on either side: checked_add and checked_sub leave out the others.
Above(b) == Lesser(Reach, MaxPort - b)
Below(b) == Lesser(Reach, b)

\* Mutant of Targets: the ports above first, then the ports below.
TargetsMutant(b) ==
    [k \in 1 .. 1 + Above(b) + Below(b) |->
        IF k <= 1 + Above(b) THEN b + (k - 1) ELSE b - (k - 1 - Above(b))]

\* By turns a port above and one below, until one side has no more; from there on
\* every distance is one of the other side.
Targets(b) ==
    LET both == Lesser(Above(b), Below(b))
    IN  [k \in 1 .. 1 + Above(b) + Below(b) |->
            IF k <= 1 + 2 * both THEN b + Offset(k)
            ELSE IF Below(b) = both THEN b + (k - 1 - both) ELSE b - (k - 1 - both)]

\* Mutant of TargetOf: the index is taken modulo the range, not the targets.
TargetOfMutant(b, n) == Targets(b)[(n % Reach) + 1]

TargetOf(b, n) == Targets(b)[(n % Len(Targets(b))) + 1]

Begin(b) ==
    /\ phase = "idle"
    /\ phase' = "burst" /\ base' = b
    /\ UNCHANGED <<turn, stop, hit>>

SweepCancel ==
    /\ phase \in {"burst", "sustain"} /\ ~stop
    /\ stop' = TRUE
    /\ UNCHANGED <<base, phase, turn, hit>>

\* One turn of either loop: the announced port, and the target of the turn.
Sends ==
    /\ phase \in {"burst", "sustain"} /\ turn < Packets /\ ~stop
    /\ hit' = hit \cup {base, TargetOf(base, turn)}
    /\ turn' = turn + 1
    /\ UNCHANGED <<base, phase, stop>>

\* A loop is over, or broken off, which the next one is too.
PhaseEnds ==
    /\ phase \in {"burst", "sustain"} /\ (turn = Packets \/ stop)
    /\ phase' = IF phase = "burst" THEN "sustain" ELSE "done"
    /\ turn' = 0
    /\ UNCHANGED <<base, stop, hit>>

SweepNext == SweepCancel \/ Sends \/ PhaseEnds \/ \E b \in Base : Begin(b)

SweepSpec == SweepInit /\ [][SweepNext]_sweepVars

-----------------------------------------------------------------------------
(* Properties *)

Distance(p) == IF p < base THEN base - p ELSE p - base

\* Whenever the sweep is broken off, the ports it has tried are the nearest to the
\* announced one: no port is skipped for one further away (signaling.rs:178).
NearestFirst ==
    \A p \in hit, d \in 1 .. Reach : d < Distance(p) =>
        {base - d, base + d} \cap UdpPort \subseteq hit

\* A sweep that ran to its end has tried every port within half its packets,
\* also where the range is cut off by the first or the last port, and the budget
\* of each phase is used for it: a phase that wraps around has left no port out.
SweepReach ==
    phase = "done" /\ ~stop =>
        \A d \in 0 .. Reach :
            2 * d < Packets \/ Len(Targets(base)) <= Packets =>
                {base - d, base + d} \cap UdpPort \subseteq hit
==============================================================================

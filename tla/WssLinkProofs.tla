---------------------------- MODULE WssLinkProofs ----------------------------
(***************************************************************************)
(* WssLink for every number of sessions: types, and what the ends of its   *)
(* sessions leave behind.                                                  *)
(***************************************************************************)
EXTENDS WssLink, TLAPS

-----------------------------------------------------------------------------
(* What the stage of the loop says about the session it runs.                *)

\* Tasks are spawned once a session has joined, its third task last.
StageInv ==
    /\ \A n \in Session : n > sess => tasks[n] = {}
    /\ loop = "dialing" => tasks[sess] = {}
    /\ loop = "linked" => role = "tcp" /\ "inlet" \notin tasks[sess]

\* Without a port to bind, only the session that runs has an open WebSocket.
UpIsCurrent ==
    role # "tcp" => \A n \in Session : link[n] = "up" => n = sess /\ loop # "waiting"

Inv == TypeOK /\ StageInv /\ UpIsCurrent /\ CleanEndFreesPort /\ KeepsTrying

LEMMA InvInit == Init => Inv
<1> SUFFICES ASSUME Init PROVE Inv
    OBVIOUS
<1> USE DEF Init
<1>1. TypeOK
    <2>1. 0 \in 0 .. MaxSession
        BY LinkAssumption
    <2>2. /\ tasks \in [Session -> SUBSET Task]
          /\ link \in [Session -> {"none", "up", "broken", "closed"}]
        OBVIOUS
    <2> QED
        BY <2>1, <2>2 DEF TypeOK, LoopStage, InSession
<1>2. StageInv /\ UpIsCurrent
    BY DEF StageInv, UpIsCurrent
<1>3. CleanEndFreesPort /\ KeepsTrying
    BY DEF CleanEndFreesPort, KeepsTrying
<1> QED
    BY <1>1, <1>2, <1>3 DEF Inv

LEMMA FailsType ==
    ASSUME TypeOK, NEW unknown \in BOOLEAN, Fails(unknown)
    PROVE  /\ answer' \in {"none", "ok", "error"}
           /\ loop' \in {"waiting", "ended", "gone"}
           /\ answer' = "ok" /\ loop' = "ended" => cancelled
BY DEF TypeOK, Fails

LEMMA InvStep == Inv /\ [Next]_vars => Inv'
<1> SUFFICES ASSUME Inv, [Next]_vars PROVE Inv'
    OBVIOUS
<1> USE LinkAssumption
    DEF Inv, TypeOK, StageInv, UpIsCurrent, CleanEndFreesPort, KeepsTrying,
        Session, LoopStage, InSession, Reads
<1>1. CASE Dial
    BY <1>1 DEF Dial
<1>2. CASE LoopStops
    BY <1>2 DEF LoopStops
<1>3. CASE Joined
    BY <1>3 DEF Joined, Task
<1>4. ASSUME NEW unknown \in BOOLEAN, HandshakeFails(unknown)
      PROVE  Inv'
    BY <1>4, FailsType DEF HandshakeFails
<1>5. CASE Binds
    BY <1>5 DEF Binds, Task
<1>6. CASE BindFails
    BY <1>6, FailsType DEF BindFails
<1>7. CASE ReadEnds
    BY <1>7 DEF ReadEnds
<1>8. CASE ReadFails
    BY <1>8, FailsType DEF ReadFails
<1>9. CASE Ready
    BY <1>9 DEF Ready
<1>10. CASE LoopAborted
    BY <1>10 DEF LoopAborted
<1>11. ASSUME NEW n \in Session, WriterEnds(n)
       PROVE  Inv'
    BY <1>11 DEF WriterEnds, Leaves
<1>12. ASSUME NEW n \in Session, PingerEnds(n)
       PROVE  Inv'
    BY <1>12 DEF PingerEnds, Leaves
<1>13. ASSUME NEW n \in Session, InletEnds(n) \/ Knock(n) \/ InletFails(n)
       PROVE  Inv'
    BY <1>13 DEF InletEnds, Knock, InletFails, Leaves
<1>14. CASE CallerReturns
    BY <1>14 DEF CallerReturns
<1>15. CASE Cancel
    BY <1>15 DEF Cancel
<1>16. ASSUME NEW n \in Session, NEW how \in {"broken", "closed"}, LinkLost(n, how)
       PROVE  Inv'
    BY <1>16 DEF LinkLost
<1>17. CASE UNCHANGED vars
    BY <1>17 DEF vars
<1> QED
    BY <1>1, <1>2, <1>3, <1>4, <1>5, <1>6, <1>7, <1>8, <1>9, <1>10, <1>11, <1>12,
       <1>13, <1>14, <1>15, <1>16, <1>17
    DEF Next, LoopStep, Handshake, TaskEnds

LEMMA InvHolds == Spec => []Inv
BY InvInit, InvStep, PTL DEF Spec

-----------------------------------------------------------------------------
(* Every variable keeps its type. *)
THEOREM TypeCorrect == Spec => []TypeOK
<1>1. Inv => TypeOK
    BY DEF Inv
<1> QED
    BY <1>1, InvHolds, PTL

(* A third task outlives its session only where the WebSocket failed with an  *)
(* error, however many sessions came before: no other way out of              *)
(* client_session and client_session_udp keeps the port.                      *)
THEOREM CleanEnd == Spec => []CleanEndFreesPort
<1>1. Inv => CleanEndFreesPort
    BY DEF Inv
<1> QED
    BY <1>1, InvHolds, PTL

(* A loop whose runtime was reported as ready ends only when it is cancelled  *)
(* or the relay has forgotten the session, after any number of failures.      *)
THEOREM Persistence == Spec => []KeepsTrying
<1>1. Inv => KeepsTrying
    BY DEF Inv
<1> QED
    BY <1>1, InvHolds, PTL

(* The host's and the UDP client's runtimes never have two WebSockets open.   *)
THEOREM OneLink == Spec => []SingleLinkWithoutPort
<1>1. Inv => SingleLinkWithoutPort
    BY DEF Inv, UpIsCurrent, SingleLinkWithoutPort, SingleLink
<1> QED
    BY <1>1, InvHolds, PTL
==============================================================================

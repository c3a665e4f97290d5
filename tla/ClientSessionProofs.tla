------------------------- MODULE ClientSessionProofs -------------------------
(***************************************************************************)
(* ClientSession for every number of peers, sessions and attempts: types,  *)
(* that there is never more than one connect flow nobody cancelled, and    *)
(* that the late end of a client session leaves the status of a host.      *)
(***************************************************************************)
EXTENDS ClientSession, TLAPS

-----------------------------------------------------------------------------
LEMMA FreshType ==
    ASSUME NEW m \in Mode, NEW s \in State
    PROVE  Fresh(m, s) \in Status
BY DEF Fresh, Status, Mode, State, Listing

LEMMA FreshWithType ==
    ASSUME NEW m \in Mode, NEW s \in State, NEW p \in Peer
    PROVE  FreshWith(m, s, p) \in Status
BY DEF FreshWith, Fresh, Status, Mode, State, Listing

LEMMA MarkPeerDisconnectedType ==
    ASSUME NEW st \in Status, NEW p \in Peer
    PROVE  MarkPeerDisconnected(st, p) \in Status
BY DEF MarkPeerDisconnected, Status, Mode, State, Listing

LEMMA StateType ==
    ASSUME NEW st \in Status, NEW m \in Mode, NEW s \in State
    PROVE  /\ [st EXCEPT !.state = s] \in Status
           /\ [st EXCEPT !.mode = m, !.state = s] \in Status
BY DEF Status, Mode, State, Listing

-----------------------------------------------------------------------------
(* A call that creates a session has reset the one before it, within the       *)
(* bound; a task that writes about a peer has one.                             *)

Creating == {"host", "hostUp", "prepare", "preparing", "connect", "connecting"}

CallInv ==
    /\ api \in Creating => gen < MaxGen /\ session = 0
    /\ api = "stop" => session = 0
    /\ api \in {"prepare", "preparing", "connect", "connecting"} => goal \in Peer
    /\ \A g \in Gen : kind[g] # "none" => g <= gen
    /\ \A g \in Gen : kind[g] \in {"prepared", "client"} => target[g] \in Peer
    /\ \A g \in Gen : Running(g) \/ closer[g] # "none" => kind[g] = "client"

TypeInv == TypeOK /\ CallInv

\* OneLiveFlow is inductive over TypeInv as it stands.
Inv == TypeInv /\ OneLiveFlow

LEMMA InvInit == Init => Inv
<1>1. Init => status \in Status
    BY FreshType DEF Init, Mode, State
<1> QED
    BY <1>1, ClientAssumption
    DEF Init, Inv, TypeInv, TypeOK, CallInv, OneLiveFlow, Gen, ApiStage, FlowStage,
        CloserStage, Idle, Creating, Running

LEMMA ResetInv ==
    ASSUME Inv, ResetTake
    PROVE  /\ session' = 0 /\ 0 \in 0 .. gen /\ cancelled' \subseteq Gen /\ aborted' \subseteq Gen
           /\ OneLiveFlow'
<1> USE DEF Inv, TypeInv, TypeOK, ResetTake
<1>1. session # 0 => session \in Gen
    BY ClientAssumption DEF Gen
<1> QED
    BY <1>1, ClientAssumption DEF OneLiveFlow, taskVars, Running

LEMMA ShowTunnelType ==
    ASSUME status \in Status, NEW g, ShowTunnel(g)
    PROVE  status' \in Status
BY DEF ShowTunnel, Fresh, Status, Mode, State, Listing

\* A step of g's flow that touches no other flow and no session.
FlowOnly(g) ==
    /\ UNCHANGED <<callVars, sessVars>>
    /\ status' \in Status /\ tries' \in [Gen -> 0 .. Attempts] /\ linked' \subseteq Gen
    /\ closer' \in [Gen -> CloserStage]
    /\ \A h \in Gen : closer'[h] # "none" => closer[h] # "none" \/ Running(h)
    /\ Running(g)
    /\ \E s \in FlowStage : flow' = [flow EXCEPT ![g] = s]

LEMMA FlowFrame ==
    ASSUME Inv, NEW g \in Gen, FlowOnly(g)
    PROVE  Inv'
<1> USE DEF Inv, TypeInv, TypeOK, CallInv, FlowOnly, callVars, sessVars
<1>1. flow' \in [Gen -> FlowStage] /\ \A h \in Gen : Running(h)' => Running(h)
    BY DEF Running
<1>2. OneLiveFlow'
    BY <1>1 DEF OneLiveFlow
<1>3. TypeOK'
    BY <1>1
<1>4. \A h \in Gen : Running(h)' \/ closer'[h] # "none" => kind[h] = "client"
    BY <1>1
<1>5. CallInv'
    BY <1>4
<1> QED
    BY <1>2, <1>3, <1>5

LEMMA InvStep == Inv /\ [Next]_vars => Inv'
<1> SUFFICES ASSUME Inv, [Next]_vars PROVE Inv'
    OBVIOUS
<1> USE DEF Inv, TypeInv, TypeOK, CallInv, Creating, ApiStage, callVars, sessVars, taskVars
<1>1. CASE CallStop
    BY <1>1, ResetInv DEF CallStop, ResetTake, Running
<1>2. CASE CallHost
    BY <1>2, ResetInv DEF CallHost, ResetTake, Running
<1>3. ASSUME NEW p \in Peer, CallPrepare(p) \/ CallConnect(p)
      PROVE  Inv'
    BY <1>3, ResetInv DEF CallPrepare, CallConnect, ResetTake, Running
<1>4. CASE EndReset
    BY <1>4, FreshType DEF EndReset, ResetStatus, Mode, State, Running, OneLiveFlow
<1>5. ASSUME api \in {"hostUp", "preparing", "connecting"}
      PROVE  /\ gen + 1 \in Gen /\ gen + 1 \in 0 .. gen + 1 /\ gen + 1 \in 0 .. MaxGen
             /\ gen \in Nat /\ kind[gen + 1] = "none"
             /\ \A g \in Gen : Running(g) => g \in cancelled
    <2>1. gen \in Nat /\ gen + 1 \in Gen
        BY <1>5, ClientAssumption DEF Gen
    <2> QED
        BY <1>5, <2>1, ClientAssumption DEF Gen, OneLiveFlow
<1>6. CASE HostUp
    <2>1. TypeOK'
        BY <1>5, <1>6, FreshType DEF HostUp, Create, Mode, State
    <2>2. OneLiveFlow'
        BY <1>5, <1>6 DEF HostUp, Create, Running, OneLiveFlow
    <2>3. \A g \in Gen : /\ kind'[g] = IF g = gen + 1 THEN "host" ELSE kind[g]
                         /\ target'[g] = IF g = gen + 1 THEN goal ELSE target[g]
        BY <1>5, <1>6 DEF HostUp, Create
    <2>4. ~Running(gen + 1) /\ closer[gen + 1] = "none"
        BY <1>5, <1>6 DEF HostUp
    <2>5. \A g \in Gen : kind'[g] # "none" => g <= gen'
        <3>1. gen' = gen + 1 /\ gen \in Nat /\ Gen \subseteq Nat
            BY <1>5, <1>6 DEF HostUp, Create, Gen
        <3> QED
            BY <2>3, <3>1
    <2>6. \A g \in Gen : kind'[g] \in {"prepared", "client"} => target'[g] \in Peer
        BY <1>6, <2>3 DEF HostUp
    <2>7. \A g \in Gen : Running(g)' \/ closer'[g] # "none" => kind'[g] = "client"
        BY <1>5, <1>6, <2>3, <2>4 DEF HostUp, Running
    <2> QED
        BY <1>6, <2>1, <2>2, <2>5, <2>6, <2>7 DEF HostUp
<1>7. CASE PrepareUp
    <2>1. TypeOK'
        BY <1>5, <1>7, FreshWithType DEF PrepareUp, Create, Mode, State
    <2>2. OneLiveFlow'
        BY <1>5, <1>7 DEF PrepareUp, Create, Running, OneLiveFlow
    <2>3. \A g \in Gen : /\ kind'[g] = IF g = gen + 1 THEN "prepared" ELSE kind[g]
                         /\ target'[g] = IF g = gen + 1 THEN goal ELSE target[g]
        BY <1>5, <1>7 DEF PrepareUp, Create
    <2>4. ~Running(gen + 1) /\ closer[gen + 1] = "none"
        BY <1>5, <1>7 DEF PrepareUp
    <2>5. \A g \in Gen : kind'[g] # "none" => g <= gen'
        <3>1. gen' = gen + 1 /\ gen \in Nat /\ Gen \subseteq Nat
            BY <1>5, <1>7 DEF PrepareUp, Create, Gen
        <3> QED
            BY <2>3, <3>1
    <2>6. \A g \in Gen : kind'[g] \in {"prepared", "client"} => target'[g] \in Peer
        BY <1>7, <2>3 DEF PrepareUp
    <2>7. \A g \in Gen : Running(g)' \/ closer'[g] # "none" => kind'[g] = "client"
        BY <1>5, <1>7, <2>3, <2>4 DEF PrepareUp, Running
    <2> QED
        BY <1>7, <2>1, <2>2, <2>5, <2>6, <2>7 DEF PrepareUp
<1>8. CASE ConnectUp
    <2>1. TypeOK'
        BY <1>5, <1>8, FreshWithType DEF ConnectUp, Create, Mode, State, FlowStage
    <2>2. OneLiveFlow'
        BY <1>5, <1>8 DEF ConnectUp, Create, Running, OneLiveFlow
    <2>3. \A g \in Gen : /\ kind'[g] = IF g = gen + 1 THEN "client" ELSE kind[g]
                         /\ target'[g] = IF g = gen + 1 THEN goal ELSE target[g]
        BY <1>5, <1>8 DEF ConnectUp, Create
    <2>4. ~Running(gen + 1) /\ closer[gen + 1] = "none"
        BY <1>5, <1>8 DEF ConnectUp
    <2>5. \A g \in Gen : kind'[g] # "none" => g <= gen'
        <3>1. gen' = gen + 1 /\ gen \in Nat /\ Gen \subseteq Nat
            BY <1>5, <1>8 DEF ConnectUp, Create, Gen
        <3> QED
            BY <2>3, <3>1
    <2>6. \A g \in Gen : kind'[g] \in {"prepared", "client"} => target'[g] \in Peer
        BY <1>8, <2>3 DEF ConnectUp
    <2>7. \A g \in Gen : Running(g)' \/ closer'[g] # "none" => kind'[g] = "client"
        BY <1>5, <1>8, <2>3, <2>4 DEF ConnectUp, Running
    <2> QED
        BY <1>8, <2>1, <2>2, <2>5, <2>6, <2>7 DEF ConnectUp
<1>9. CASE SetUpFails
    BY <1>9 DEF SetUpFails, Running, OneLiveFlow
<1>10. CASE CommitPrepared
    BY <1>10 DEF CommitPrepared, Kind, FlowStage, Running, OneLiveFlow
<1>11. CASE CommitUnprepared
    <2>1. session \in Gen
        BY <1>11, ClientAssumption DEF CommitUnprepared, Kind, Gen
    <2> QED
        BY <1>11, <2>1 DEF CommitUnprepared, Running, OneLiveFlow
<1>12. CASE CommitStatus
    BY <1>12, StateType DEF CommitStatus, Mode, State, Running, OneLiveFlow
<1>13. ASSUME NEW g \in Gen, FlowStep(g) \/ RelayDown(g)
       PROVE  Inv'
    <2> SUFFICES FlowOnly(g)
        BY <1>13, FlowFrame
    <2> USE DEF FlowOnly, FlowTo, FlowStage, Running, Idle
    <2>1. CASE FlowStarts(g)
        BY <2>1, StateType DEF FlowStarts, Mode, State
    <2>2. CASE GraceEnds(g)
        BY <2>2 DEF GraceEnds
    <2>3. CASE Dial(g)
        <3>1. tries[g] + 1 \in 0 .. Attempts
            BY <1>13, <2>3, ClientAssumption DEF Dial
        <3>2. status' \in Status
            BY <2>3, StateType DEF Dial, Mode, State
        <3> QED
            BY <1>13, <2>3, <3>1, <3>2 DEF Dial
    <2>4. CASE AttemptFails(g)
        BY <2>4 DEF AttemptFails
    <2>5. ASSUME NEW withRelay \in BOOLEAN, DirectFails(g, withRelay)
          PROVE  FlowOnly(g)
        BY <2>5, StateType DEF DirectFails, Mode, State
    <2>6. CASE DirectUp(g)
        BY <2>6, ShowTunnelType DEF DirectUp
    <2>7. CASE ProxyBindFails(g) \/ DirectEnds(g) \/ FlowFailed(g) \/ RelayDown(g)
        BY <2>7 DEF ProxyBindFails, DirectEnds, FlowFailed, RelayDown
    <2>8. CASE SpawnLoops(g)
        BY <2>8 DEF SpawnLoops, CloserStage
    <2>9. CASE RelayUp(g)
        BY <2>9, ShowTunnelType DEF RelayUp
    <2>10. CASE FlowFatal(g)
        BY <2>10, FreshType DEF FlowFatal, MarkFatal, Mode, State
    <2>11. CASE FlowAborted(g)
        BY <2>11 DEF FlowAborted
    <2> QED
        BY <1>13, <2>1, <2>2, <2>3, <2>4, <2>5, <2>6, <2>7, <2>8, <2>9, <2>10, <2>11
        DEF FlowStep
<1>14. ASSUME NEW g \in Gen, CloserStep(g)
       PROVE  Inv'
    <2>1. target[g] \in Peer \/ closer[g] = "none"
        OBVIOUS
    <2>2. status' \in Status /\ closer[g] # "none"
        BY <1>14, <2>1, MarkPeerDisconnectedType, FreshType
        DEF CloserStep, CloserWakes, CloserMarks, CloserFatal, MarkFatal, Mode, State
    <2>3. \E s \in CloserStage : closer' = [closer EXCEPT ![g] = s]
        BY <1>14 DEF CloserStep, CloserWakes, CloserMarks, CloserFatal, CloserStage, Idle
    <2> QED
        BY <1>14, <2>2, <2>3
        DEF CloserStep, CloserWakes, CloserMarks, CloserFatal, Running, OneLiveFlow
<1>15. ASSUME NEW g \in Gen, RemoteCloses(g)
       PROVE  Inv'
    BY <1>15 DEF RemoteCloses, Running, OneLiveFlow
<1>16. CASE UNCHANGED vars
    BY <1>16 DEF vars, Running, OneLiveFlow
<1> QED
    BY <1>1, <1>2, <1>3, <1>4, <1>6, <1>7, <1>8, <1>9, <1>10, <1>11, <1>12, <1>13, <1>14,
       <1>15, <1>16
    DEF Next, UserCall, ApiStep

LEMMA Invariance == Spec => []Inv
BY InvInit, InvStep, PTL DEF Spec

\* Every reachable state of the client has the types TypeOK gives it.
THEOREM TypeCorrect == Spec => []TypeOK
<1>1. Inv => TypeOK
    BY DEF Inv, TypeInv
<1> QED
    BY <1>1, Invariance, PTL

\* A flow nobody cancelled belongs to the current session, a client's, in every
\* order of calls; so there are never two of them.
THEOREM LiveFlowIsCurrent == Spec => []OneLiveFlow
<1>1. Inv => OneLiveFlow
    BY DEF Inv
<1> QED
    BY <1>1, Invariance, PTL

-----------------------------------------------------------------------------
(* A session that is no longer the current one has been reset.                 *)

LeftReset == \A g \in Gen : kind[g] # "none" /\ g # session => g \in cancelled

LEMMA ResetStep == ASSUME Inv, LeftReset, [Next]_vars PROVE LeftReset'
<1> USE DEF LeftReset
<1>1. session # 0 => session \in Gen
    BY ClientAssumption DEF Inv, TypeInv, TypeOK, Gen
<1>2. CASE ResetTake
    BY <1>1, <1>2 DEF ResetTake
<1>3. ASSUME api \in {"hostUp", "preparing", "connecting"}, NEW k, Create(k) PROVE LeftReset'
    <2>1. session = 0 /\ gen + 1 \in Gen
        BY <1>3, ClientAssumption DEF Inv, TypeInv, TypeOK, CallInv, Creating, Gen
    <2>2. \A g \in Gen : g # 0 /\ (g # gen + 1 => kind'[g] = kind[g])
        BY <1>3 DEF Create, Inv, TypeInv, TypeOK, Gen
    <2> QED
        BY <1>3, <2>1, <2>2 DEF Create
<1>4. CASE CommitPrepared
    <2>1. \A g \in Gen : g # session => kind'[g] = kind[g]
        BY <1>4 DEF CommitPrepared, Inv, TypeInv, TypeOK
    <2> QED
        BY <1>4, <2>1 DEF CommitPrepared
<1>5. CASE UNCHANGED <<kind, session, cancelled>>
    BY <1>5
<1>6. \/ ResetTake \/ CommitPrepared \/ UNCHANGED <<kind, session, cancelled>>
      \/ api \in {"hostUp", "preparing", "connecting"} /\ \E k : Create(k)
    <2>1. CASE UserCall
        BY <2>1 DEF UserCall, CallStop, CallHost, CallPrepare, CallConnect, CommitUnprepared
    <2>2. CASE ApiStep
        BY <2>2 DEF ApiStep, EndReset, HostUp, PrepareUp, ConnectUp, SetUpFails, CommitStatus,
                    sessVars
    <2>3. ASSUME NEW g \in Gen, FlowStep(g) \/ RelayDown(g)
          PROVE  UNCHANGED <<kind, session, cancelled>>
        BY <2>3 DEF FlowStep, FlowStarts, GraceEnds, Dial, AttemptFails, DirectFails, DirectUp,
                    ProxyBindFails, SpawnLoops, RelayUp, RelayDown, DirectEnds, FlowFailed,
                    FlowFatal, FlowAborted, sessVars
    <2>4. ASSUME NEW g \in Gen, CloserStep(g) \/ RemoteCloses(g)
          PROVE  UNCHANGED <<kind, session, cancelled>>
        BY <2>4 DEF CloserStep, CloserWakes, CloserMarks, CloserFatal, RemoteCloses, sessVars
    <2>5. CASE UNCHANGED vars
        BY <2>5 DEF vars, sessVars
    <2> QED
        BY <2>1, <2>2, <2>3, <2>4, <2>5 DEF Next
<1> QED
    BY <1>2, <1>3, <1>4, <1>5, <1>6

\* Under a quiet host session no flow runs, and a close loop that wakes finds its
\* token cancelled.
LEMMA HostStep ==
    ASSUME Inv, LeftReset, [Next]_vars, session # 0, kind[session] = "host", Quiet(session),
           session' = session
    PROVE  Quiet(session)' /\ (api' = api => status' = status)
<1> USE DEF Inv, TypeInv, CallInv
<1>1. session \in Gen /\ session \notin {0}
    BY ClientAssumption DEF TypeOK, Gen
<1>2. \A g \in Gen : flow[g] \in Idle
    BY <1>1 DEF Quiet, Running
<1>3. \A g \in Gen : closer[g] # "none" => g # session /\ g \in cancelled
    BY <1>1 DEF LeftReset
<1>4. \A g \in Gen : closer[g] \in Idle \cup {"watching"}
    BY <1>3 DEF Quiet, Idle
<1>5. CASE UserCall
    <2>1. CommitUnprepared
        BY <1>1, <1>5 DEF UserCall, CallStop, CallHost, CallPrepare, CallConnect, ResetTake,
                          CommitPrepared, Kind
    <2> QED
        BY <2>1 DEF CommitUnprepared, taskVars, Quiet
<1>6. CASE ApiStep
    <2>1. CommitStatus
        BY <1>1, <1>6 DEF ApiStep, EndReset, HostUp, PrepareUp, ConnectUp, SetUpFails, Creating
    <2> QED
        BY <2>1 DEF CommitStatus, taskVars, Quiet
<1>7. ASSUME NEW g \in Gen PROVE ~FlowStep(g) /\ ~RelayDown(g)
    BY <1>2 DEF FlowStep, FlowStarts, GraceEnds, Dial, AttemptFails, DirectFails, DirectUp,
                ProxyBindFails, SpawnLoops, RelayUp, RelayDown, DirectEnds, FlowFailed,
                FlowFatal, FlowAborted, Running, Idle
<1>8. ASSUME NEW g \in Gen, CloserStep(g)
      PROVE  Quiet(session)' /\ (api' = api => status' = status)
    <2>1. CloserWakes(g) /\ closer[g] = "watching"
        BY <1>4, <1>8 DEF CloserStep, CloserWakes, CloserMarks, CloserFatal, Idle
    <2>2. closer' = [closer EXCEPT ![g] = "done"] /\ UNCHANGED <<status, flow>>
        BY <1>3, <2>1 DEF CloserWakes
    <2> QED
        BY <2>2 DEF Quiet, Idle, TypeOK
<1>9. ASSUME NEW g \in Gen, RemoteCloses(g)
      PROVE  Quiet(session)' /\ (api' = api => status' = status)
    BY <1>9 DEF RemoteCloses, Quiet
<1>10. CASE UNCHANGED vars
    BY <1>10 DEF vars, taskVars, Quiet
<1> QED
    BY <1>5, <1>6, <1>7, <1>8, <1>9, <1>10 DEF Next

\* What is left of earlier client sessions, their close loops, neither writes the
\* status of a host session nor gets ready to, for any number of sessions.
THEOREM HostIsLeftAlone == Spec => HostKeepsStatus
<1>1. Init => LeftReset
    BY DEF Init, LeftReset
<1>2. Spec => []LeftReset
    BY <1>1, Invariance, ResetStep, PTL DEF Spec
<1>3. Inv /\ LeftReset /\ [Next]_vars =>
          [session # 0 /\ kind[session] = "host" /\ Quiet(session) /\ session' = session
              => Quiet(session)' /\ (api' = api => status' = status)]_vars
    BY HostStep
<1> QED
    BY <1>2, <1>3, Invariance, PTL DEF Spec, HostKeepsStatus

-----------------------------------------------------------------------------
(* One session at a time. *)

\* A token that is cancelled is that of a session that was created, and is not in
\* the slot any more.
TokenInv == cancelled \subseteq 1 .. gen /\ session \notin cancelled

LEMMA SlotOrElse ==
    ASSUME [Next]_vars
    PROVE  \/ ResetTake
           \/ api \in {"hostUp", "preparing", "connecting"} /\ \E k : Create(k)
           \/ UNCHANGED <<gen, session, cancelled>>
<1>1. CASE UserCall
    BY <1>1 DEF UserCall, CallStop, CallHost, CallPrepare, CallConnect, CommitPrepared,
                CommitUnprepared
<1>2. CASE ApiStep
    BY <1>2 DEF ApiStep, EndReset, HostUp, PrepareUp, ConnectUp, SetUpFails, CommitStatus,
                sessVars
<1>3. ASSUME NEW g \in Gen, FlowStep(g) \/ RelayDown(g)
      PROVE  UNCHANGED <<gen, session, cancelled>>
    BY <1>3 DEF FlowStep, FlowStarts, GraceEnds, Dial, AttemptFails, DirectFails, DirectUp,
                ProxyBindFails, SpawnLoops, RelayUp, RelayDown, DirectEnds, FlowFailed,
                FlowFatal, FlowAborted, sessVars
<1>4. ASSUME NEW g \in Gen, CloserStep(g) \/ RemoteCloses(g)
      PROVE  UNCHANGED <<gen, session, cancelled>>
    BY <1>4 DEF CloserStep, CloserWakes, CloserMarks, CloserFatal, RemoteCloses, sessVars
<1>5. CASE UNCHANGED vars
    BY <1>5 DEF vars, sessVars
<1> QED
    BY <1>1, <1>2, <1>3, <1>4, <1>5 DEF Next

LEMMA SlotStep ==
    ASSUME Inv, TokenInv, [Next]_vars
    PROVE  TokenInv' /\ [Slot!Open \/ Slot!Close]_(Slot!slotVars)
<1> USE DEF TokenInv, Slot!slotVars
<1>1. gen \in Nat /\ session \in 0 .. gen
    BY ClientAssumption DEF Inv, TypeInv, TypeOK
<1>2. CASE ResetTake
    <2>1. session # 0 => session \in 1 .. gen
        BY <1>1
    <2> QED
        BY <1>1, <1>2, <2>1 DEF ResetTake, Slot!Close
<1>3. ASSUME api \in {"hostUp", "preparing", "connecting"}, NEW k, Create(k)
      PROVE  TokenInv' /\ Slot!Open
    <2>1. session = 0 /\ session' = gen + 1 /\ gen' = gen + 1 /\ cancelled' = cancelled
        BY <1>3 DEF Create, Inv, TypeInv, CallInv, Creating
    <2>2. gen + 1 \in Nat \ {0} /\ \A g \in 1 .. gen : g < gen + 1 /\ g \in 1 .. gen + 1
        BY <1>1
    <2> QED
        BY <2>1, <2>2 DEF Slot!Open
<1> QED
    BY <1>2, <1>3, SlotOrElse

\* One session at a time, whatever call replaces it and whatever fails, and none that
\* was cancelled comes back: so a token tells its tasks all they need to know.
THEOREM ClientKeepsSlot == Spec => KeepsSlot
<1>1. Init => TokenInv /\ Slot!SlotInit
    BY DEF Init, TokenInv, Slot!SlotInit
<1> QED
    BY <1>1, Invariance, SlotStep, PTL DEF Spec, KeepsSlot, Slot!SlotSpec
==============================================================================

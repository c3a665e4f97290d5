------------------------------ MODULE PartsProofs ------------------------------
(***************************************************************************)
(* Proofs about the test server, for any number of callers, ports and      *)
(* servers, and about all the parts side by side in MCParts, each with the *)
(* invariant that the modules extended here prove of it.                   *)
(***************************************************************************)
EXTENDS MCParts, HostCallsProofs, PipesProofs, QueryProofs

-----------------------------------------------------------------------------
(* The test server *)

\* A call that binds is a start.
BindInv == \A c \in Call : call[c] = "binding" => op[c] \in TcpPort

\* Stopping holds the lock with the slot empty, and a server that is cancelled has
\* a call that waits for it.
StopInv ==
    /\ lock # Nobody => runtime = 0
    /\ \A s \in Echo : server[s] = "cancelled" =>
           \E c \in Call : call[c] = "awaiting" /\ own[c] = s

Busy(c) == call[c] \in {"awaiting", "binding", "storing"}

\* Without an overlap one call at most is past the start of its stop.
OneBusy == ~overlapped => \A c, d \in Call : Busy(c) /\ Busy(d) => c = d

EchoInv == EchoTypeOK /\ BindInv /\ StopInv /\ OneBusy /\ SerialKeepsOne

LEMMA EchoStart == EchoInit => EchoInv
<1> SUFFICES ASSUME EchoInit PROVE EchoInv
    OBVIOUS
<1>1. EchoTypeOK
  <2>1. own \in [Call -> 0 .. count] /\ runtime \in 0 .. count /\ count \in 0 .. MaxServer
    BY TestServerAssumption DEF EchoInit
  <2>2. \A c \in Call : lock = c <=> call[c] = "awaiting"
    BY TestServerAssumption DEF EchoInit
  <2> QED BY <2>1, <2>2 DEF EchoInit, EchoTypeOK
<1>2. BindInv /\ StopInv
  BY DEF EchoInit, BindInv, StopInv
<1>3. OneBusy /\ SerialKeepsOne
  BY DEF EchoInit, OneBusy, Busy, SerialKeepsOne, BetweenLocks
<1> QED BY <1>1, <1>2, <1>3 DEF EchoInv

LEMMA EchoTypes == EchoTypeOK /\ BindInv /\ [EchoNext]_echoVars => EchoTypeOK'
<1> SUFFICES ASSUME EchoTypeOK, BindInv, [EchoNext]_echoVars PROVE EchoTypeOK'
    OBVIOUS
<1> USE TestServerAssumption DEF EchoTypeOK, serverVars, echoCallVars
<1>1. CASE UNCHANGED echoVars
  BY <1>1 DEF echoVars
<1>2. ASSUME NEW c \in Call, NEW o \in TcpPort \cup {"stop"}, Calls(c, o) PROVE EchoTypeOK'
  BY <1>2 DEF Calls
<1>3. ASSUME NEW c \in Call, Stops(c) PROVE EchoTypeOK'
  <2>1. AfterStop(c) \in {"idle", "binding"}
    BY DEF AfterStop
  <2>2. CASE runtime = 0
    <3>1. call' = [call EXCEPT ![c] = AfterStop(c)] /\ UNCHANGED <<own, lock, server>>
      BY <1>3, <2>2 DEF Stops
    <3>2. \A d \in Call : lock' = d <=> call'[d] = "awaiting"
      BY <1>3, <2>1, <3>1 DEF Stops
    <3> QED BY <1>3, <2>1, <2>2, <3>1, <3>2 DEF Stops
  <2>3. CASE runtime # 0
    <3>1. runtime \in Echo /\ runtime' = 0 /\ call' = [call EXCEPT ![c] = "awaiting"]
      BY <1>3, <2>3 DEF Stops, Echo
    <3>2. \A d \in Call : lock' = d <=> call'[d] = "awaiting"
      BY <1>3, <2>3, <3>1 DEF Stops
    <3> QED BY <1>3, <2>3, <3>1, <3>2 DEF Stops
  <2> QED BY <2>2, <2>3
<1>4. ASSUME NEW c \in Call, StopEnds(c) PROVE EchoTypeOK'
  <2>1. AfterStop(c) \in {"idle", "binding"} /\ lock = c
    BY <1>4 DEF AfterStop, StopEnds
  <2>2. \A d \in Call : lock' = d <=> call'[d] = "awaiting"
    BY <1>4, <2>1 DEF StopEnds
  <2> QED BY <1>4, <2>1, <2>2 DEF StopEnds
<1>5. ASSUME NEW c \in Call, Binds(c) PROVE EchoTypeOK'
  <2>1. op[c] \in TcpPort
    BY <1>5 DEF Binds, BindInv
  <2>2. count' \in 0 .. MaxServer /\ runtime' \in 0 .. count'
    BY <1>5 DEF Binds
  <2>3. own' \in [Call -> 0 .. count']
    BY <1>5 DEF Binds
  <2>4. call' \in [Call -> {"idle", "stopping", "awaiting", "binding", "storing"}]
    BY <1>5 DEF Binds
  <2>5. \A d \in Call : lock' = d <=> call'[d] = "awaiting"
    BY <1>5 DEF Binds
  <2> QED BY <1>5, <2>1, <2>2, <2>3, <2>4, <2>5 DEF Binds
<1>6. ASSUME NEW c \in Call, BindFails(c) PROVE EchoTypeOK'
  BY <1>6 DEF BindFails
<1>7. ASSUME NEW c \in Call, StoresRuntime(c) PROVE EchoTypeOK'
  BY <1>7 DEF StoresRuntime
<1>8. ASSUME NEW s \in Echo, LoopEnds(s) PROVE EchoTypeOK'
  BY <1>8 DEF LoopEnds
<1> QED BY <1>1, <1>2, <1>3, <1>4, <1>5, <1>6, <1>7, <1>8 DEF EchoNext, Bind

-----------------------------------------------------------------------------
LEMMA BindStep == EchoTypeOK /\ BindInv /\ [EchoNext]_echoVars => BindInv'
<1> SUFFICES ASSUME EchoTypeOK, BindInv, [EchoNext]_echoVars,
                    NEW d \in Call, call'[d] = "binding"
             PROVE  op'[d] \in TcpPort
    BY DEF BindInv
<1> USE DEF EchoTypeOK, BindInv, echoCallVars
<1>1. CASE UNCHANGED echoVars
  BY <1>1 DEF echoVars
<1>2. ASSUME NEW c \in Call, NEW o \in TcpPort \cup {"stop"}, Calls(c, o)
      PROVE  op'[d] \in TcpPort
  BY <1>2 DEF Calls
<1>3. ASSUME NEW c \in Call, Stops(c) \/ StopEnds(c) PROVE op'[d] \in TcpPort
  BY <1>3 DEF Stops, StopEnds, AfterStop
<1>4. ASSUME NEW c \in Call, Bind(c) \/ StoresRuntime(c) PROVE op'[d] \in TcpPort
  BY <1>4 DEF Bind, Binds, BindFails, StoresRuntime
<1>5. ASSUME NEW s \in Echo, LoopEnds(s) PROVE op'[d] \in TcpPort
  BY <1>5 DEF LoopEnds
<1> QED BY <1>1, <1>2, <1>3, <1>4, <1>5 DEF EchoNext

LEMMA StopStep == EchoTypeOK /\ StopInv /\ [EchoNext]_echoVars => StopInv'
<1> SUFFICES ASSUME EchoTypeOK, StopInv, [EchoNext]_echoVars PROVE StopInv'
    OBVIOUS
<1> USE DEF EchoTypeOK, StopInv, serverVars, echoCallVars
<1>1. CASE UNCHANGED echoVars
  BY <1>1 DEF echoVars
<1>2. ASSUME NEW c \in Call, NEW o \in TcpPort \cup {"stop"}, Calls(c, o) PROVE StopInv'
  BY <1>2 DEF Calls
<1>3. ASSUME NEW c \in Call, Stops(c) PROVE StopInv'
  <2>1. runtime' = 0
    BY <1>3 DEF Stops
  <2>2. ASSUME NEW s \in Echo, server'[s] = "cancelled"
        PROVE  \E d \in Call : call'[d] = "awaiting" /\ own'[d] = s
    <3>1. CASE s = runtime
      BY <1>3, <3>1 DEF Stops, Echo
    <3>2. CASE s # runtime
      <4>1. server[s] = "cancelled"
        BY <1>3, <2>2, <3>2 DEF Stops
      <4> QED BY <1>3, <4>1 DEF Stops
    <3> QED BY <3>1, <3>2
  <2> QED BY <2>1, <2>2
<1>4. ASSUME NEW c \in Call, StopEnds(c) PROVE StopInv'
  BY <1>4 DEF StopEnds
<1>5. ASSUME NEW c \in Call, Binds(c) PROVE StopInv'
  <2>1. \A s \in Echo : server'[s] = "cancelled" => server[s] = "cancelled"
    BY <1>5 DEF Binds
  <2> QED BY <1>5, <2>1 DEF Binds
<1>6. ASSUME NEW c \in Call, BindFails(c) PROVE StopInv'
  BY <1>6 DEF BindFails
<1>7. ASSUME NEW c \in Call, StoresRuntime(c) PROVE StopInv'
  BY <1>7 DEF StoresRuntime
<1>8. ASSUME NEW s \in Echo, LoopEnds(s) PROVE StopInv'
  BY <1>8 DEF LoopEnds
<1> QED BY <1>1, <1>2, <1>3, <1>4, <1>5, <1>6, <1>7, <1>8 DEF EchoNext, Bind

\* A call that stops while no other is between its locks finds none waiting either:
\* it has the lock.
LEMMA OneBusyStep == EchoTypeOK /\ OneBusy /\ [EchoNext]_echoVars => OneBusy'
<1> SUFFICES ASSUME EchoTypeOK, OneBusy, [EchoNext]_echoVars, ~overlapped',
                    NEW a \in Call, NEW b \in Call, Busy(a)', Busy(b)'
             PROVE  a = b
    BY DEF OneBusy
<1> USE DEF EchoTypeOK, OneBusy, Busy, echoCallVars
<1>1. CASE UNCHANGED echoVars
  BY <1>1 DEF echoVars
<1>2. ASSUME NEW c \in Call, Stops(c) PROVE a = b
  <2>1. ~overlapped /\ ~BetweenLocks
    BY <1>2 DEF Stops
  <2>2. \A d \in Call : ~Busy(d)
    BY <1>2, <2>1, TestServerAssumption DEF BetweenLocks, Stops
  <2>3. \A d \in Call \ {c} : call'[d] = call[d]
    BY <1>2 DEF Stops
  <2> QED BY <2>2, <2>3
<1>3. ASSUME ~overlapped, \A d \in Call : Busy(d)' => Busy(d) PROVE a = b
  BY <1>3
<1>4. ASSUME NEW c \in Call, NEW o \in TcpPort \cup {"stop"}, Calls(c, o) PROVE a = b
  BY <1>3, <1>4 DEF Calls
<1>5. ASSUME NEW c \in Call, StopEnds(c) PROVE a = b
  BY <1>3, <1>5 DEF StopEnds, AfterStop
<1>6. ASSUME NEW c \in Call, Bind(c) PROVE a = b
  BY <1>3, <1>6 DEF Bind, Binds, BindFails
<1>7. ASSUME NEW c \in Call, StoresRuntime(c) PROVE a = b
  BY <1>3, <1>7 DEF StoresRuntime
<1>8. ASSUME NEW s \in Echo, LoopEnds(s) PROVE a = b
  BY <1>3, <1>8 DEF LoopEnds
<1> QED BY <1>1, <1>2, <1>4, <1>5, <1>6, <1>7, <1>8 DEF EchoNext

LEMMA SerialStep == EchoInv /\ [EchoNext]_echoVars => SerialKeepsOne'
<1> DEFINE Known(s) == s = runtime \/ \E c \in Call : call[c] = "storing" /\ own[c] = s
<1> SUFFICES ASSUME EchoInv, [EchoNext]_echoVars, ~overlapped'
             PROVE  /\ \A s \in Echo : server'[s] = "running" => Known(s)'
                    /\ BetweenLocks' => /\ runtime' = 0
                                        /\ \A s \in Echo : server'[s] # "cancelled"
    BY DEF SerialKeepsOne
<1> USE DEF EchoTypeOK, EchoInv, SerialKeepsOne, BetweenLocks, echoCallVars, serverVars
<1> DEFINE Goal == /\ \A s \in Echo : server'[s] = "running" => Known(s)'
                   /\ BetweenLocks' => /\ runtime' = 0
                                       /\ \A s \in Echo : server'[s] # "cancelled"
<1> SUFFICES Goal
    OBVIOUS
<1>1. CASE UNCHANGED echoVars
  BY <1>1 DEF echoVars
<1>2. ASSUME NEW c \in Call, NEW o \in TcpPort \cup {"stop"}, Calls(c, o) PROVE Goal
  BY <1>2 DEF Calls
<1>3. ASSUME NEW c \in Call, Stops(c) PROVE Goal
  <2>1. ~overlapped /\ ~BetweenLocks /\ runtime' = 0
    BY <1>3 DEF Stops
  <2>2. \A s \in Echo : server'[s] # "running"
    <3> SUFFICES ASSUME NEW s \in Echo, server'[s] = "running" PROVE FALSE
        OBVIOUS
    <3>1. server[s] = "running" => s = runtime
      BY <2>1
    <3>2. s # 0 /\ server \in [Echo -> {"none", "running", "cancelled", "ended"}]
      BY DEF Echo
    <3>3. CASE runtime = 0
      BY <1>3, <3>1, <3>2, <3>3 DEF Stops
    <3>4. CASE runtime # 0
      <4>1. server' = [server EXCEPT ![runtime] = "cancelled"]
        BY <1>3, <3>4 DEF Stops
      <4> QED BY <3>1, <3>2, <4>1
    <3> QED BY <3>3, <3>4
  <2>3. BetweenLocks' => \A s \in Echo : server'[s] # "cancelled"
    <3>1. CASE runtime = 0
      <4>1. \A s \in Echo : server[s] # "cancelled"
        BY <1>3, TestServerAssumption DEF StopInv, Stops
      <4> QED BY <1>3, <3>1, <4>1 DEF Stops
    <3>2. CASE runtime # 0
      BY <1>3, <2>1, <3>2 DEF Stops
    <3> QED BY <3>1, <3>2
  <2> QED BY <2>1, <2>2, <2>3
<1>4. ASSUME NEW c \in Call, StopEnds(c) PROVE Goal
  <2>1. runtime' = 0 /\ runtime = 0
    BY <1>4, TestServerAssumption DEF StopEnds, StopInv
  <2>2. \A s \in Echo : server[s] # "cancelled"
    BY <1>4 DEF StopEnds, StopInv
  <2> QED BY <1>4, <2>1, <2>2 DEF StopEnds
<1>5. ASSUME NEW c \in Call, Binds(c) PROVE Goal
  <2>1. ~overlapped /\ BetweenLocks /\ runtime' = 0 /\ runtime = 0
    BY <1>5 DEF Binds
  <2>2. \A s \in Echo : server'[s] = "running" => s = count + 1
    <3>1. \A d \in Call : call[d] # "storing"
      BY <1>5, <2>1 DEF Binds, OneBusy, Busy
    <3> QED BY <1>5, <2>1, <3>1 DEF Binds, Echo
  <2>3. call'[c] = "storing" /\ own'[c] = count + 1
    BY <1>5 DEF Binds
  <2> QED BY <1>5, <2>1, <2>2, <2>3 DEF Binds
<1>6. ASSUME NEW c \in Call, BindFails(c) PROVE Goal
  BY <1>6 DEF BindFails
<1>7. ASSUME NEW c \in Call, StoresRuntime(c) PROVE Goal
  <2>1. ~overlapped /\ runtime = 0 /\ \A d \in Call : Busy(d) => d = c
    BY <1>7 DEF StoresRuntime, OneBusy, Busy
  <2>2. ~BetweenLocks'
    BY <1>7, <2>1 DEF StoresRuntime, Busy
  <2>3. \A s \in Echo : server[s] = "running" => s = own[c]
    BY <2>1 DEF Echo, Busy
  <2> QED BY <1>7, <2>2, <2>3 DEF StoresRuntime
<1>8. ASSUME NEW s \in Echo, LoopEnds(s) PROVE Goal
  BY <1>8 DEF LoopEnds
<1> QED BY <1>1, <1>2, <1>3, <1>4, <1>5, <1>6, <1>7, <1>8 DEF EchoNext, Bind

LEMMA EchoInductive == EchoInv /\ [EchoNext]_echoVars => EchoInv'
  BY EchoTypes, BindStep, StopStep, OneBusyStep, SerialStep DEF EchoInv

-----------------------------------------------------------------------------
\* As long as no call comes between the two locks of a start, no server escapes the
\* slot, and none of this manager holds a port that a start may want.
THEOREM OneServer == EchoSpec => [](EchoTypeOK /\ SerialKeepsOne)
<1>1. EchoSpec => []EchoInv
  BY EchoStart, EchoInductive, PTL DEF EchoSpec
<1> QED BY <1>1, PTL DEF EchoInv

-----------------------------------------------------------------------------
(* The parts side by side *)

\* The calls of the host belong to the mapping or to the tasks; the one of the two
\* that does not run is as it began, whatever sessions the calls make.
HostInv ==
    IF part = "tasks"
    THEN /\ TasksInv
         /\ mapping = [g \in Gen |-> "none"] /\ tried = [g \in Gen |-> {}]
         /\ at = [g \in Gen |-> Nowhere] /\ slot = 0 /\ mapped = {} /\ orphaned = {}
    ELSE /\ UpnpInv
         /\ e4mc = [g \in Gen |-> "none"] /\ presence = [g \in Gen |-> "none"]
         /\ events = [g \in Gen |-> "none"] /\ requests = {}

PartsInv == HostInv /\ SpliceInv /\ TunnelInv /\ QueryInv /\ SweepInv /\ EchoInv

\* Whichever part takes a step, to every other it is none.
LEMMA OnePart ==
    ASSUME [Next]_mcVars
    PROVE  /\ UNCHANGED part
           /\ IF part = "tasks" THEN [TasksNext]_tasksVars /\ UNCHANGED mapVars
                               ELSE [UpnpNext]_upnpVars /\ UNCHANGED taskVars
           /\ [SpliceNext]_spliceVars /\ [TunnelNext]_tunnelVars /\ [QueryNext]_queryVars
           /\ [SweepNext]_sweepVars /\ [EchoNext]_echoVars
<1>1. CASE UpnpStep
  BY <1>1 DEF UpnpStep
<1>2. CASE TasksStep
  BY <1>2 DEF TasksStep
<1>3. CASE SpliceStep
  BY <1>3 DEF SpliceStep, upnpVars, tasksVars
<1>4. CASE TunnelStep
  BY <1>4 DEF TunnelStep, upnpVars, tasksVars
<1>5. CASE QueryStep
  BY <1>5 DEF QueryStep, upnpVars, tasksVars
<1>6. CASE SweepStep
  BY <1>6 DEF SweepStep, upnpVars, tasksVars
<1>7. CASE EchoStep
  BY <1>7 DEF EchoStep, upnpVars, tasksVars
<1>8. CASE UNCHANGED mcVars
  BY <1>8 DEF mcVars, upnpVars, tasksVars
<1> QED BY <1>1, <1>2, <1>3, <1>4, <1>5, <1>6, <1>7, <1>8 DEF Next

LEMMA PartsStart == Init => PartsInv
<1> SUFFICES ASSUME Init PROVE PartsInv
    OBVIOUS
<1>1. HostInv
  BY UpnpStart, TasksStart DEF Init, HostInv, UpnpInit, TasksInit
<1> QED BY <1>1, SpliceStart, TunnelStart, QueryStart, SweepStart, EchoStart DEF Init, PartsInv

LEMMA PartsStep == PartsInv /\ [Next]_mcVars => PartsInv'
<1> SUFFICES ASSUME PartsInv, [Next]_mcVars PROVE PartsInv'
    OBVIOUS
<1>1. HostInv'
  <2>1. CASE part = "tasks"
    BY <2>1, OnePart, TasksInductive DEF PartsInv, HostInv, mapVars
  <2>2. CASE part # "tasks"
    BY <2>2, OnePart, UpnpInductive DEF PartsInv, HostInv, taskVars
  <2> QED BY <2>1, <2>2
<1>2. SpliceInv' /\ TunnelInv'
  BY OnePart, SpliceInductive, TunnelInductive DEF PartsInv
<1>3. QueryInv' /\ SweepInv' /\ EchoInv'
  BY OnePart, QueryInductive, SweepInductive, EchoInductive DEF PartsInv
<1> QED BY <1>1, <1>2, <1>3 DEF PartsInv

LEMMA PartsInvariant == Spec => []PartsInv
  BY PartsStart, PartsStep, PTL DEF Spec

\* The part of the host's calls that does not run keeps its types as well.
LEMMA HostTypes == HostInv => UpnpTypeOK /\ TasksTypeOK
<1>1. CASE part = "tasks"
  BY <1>1, CallsAssumption DEF HostInv, TasksInv, TasksTypeOK, UpnpTypeOK, MappingStage
<1>2. CASE part # "tasks"
  BY <1>2 DEF HostInv, UpnpInv, UpnpTypeOK, TasksTypeOK
<1> QED BY <1>1, <1>2

LEMMA HostSafe == HostInv => PortIsOwned /\ ClosedByAnother /\ StrayFromFailedStart
<1>1. CASE part = "tasks"
  BY <1>1 DEF HostInv, TasksInv, PortIsOwned, ClosedByAnother
<1>2. CASE part # "tasks"
  BY <1>2, LostInSlot DEF HostInv, UpnpInv, StrayFromFailedStart, Running
<1> QED BY <1>1, <1>2

-----------------------------------------------------------------------------
\* Every part keeps its types, side by side with the others.
THEOREM PartsTypes == Spec => []TypeOK
<1>1. PartsInv => TypeOK
  BY HostTypes
  DEF PartsInv, TypeOK, SpliceInv, TunnelInv, QueryInv, SweepInv, EchoInv
<1> QED BY <1>1, PartsInvariant, PTL

\* The run of the parts side by side checks their invariants of the very states the
\* theorems about each part speak of: what holds of a part alone holds beside the
\* others.
THEOREM PartsSafe ==
    Spec => [](/\ PortIsOwned /\ ClosedByAnother /\ StrayFromFailedStart
               /\ CleanEnd /\ TunnelCleanEnd
               /\ StunTruthful /\ NearestFirst /\ SweepReach /\ SerialKeepsOne)
<1>1. PartsInv => /\ PortIsOwned /\ ClosedByAnother /\ StrayFromFailedStart
                  /\ CleanEnd /\ TunnelCleanEnd
  BY HostSafe, SpliceClean, TunnelClean DEF PartsInv
<1>2. PartsInv => StunTruthful /\ NearestFirst /\ SweepReach /\ SerialKeepsOne
  BY NearestHit, FullSweep DEF PartsInv, QueryInv, SweepInv, EchoInv
<1> QED BY <1>1, <1>2, PartsInvariant, PTL

\* Each connection, of the QUIC splice and of the reverse tunnel, is one TCP
\* connection to its two programs also beside the other parts.
THEOREM PartsKeepWires == Spec => KeepsHalfClose /\ TunnelKeepsHalfClose
<1>1. Init => Wire!WireInit /\ \A i \in Id : TunnelWire(i)!WireInit
  BY SpliceBegins, TunnelBegins DEF Init
<1>2. PartsInv /\ [Next]_mcVars => [Wire!WireNext]_(Wire!wireVars)
  BY OnePart, WireStep DEF PartsInv
<1>3. PartsInv /\ [Next]_mcVars =>
          [\A i \in Id : [TunnelWire(i)!WireNext]_(TunnelWire(i)!wireVars)]_tunnelVars
  BY OnePart, TunnelsStep DEF PartsInv
<1> QED BY <1>1, <1>2, <1>3, PartsInvariant, PTL
        DEF Spec, KeepsHalfClose, Wire!WireSpec, TunnelKeepsHalfClose
==============================================================================

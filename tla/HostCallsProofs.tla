--------------------------- MODULE HostCallsProofs ---------------------------
(***************************************************************************)
(* Proofs about the two parts that live beside the calls of a host: the    *)
(* port mapping and the tasks, for any number of sessions and gateways.    *)
(***************************************************************************)
EXTENDS UpnpPort, HostTasks, TLAPS

\* A reset leaves no session behind whose token is cancelled.
LEMMA CallsStep ==
    ASSUME CallsTypeOK,
           StartCalled \/ StopCalled \/ StartFailed \/ StartDone \/ UNCHANGED callVars
    PROVE  CallsTypeOK'
<1> USE CallsAssumption DEF CallsTypeOK
<1>1. ASSUME session' = 0, cancelled' \subseteq 1 .. gen, gen' \in gen .. MaxGen,
             api' = "idle" \/ (api' = "starting" /\ gen' = gen + 1)
      PROVE  CallsTypeOK'
  <2>1. cancelled' \subseteq 1 .. gen' /\ 0 \notin cancelled' /\ gen + 1 \notin cancelled'
    BY <1>1
  <2> QED BY <1>1, <2>1
<1>2. CASE StartFailed
  BY <1>2 DEF StartFailed
<1>3. CASE StartDone
  BY <1>3 DEF StartDone
<1>4. CASE UNCHANGED callVars
  BY <1>4 DEF callVars
<1>5. ResetTakes => session' = 0 /\ cancelled' \subseteq 1 .. gen
  BY DEF ResetTakes
<1>6. CASE StartCalled
  BY <1>1, <1>5, <1>6 DEF StartCalled
<1>7. CASE StopCalled
  BY <1>1, <1>5, <1>7 DEF StopCalled
<1> QED BY <1>2, <1>3, <1>4, <1>6, <1>7

LEMMA CallsInductive == CallsTypeOK /\ [CallsNext]_callVars => CallsTypeOK'
  BY CallsStep DEF CallsNext

LEMMA SlotStep ==
    ASSUME CallsTypeOK, [CallsNext]_callVars
    PROVE  [Slot!Open \/ Slot!Close]_(Slot!slotVars)
<1> USE DEF Slot!slotVars
<1>1. ASSUME ResetTakes PROVE Slot!Close \/ UNCHANGED Slot!slotVars
  BY <1>1 DEF ResetTakes, Slot!Close
<1>2. CASE StartDone
  <2>1. gen \in Nat \ {0} /\ \A g \in cancelled : g < gen
    BY <1>2, CallsAssumption DEF StartDone, CallsTypeOK
  <2> QED BY <1>2, <2>1 DEF StartDone, CallsTypeOK, Slot!Open
<1> QED BY <1>1, <1>2 DEF CallsNext, StartCalled, StopCalled, StartFailed, callVars

\* The calls of a host have one session at a time and never bring one back, for any
\* number of starts and however many of them fail.
THEOREM CallsKeepSlot == CallsSpec => KeepsSlot
<1>1. CallsInit => CallsTypeOK /\ Slot!SlotInit
  BY CallsAssumption DEF CallsInit, CallsTypeOK, Slot!SlotInit
<1> QED BY <1>1, CallsInductive, SlotStep, PTL DEF CallsSpec, KeepsSlot, Slot!SlotSpec

\* The mapping and the tasks add nothing to the calls they are modelled beside.
LEMMA PartsCalls == (UpnpSpec => CallsSpec) /\ (TasksSpec => CallsSpec)
<1>1. [UpnpNext]_upnpVars => [CallsNext]_callVars
  BY DEF UpnpNext, UpnpCallStart, UpnpCallStop, UpnpStartFails, UpnpStartUp, Search, NoGateway,
         AddsPort, Refuses, AnswerLost, Stores, Delete, Deletes, DeleteFails, upnpVars,
         CallsNext
<1>2. [TasksNext]_tasksVars => [CallsNext]_callVars
  BY DEF TasksNext, TasksCallStart, TasksCallStop, TasksStartFails, TasksStartUp, Task,
         EnterPosted, EnterDone, PresenceEnds, SourceEnds, Reconnects, EventsCancelled,
         E4mcEnds, RequestEnds, tasksVars, CallsNext
<1>3. UpnpSpec => CallsSpec
  BY <1>1, PTL DEF UpnpSpec, UpnpInit, CallsSpec
<1>4. TasksSpec => CallsSpec
  BY <1>2, PTL DEF TasksSpec, TasksInit, CallsSpec
<1> QED BY <1>3, <1>4

-----------------------------------------------------------------------------
(* The port mapping *)

\* The slot holds the one mapping that is stored, those not asked for yet are of
\* sessions to come, and a mapping that stands for a port names its gateway.
MappingInv ==
    /\ \A g \in Gen : g > gen \/ (g = gen /\ api = "starting") => mapping[g] = "none"
    /\ \A g \in Gen : mapping[g] = "stored" <=> slot = g
    /\ \A g \in Gen : mapping[g] \in {"held", "stored", "deleting"} => at[g] \in Gateway

\* As ClosedByAnother, for a mapping the task holds still, too.
LostToAnother ==
    \A g \in Gen : mapping[g] \in {"held", "stored"} /\ at[g] \notin mapped =>
        \E h \in Gen \ {g} : at[h] = at[g] /\ mapping[h] = "gone"

UpnpInv == UpnpTypeOK /\ MappingInv /\ PortIsOwned /\ LostToAnother

LEMMA UpnpStart == UpnpInit => UpnpInv
  BY CallsAssumption
  DEF UpnpInit, CallsInit, UpnpInv, UpnpTypeOK, CallsTypeOK, MappingInv, PortIsOwned,
      LostToAnother, MappingStage, Gen

\* What a call does to the mappings: the one in the slot is dropped.
LEMMA ResetKeeps ==
    ASSUME UpnpInv, CallsTypeOK', gen' \in {gen, gen + 1}, gen' # gen => api' = "starting",
           gen' = gen => api' = "idle", ResetDrops
    PROVE  UpnpInv'
<1> USE DEF UpnpInv, UpnpTypeOK, ResetDrops, SlotDropped, MappingStage, Gen
<1>1. UpnpTypeOK'
  BY CallsAssumption
<1>2. MappingInv'
  BY CallsAssumption DEF MappingInv, CallsTypeOK
<1>3. PortIsOwned'
  <2>1. ASSUME NEW x \in Gateway, Owned(x) PROVE Owned(x)'
    BY <2>1 DEF Owned
  <2> QED BY <2>1 DEF PortIsOwned
<1>4. LostToAnother'
  BY DEF LostToAnother, MappingInv
<1> QED BY <1>1, <1>2, <1>3, <1>4

LEMMA UpnpInductive == UpnpInv /\ [UpnpNext]_upnpVars => UpnpInv'
<1> SUFFICES ASSUME UpnpInv, [UpnpNext]_upnpVars PROVE UpnpInv'
    OBVIOUS
<1> USE DEF UpnpInv
<1>1. CASE UNCHANGED upnpVars
  BY <1>1 DEF upnpVars, callVars, mapVars, UpnpTypeOK, CallsTypeOK, MappingInv, PortIsOwned,
              LostToAnother, Owned
<1>2. CASE UpnpCallStart
  <2>1. CallsTypeOK'
    BY <1>2, CallsStep DEF UpnpCallStart, UpnpTypeOK
  <2> QED BY <1>2, <2>1, ResetKeeps DEF UpnpCallStart, StartCalled, UpnpTypeOK, CallsTypeOK
<1>3. CASE UpnpCallStop
  <2>1. CallsTypeOK'
    BY <1>3, CallsStep DEF UpnpCallStop, UpnpTypeOK
  <2> QED BY <1>3, <2>1, ResetKeeps DEF UpnpCallStop, StopCalled
<1>4. CASE UpnpStartFails
  <2>1. CallsTypeOK'
    BY <1>4, CallsStep DEF UpnpStartFails, UpnpTypeOK
  <2> QED BY <1>4, <2>1 DEF UpnpStartFails, StartFailed, mapVars, UpnpTypeOK, MappingInv,
                            PortIsOwned, LostToAnother, Owned
<1>5. CASE UpnpStartUp
  <2>1. CallsTypeOK' /\ gen \in Gen /\ mapping[gen] = "none"
    BY <1>5, CallsStep DEF UpnpStartUp, StartDone, UpnpTypeOK, CallsTypeOK, Gen, MappingInv
  <2>2. UpnpTypeOK'
    BY <1>5, <2>1 DEF UpnpStartUp, UpnpTypeOK, MappingStage
  <2>3. MappingInv'
    BY <1>5, <2>1 DEF UpnpStartUp, StartDone, UpnpTypeOK, MappingInv, Gen, CallsTypeOK
  <2>4. PortIsOwned'
    <3>1. ASSUME NEW x \in Gateway, Owned(x) PROVE Owned(x)'
      BY <1>5, <2>1, <3>1 DEF UpnpStartUp, Owned, UpnpTypeOK
    <3> QED BY <1>5, <3>1 DEF UpnpStartUp, PortIsOwned, UpnpTypeOK
  <2>5. LostToAnother'
    BY <1>5, <2>1 DEF UpnpStartUp, LostToAnother, UpnpTypeOK
  <2> QED BY <2>2, <2>3, <2>4, <2>5
<1>6. ASSUME NEW g \in Gen, Search(g) \/ Stores(g) \/ Delete(g) PROVE UpnpInv'
  <2> USE DEF UpnpTypeOK, MappingStage
  <2>1. UNCHANGED callVars /\ CallsTypeOK'
    BY <1>6, CallsStep DEF Search, Stores, Delete, NoGateway, AddsPort, Refuses, AnswerLost,
                           Deletes, DeleteFails
  <2>2. ASSUME NEW x \in Gateway, AddsPort(g, x) PROVE UpnpInv'
    <3>1. UpnpTypeOK' /\ MappingInv'
      BY <2>1, <2>2 DEF AddsPort, Asks, MappingInv, callVars
    <3>2. PortIsOwned'
      <4>1. ASSUME NEW y \in Gateway, Owned(y) PROVE Owned(y)'
        BY <2>2, <4>1 DEF AddsPort, Asks, Owned
      <4>2. Owned(x)'
        BY <2>2 DEF AddsPort, Owned
      <4> QED BY <2>2, <4>1, <4>2 DEF AddsPort, PortIsOwned
    <3>3. LostToAnother'
      BY <2>2 DEF AddsPort, Asks, LostToAnother
    <3> QED BY <3>1, <3>2, <3>3
  <2>3. ASSUME NEW x \in Gateway, Refuses(g, x) PROVE UpnpInv'
    BY <2>1, <2>3 DEF Refuses, Asks, MappingInv, callVars, PortIsOwned, Owned, LostToAnother
  <2>4. ASSUME NEW x \in Gateway, AnswerLost(g, x) PROVE UpnpInv'
    BY <2>1, <2>4 DEF AnswerLost, Asks, MappingInv, callVars, PortIsOwned, Owned, LostToAnother
  <2>5. CASE NoGateway(g)
    BY <2>1, <2>5 DEF NoGateway, MappingInv, callVars, PortIsOwned, Owned, LostToAnother
  <2>6. CASE Stores(g)
    <3> DEFINE Dropped(h) == session # 0 /\ h = slot
               Kept == IF session = 0 THEN "deleting" ELSE "stored"
    <3>1. mapping[g] = "held" /\ UNCHANGED <<tried, at, mapped, orphaned>>
      BY <2>6 DEF Stores
    <3>2. slot' = IF session = 0 THEN slot ELSE g
      BY <2>6 DEF Stores
    <3>3. mapping' = [h \in Gen |-> IF h = g THEN Kept
                                    ELSE IF Dropped(h) THEN "deleting" ELSE mapping[h]]
      <4>1. CASE session = 0
        BY <2>6, <4>1 DEF Stores
      <4>2. CASE session # 0
        BY <2>6, <4>2 DEF Stores, SlotDropped
      <4> QED BY <4>1, <4>2
    <3>4. UpnpTypeOK'
      <4>1. mapping' \in [Gen -> MappingStage]
        BY <3>3
      <4>2. slot' \in 0 .. MaxGen
        BY <3>2 DEF Gen
      <4> QED BY <2>1, <3>1, <4>1, <4>2
    <3>5. slot # g /\ (slot # 0 => mapping[slot] = "stored")
      BY <3>1, CallsAssumption DEF MappingInv, Gen
    <3>6. MappingInv'
      <4> SUFFICES ASSUME NEW h \in Gen
                   PROVE  /\ h > gen \/ (h = gen /\ api = "starting") => mapping'[h] = "none"
                          /\ mapping'[h] = "stored" <=> slot' = h
                          /\ mapping'[h] \in {"held", "stored", "deleting"} => at[h] \in Gateway
        BY <2>1, <3>1 DEF MappingInv, callVars
      <4>1. CASE h = g
        BY <4>1, <3>1, <3>2, <3>3, <3>5 DEF MappingInv
      <4>2. CASE h # g
        BY <4>2, <3>1, <3>2, <3>3, <3>5 DEF MappingInv
      <4> QED BY <4>1, <4>2
    <3>7. PortIsOwned'
      <4>1. ASSUME NEW y \in Gateway, Owned(y) PROVE Owned(y)'
        BY <3>1, <3>3, <4>1 DEF Owned
      <4> QED BY <3>1, <4>1 DEF PortIsOwned
    <3>8. LostToAnother'
      <4> SUFFICES ASSUME NEW h \in Gen, mapping'[h] \in {"held", "stored"}, at[h] \notin mapped
                   PROVE  \E k \in Gen \ {h} : at[k] = at[h] /\ mapping'[k] = "gone"
        BY <3>1 DEF LostToAnother
      <4>1. mapping[h] \in {"held", "stored"}
        BY <3>1, <3>3
      <4>2. PICK k \in Gen \ {h} : at[k] = at[h] /\ mapping[k] = "gone"
        BY <4>1 DEF LostToAnother
      <4>3. mapping'[k] = "gone"
        <5>1. k \in Gen /\ k # g /\ ~Dropped(k)
          BY <3>1, <4>2 DEF MappingInv
        <5> HIDE DEF Dropped, Kept
        <5> QED BY <3>3, <4>2, <5>1
      <4> QED BY <4>2, <4>3
    <3> QED BY <3>4, <3>6, <3>7, <3>8
  <2>7. CASE Deletes(g)
    <3>1. UpnpTypeOK' /\ MappingInv'
      BY <2>1, <2>7 DEF Deletes, MappingInv, callVars
    <3>2. PortIsOwned'
      <4>1. ASSUME NEW y \in Gateway \ {at[g]}, Owned(y) PROVE Owned(y)'
        BY <2>7, <4>1 DEF Deletes, Owned
      <4> QED BY <2>7, <4>1 DEF Deletes, PortIsOwned
    <3>3. LostToAnother'
      <4> SUFFICES ASSUME NEW h \in Gen, mapping'[h] \in {"held", "stored"},
                          at[h] \notin mapped'
                   PROVE  \E k \in Gen \ {h} : at[k] = at[h] /\ mapping'[k] = "gone"
        BY <2>7 DEF LostToAnother, Deletes
      <4>1. h # g /\ mapping[h] \in {"held", "stored"}
        BY <2>7 DEF Deletes
      <4>2. CASE at[h] = at[g]
        BY <2>7, <4>1, <4>2 DEF Deletes
      <4>3. CASE at[h] # at[g]
        <5>1. PICK k \in Gen \ {h} : at[k] = at[h] /\ mapping[k] = "gone"
          BY <2>7, <4>1, <4>3 DEF Deletes, LostToAnother
        <5> QED BY <2>7, <5>1 DEF Deletes
      <4> QED BY <4>2, <4>3
    <3> QED BY <3>1, <3>2, <3>3
  <2>8. CASE DeleteFails(g)
    <3>1. UpnpTypeOK' /\ MappingInv'
      BY <2>1, <2>8 DEF DeleteFails, MappingInv, callVars
    <3>2. PortIsOwned'
      BY <2>8 DEF DeleteFails, PortIsOwned, Owned, OwnedByOther
    <3>3. LostToAnother'
      BY <2>8 DEF DeleteFails, LostToAnother
    <3> QED BY <3>1, <3>2, <3>3
  <2> QED BY <1>6, <2>2, <2>3, <2>4, <2>5, <2>6, <2>7, <2>8 DEF Search, Delete
<1> QED BY <1>1, <1>2, <1>3, <1>4, <1>5, <1>6 DEF UpnpNext

LEMMA UpnpInvariant == UpnpSpec => []UpnpInv
  BY UpnpStart, UpnpInductive, PTL DEF UpnpSpec

\* Every port that is open at a gateway has a mapping that will close it, or a
\* gateway that failed.
THEOREM PortOwnership == UpnpSpec => [](UpnpTypeOK /\ PortIsOwned)
  BY UpnpInvariant, PTL DEF UpnpInv

LEMMA LostInSlot == UpnpInv => ClosedByAnother
  BY DEF UpnpInv, UpnpTypeOK, MappingInv, LostToAnother, ClosedByAnother, Gen

\* A session whose port is closed lost it to the drop of another mapping.
THEOREM ClosedOnlyByAnother == UpnpSpec => []ClosedByAnother
  BY LostInSlot, UpnpInvariant, PTL

-----------------------------------------------------------------------------
(* The tasks *)

\* The loops of a session begin with its store.
LoopsInv == \A g \in Gen : g > gen => presence[g] = "none" /\ events[g] = "none"

TasksInv == TasksTypeOK /\ LoopsInv /\ StrayFromFailedStart

LEMMA TasksStart == TasksInit => TasksInv
  BY CallsAssumption
  DEF TasksInit, CallsInit, TasksInv, TasksTypeOK, CallsTypeOK, LoopsInv, StrayFromFailedStart,
      Running, Gen

LEMMA TasksInductive == TasksInv /\ [TasksNext]_tasksVars => TasksInv'
<1> SUFFICES ASSUME TasksInv, [TasksNext]_tasksVars PROVE TasksInv'
    OBVIOUS
<1> USE DEF TasksInv, TasksTypeOK
<1>1. CASE UNCHANGED tasksVars
  BY <1>1 DEF tasksVars, callVars, taskVars, CallsTypeOK, LoopsInv, StrayFromFailedStart, Running
<1>2. ASSUME NEW enableE4mc \in BOOLEAN, TasksCallStart(enableE4mc) PROVE TasksInv'
  <2>1. CallsTypeOK' /\ gen' = gen + 1
    BY <1>2, CallsStep DEF TasksCallStart, StartCalled
  <2>2. TasksTypeOK'
    BY <1>2, <2>1 DEF TasksCallStart
  <2>3. LoopsInv'
    BY <1>2, <2>1, CallsAssumption DEF TasksCallStart, LoopsInv, CallsTypeOK, Gen
  <2>4. StrayFromFailedStart'
    <3> SUFFICES ASSUME NEW g \in Gen, Running(g)'
                 PROVE  g \in cancelled' \/ (presence[g] = "none" /\ events[g] = "none")
      BY <1>2 DEF StrayFromFailedStart, TasksCallStart
    <3>1. CASE g = gen + 1
      BY <3>1, CallsAssumption DEF LoopsInv, Gen, CallsTypeOK
    <3>2. CASE g # gen + 1
      <4>1. Running(g)
        BY <1>2, <3>2 DEF TasksCallStart, Running
      <4>2. session # 0 => session \in cancelled'
        BY <1>2 DEF TasksCallStart, StartCalled, ResetTakes
      <4>3. cancelled \subseteq cancelled' /\ g # 0
        BY <1>2, CallsAssumption DEF TasksCallStart, StartCalled, ResetTakes, Gen
      <4> QED BY <4>1, <4>2, <4>3 DEF StrayFromFailedStart
    <3> QED BY <3>1, <3>2
  <2> QED BY <2>2, <2>3, <2>4
<1>3. CASE TasksCallStop
  <2>1. CallsTypeOK' /\ gen' = gen /\ UNCHANGED taskVars
    BY <1>3, CallsStep DEF TasksCallStop, StopCalled
  <2>2. TasksTypeOK' /\ LoopsInv'
    BY <2>1 DEF taskVars, LoopsInv
  <2>3. cancelled \subseteq cancelled' /\ (session # 0 => session \in cancelled') /\ 0 \notin Gen
    BY <1>3, CallsAssumption DEF TasksCallStop, StopCalled, ResetTakes, Gen
  <2>4. StrayFromFailedStart'
    BY <2>1, <2>3 DEF StrayFromFailedStart, Running, taskVars
  <2> QED BY <2>2, <2>4
<1>4. CASE TasksStartFails
  <2>1. CallsTypeOK' /\ UNCHANGED <<gen, session, cancelled, taskVars>>
    BY <1>4, CallsStep DEF TasksStartFails, StartFailed
  <2> QED BY <2>1 DEF taskVars, LoopsInv, StrayFromFailedStart, Running
<1>5. CASE TasksStartUp
  <2>1. CallsTypeOK' /\ session = 0 /\ session' = gen /\ UNCHANGED <<gen, cancelled>>
    BY <1>5, CallsStep DEF TasksStartUp, StartDone, CallsTypeOK
  <2>2. TasksTypeOK'
    BY <1>5, <2>1 DEF TasksStartUp
  <2>3. LoopsInv'
    <3>1. \A g \in Gen : g > gen => g # gen
      BY CallsAssumption DEF Gen, CallsTypeOK
    <3> QED BY <1>5, <2>1, <3>1 DEF TasksStartUp, LoopsInv
  <2>4. StrayFromFailedStart'
    <3> SUFFICES ASSUME NEW g \in Gen, Running(g)', g # gen
                 PROVE  g \in cancelled \/ (presence'[g] = "none" /\ events'[g] = "none")
      BY <2>1 DEF StrayFromFailedStart
    <3>1. Running(g) /\ presence'[g] = presence[g] /\ events'[g] = events[g]
      BY <1>5 DEF TasksStartUp, Running
    <3>2. g # 0
      BY CallsAssumption DEF Gen
    <3> QED BY <2>1, <3>1, <3>2 DEF StrayFromFailedStart
  <2> QED BY <2>2, <2>3, <2>4
<1>6. ASSUME NEW g \in Gen, Task(g) \/ RequestEnds(g) PROVE TasksInv'
  <2> USE DEF EnterPosted, EnterDone, PresenceEnds, SourceEnds, Reconnects, EventsCancelled,
              E4mcEnds, RequestEnds
  <2>1. UNCHANGED callVars
    BY <1>6 DEF Task
  <2>2. TasksTypeOK'
    BY <1>6, <2>1, CallsStep DEF Task
  <2>3. \A h \in Gen : presence[h] = "none" /\ events[h] = "none"
                            => presence'[h] = "none" /\ events'[h] = "none"
    BY <1>6 DEF Task
  <2>4. LoopsInv'
    <3>1. gen' = gen
      BY <2>1 DEF callVars
    <3> QED BY <2>3, <3>1 DEF LoopsInv
  <2>5. StrayFromFailedStart'
    <3> SUFFICES ASSUME NEW h \in Gen, Running(h)'
                 PROVE  \/ h = session \/ h \in cancelled
                        \/ (presence'[h] = "none" /\ events'[h] = "none")
      BY <2>1 DEF StrayFromFailedStart, callVars
    <3>1. Running(h)
      BY <1>6 DEF Task, Running
    <3> QED BY <2>3, <3>1 DEF StrayFromFailedStart
  <2> QED BY <2>2, <2>4, <2>5
<1> QED BY <1>1, <1>2, <1>3, <1>4, <1>5, <1>6 DEF TasksNext

\* No task of a session is beyond the reach of a reset but the e4mc loop of a start
\* that failed.
THEOREM TasksReachable == TasksSpec => [](TasksTypeOK /\ StrayFromFailedStart)
<1>1. TasksSpec => []TasksInv
  BY TasksStart, TasksInductive, PTL DEF TasksSpec
<1> QED BY <1>1, PTL DEF TasksInv
==============================================================================

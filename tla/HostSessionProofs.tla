-------------------------- MODULE HostSessionProofs --------------------------
(***************************************************************************)
(* The safety invariants of HostSession for every number of players,       *)
(* connections, punches and sessions.  Each section strengthens one        *)
(* invariant until it is inductive and proves it on top of the sections    *)
(* before it.                                                              *)
(***************************************************************************)
EXTENDS HostSession, TLAPS

-----------------------------------------------------------------------------
(* The operations on the status keep it a status. *)

LEMMA UpsertPeerType ==
    ASSUME NEW st \in Status, NEW k \in Key, NEW l \in Listing
    PROVE  UpsertPeer(st, k, l) \in Status
BY DEF UpsertPeer, Status, HostState, Mode, State, Listing

LEMMA MarkPeerDisconnectedType ==
    ASSUME NEW st \in Status, NEW k \in Key
    PROVE  MarkPeerDisconnected(st, k) \in Status
BY DEF MarkPeerDisconnected, Status, Mode, State, Listing

LEMMA DropUnconnectedType ==
    ASSUME NEW st \in Status, NEW k \in Key
    PROVE  DropUnconnected(st, k) \in Status
BY DEF DropUnconnected, Status, Mode, State, Listing

LEMMA FreshType ==
    ASSUME NEW m \in Mode, NEW s \in State
    PROVE  Fresh(m, s) \in Status
BY DEF Fresh, Status, Mode, State, Listing

LEMMA KeyType ==
    ASSUME NEW p \in Peer
    PROVE  /\ Id(p) \in Key /\ Addr(p) \in Key
           /\ \A q \in Peer : Id(p) = Id(q) => p = q
BY DEF Key, Id, Addr

-----------------------------------------------------------------------------
(* Types.  That a new generation is within the bound is known when the call    *)
(* begins and used after the reset.                                            *)

GenInv ==
    /\ api = "startCleared" => gen < MaxGen
    /\ api = "starting" => gen # 0
    /\ api = "punching" <=> apiPunch # None
    /\ api = "kicked" => apiKey # None

TypeInv == TypeOK /\ GenInv

LEMMA TypeInit == Init => TypeInv
<1> SUFFICES ASSUME Init PROVE TypeInv
    OBVIOUS
<1>1. status \in Status
    BY FreshType DEF Init, Mode, State
<1>2. PICK p \in Peer : connKey = [c \in Conn |-> Id(p)] /\ punchKey = [i \in Punch |-> Id(p)]
    BY DEF Init
<1>3. connKey \in [Conn -> Key] /\ punchKey \in [Punch -> Key]
    BY <1>2, KeyType
<1> QED
    BY <1>1, <1>3, HostAssumption
    DEF Init, TypeInv, TypeOK, GenInv, Gen, ApiStage, ConnStage, TimerStage, RelayStage

LEMMA ResetTakeType ==
    ASSUME TypeInv, ResetTake
    PROVE  /\ session' \in 0 .. gen /\ cancelled' \subseteq Gen /\ open' \subseteq Conn
           /\ live' \in [Gen -> [Key -> Conn \cup {None}]]
           /\ relays' \in [Gen -> [Key -> Punch \cup {None}]]
           /\ relay' \in [Punch -> RelayStage]
<1>1. CASE session = 0
    BY <1>1 DEF TypeInv, TypeOK, ResetTake
<1>2. CASE session # 0
    <2>1. session \in Gen /\ session' = 0 /\ 0 \in 0 .. gen
        BY <1>2, HostAssumption DEF TypeInv, TypeOK, Gen, ResetTake
    <2>2. cancelled' \subseteq Gen /\ open' \subseteq Conn
        BY <1>2, <2>1 DEF TypeInv, TypeOK, ResetTake
    <2>3. live' \in [Gen -> [Key -> Conn \cup {None}]]
        BY <1>2, <2>1 DEF TypeInv, TypeOK, ResetTake
    <2>4. relays' \in [Gen -> [Key -> Punch \cup {None}]]
        BY <1>2, <2>1 DEF TypeInv, TypeOK, ResetTake
    <2>5. relay' \in [Punch -> RelayStage]
        BY <1>2, <2>1 DEF TypeInv, TypeOK, ResetTake, RelayStage
    <2> QED
        BY <2>1, <2>2, <2>3, <2>4, <2>5
<1> QED
    BY <1>1, <1>2

LEMMA TypeStep == TypeInv /\ [Next]_vars => TypeInv'
<1> SUFFICES ASSUME TypeInv, [Next]_vars PROVE TypeInv'
    OBVIOUS
<1> USE HostAssumption
    DEF TypeInv, TypeOK, GenInv, ApiStage, apiVars, genVars, connVars, punchVars
<1>1. CASE CallStart
    BY <1>1, ResetTakeType DEF CallStart, ResetTake
<1>2. CASE CallStop
    BY <1>2, ResetTakeType DEF CallStop, ResetTake
<1>3. CASE StopStatus
    BY <1>3, FreshType DEF StopStatus, Mode, State
<1>4. CASE HostStarting
    BY <1>4, FreshType DEF HostStarting, Mode, State
<1>5. CASE HostFails
    BY <1>5, FreshType DEF HostFails, MarkFatal, Mode, State
<1>6. CASE HostUp
    BY <1>6, FreshType DEF HostUp, Mode, State, Gen
<1>7. ASSUME NEW i \in Punch, NEW p \in Peer, NEW announced \in BOOLEAN,
             CallPunch(i, p, announced)
      PROVE  TypeInv'
    <2>1. status' \in Status
        BY <1>7 DEF CallPunch, Status, State
    <2>2. (IF announced THEN Id(p) ELSE Addr(p)) \in Key
        BY KeyType
    <2> QED
        BY <1>7, <2>1, <2>2 DEF CallPunch, Gen
<1>8. ASSUME NEW withRelay \in BOOLEAN, PunchSpawn(withRelay)
      PROVE  TypeInv'
    <2>1. apiPunch \in Punch
        BY <1>8 DEF PunchSpawn
    <2>2. status' \in Status
        BY <1>8, <2>1, UpsertPeerType DEF PunchSpawn, Listing
    <2> QED
        BY <1>8, <2>1, <2>2 DEF PunchSpawn, TimerStage, RelayStage
<1>9. ASSUME NEW k \in Key, CallKick(k)
      PROVE  TypeInv'
    BY <1>9 DEF CallKick, Gen
<1>10. CASE KickMark
    BY <1>10, MarkPeerDisconnectedType DEF KickMark
<1>11. ASSUME NEW i \in Punch, TimerFires(i)
       PROVE  TypeInv'
    BY <1>11, DropUnconnectedType DEF TimerFires, TimerStage
<1>12. ASSUME NEW i \in Punch, RelayArm(i)
       PROVE  TypeInv'
    BY <1>12 DEF RelayArm, RelayStage
<1>13. ASSUME NEW i \in Punch, RelayGivesUp(i)
       PROVE  TypeInv'
    BY <1>13 DEF RelayGivesUp, RelayStage
<1>14. ASSUME NEW c \in Conn, NEW p \in Peer, NEW g \in Gen, Accept(c, p, g)
       PROVE  TypeInv'
    <2>1. (IF p \in expected[g] THEN Id(p) ELSE Addr(p)) \in Key
        BY KeyType
    <2> QED
        BY <1>14, <2>1 DEF Accept, ConnStage, RelayStage, Accepting
<1>15. ASSUME NEW c \in Conn, AcceptShow(c)
       PROVE  TypeInv'
    BY <1>15, UpsertPeerType DEF AcceptShow, Listing, ConnStage, Accepting
<1>16. ASSUME NEW c \in Conn, AcceptSpawn(c)
       PROVE  TypeInv'
    BY <1>16 DEF AcceptSpawn, ConnStage, Handling
<1>17. ASSUME NEW g \in Gen, LoopEnds(g)
       PROVE  TypeInv'
    BY <1>17 DEF LoopEnds, ConnStage
<1>18. ASSUME NEW c \in Conn, HandlerRemoves(c)
       PROVE  TypeInv'
    BY <1>18 DEF HandlerRemoves, ConnStage, Handling
<1>19. ASSUME NEW c \in Conn, NEW proxies \in BOOLEAN, HandlerMarks(c, proxies)
       PROVE  TypeInv'
    BY <1>19, MarkPeerDisconnectedType DEF HandlerMarks, ConnStage
<1>20. ASSUME NEW c \in Conn, ProxiesEnd(c) \/ RemoteCloses(c) \/ ImplicitClose(c)
       PROVE  TypeInv'
    BY <1>20 DEF ProxiesEnd, RemoteCloses, ImplicitClose
<1>21. CASE UNCHANGED vars
    BY <1>21 DEF vars
<1> QED
    BY <1>1, <1>2, <1>3, <1>4, <1>5, <1>6, <1>7, <1>8, <1>9, <1>10, <1>11, <1>12, <1>13,
       <1>14, <1>15, <1>16, <1>17, <1>18, <1>19, <1>20, <1>21
    DEF Next, Environment, ApiStep, RelayTask, AcceptStep, Handler

LEMMA TypeInvariant == Spec => []TypeInv
BY TypeInit, TypeStep, PTL DEF Spec

\* Every reachable state of the host has the types TypeOK gives it; in particular
\* no task makes a session or a status the manager does not know.
THEOREM TypeCorrect == Spec => []TypeOK
<1>1. TypeInv => TypeOK
    BY DEF TypeInv
<1> QED
    BY <1>1, TypeInvariant, PTL

-----------------------------------------------------------------------------
(* The status.  A write is honest because the operation makes it so from an    *)
(* honest status, whoever calls it and when; only Punching depends on the      *)
(* mode, and a session there is only under the mode Host.                      *)

Honest(st) ==
    /\ st.mode = "Host" /\ st.state = "Connected" => AnyConnected(st.peers)
    /\ st.mode = "Idle" => st.state = "Idle"

StatusInv ==
    /\ Honest(status)
    /\ session # 0 => status.mode = "Host"
    /\ api = "stopCleared" => session = 0

LEMMA UpsertPeerHonest ==
    ASSUME NEW st \in Status, NEW k \in Key, NEW l \in Listing, Honest(st)
    PROVE  Honest(UpsertPeer(st, k, l)) /\ UpsertPeer(st, k, l).mode = st.mode
BY DEF Honest, UpsertPeer, HostState, Status, Mode, State

LEMMA MarkPeerDisconnectedHonest ==
    ASSUME NEW st \in Status, NEW k \in Key, Honest(st)
    PROVE  /\ Honest(MarkPeerDisconnected(st, k))
           /\ MarkPeerDisconnected(st, k).mode = st.mode
BY DEF Honest, MarkPeerDisconnected, Status, Mode, State, AnyConnected

LEMMA DropUnconnectedHonest ==
    ASSUME NEW st \in Status, NEW k \in Key, Honest(st)
    PROVE  Honest(DropUnconnected(st, k)) /\ DropUnconnected(st, k).mode = st.mode
<1> DEFINE dropped == DropUnconnected(st, k)
<1>1. dropped.mode = st.mode /\ dropped.state = st.state
    BY DEF DropUnconnected, Status
<1>2. \A j \in Key : st.peers[j] = "connected" => dropped.peers[j] = "connected"
    BY DEF DropUnconnected, Status
<1> QED
    BY <1>1, <1>2 DEF Honest, AnyConnected

LEMMA FreshHonest ==
    ASSUME NEW m \in Mode, NEW s \in State, m = "Idle" => s = "Idle", s # "Connected"
    PROVE  Honest(Fresh(m, s)) /\ Fresh(m, s).mode = m
BY DEF Honest, Fresh

LEMMA StatusInit == Init => StatusInv
BY FreshHonest DEF Init, StatusInv, Mode, State

LEMMA StatusStep == TypeInv /\ StatusInv /\ [Next]_vars => StatusInv'
<1> SUFFICES ASSUME TypeInv, StatusInv, [Next]_vars PROVE StatusInv'
    OBVIOUS
<1> status \in Status /\ connKey \in [Conn -> Key] /\ punchKey \in [Punch -> Key]
    BY DEF TypeInv, TypeOK
<1> USE DEF StatusInv
<1>1. ASSUME UNCHANGED status, session' = 0 \/ UNCHANGED <<session, api>>
      PROVE  StatusInv'
    BY <1>1
<1>2. ASSUME Honest(status'), status'.mode = status.mode, UNCHANGED session,
             api' # "stopCleared"  \/ UNCHANGED api
      PROVE  StatusInv'
    BY <1>2
<1>3. CASE CallStart \/ CallStop
    BY <1>1, <1>3 DEF CallStart, CallStop, ResetTake
<1>4. CASE StopStatus
    BY <1>4, FreshHonest DEF StopStatus, genVars, Mode, State
<1>5. CASE HostStarting
    BY <1>5, FreshHonest DEF HostStarting, Mode, State
<1>6. CASE HostFails
    BY <1>6, FreshHonest DEF HostFails, MarkFatal, genVars, Mode, State
<1>7. CASE HostUp
    BY <1>7, FreshHonest DEF HostUp, Mode, State
<1>8. ASSUME NEW i \in Punch, NEW p \in Peer, NEW announced \in BOOLEAN,
             CallPunch(i, p, announced)
      PROVE  StatusInv'
    BY <1>8 DEF CallPunch, Honest, Status, genVars
<1>9. ASSUME NEW withRelay \in BOOLEAN, PunchSpawn(withRelay)
      PROVE  StatusInv'
    <2>1. apiPunch \in Punch
        BY <1>9 DEF PunchSpawn, TypeInv, TypeOK, GenInv
    <2> QED
        BY <1>2, <1>9, <2>1, UpsertPeerHonest DEF PunchSpawn, genVars, Listing
<1>10. ASSUME NEW k \in Key, CallKick(k)
       PROVE  StatusInv'
    BY <1>2, <1>10 DEF CallKick, genVars
<1>11. CASE KickMark
    <2>1. apiKey \in Key
        BY <1>11 DEF KickMark, TypeInv, TypeOK, GenInv
    <2> QED
        BY <1>2, <1>11, <2>1, MarkPeerDisconnectedHonest DEF KickMark, genVars
<1>12. ASSUME NEW i \in Punch, TimerFires(i)
       PROVE  StatusInv'
    BY <1>2, <1>12, DropUnconnectedHonest DEF TimerFires, apiVars, genVars
<1>13. ASSUME NEW i \in Punch, RelayTask(i)
       PROVE  StatusInv'
    BY <1>1, <1>13 DEF RelayTask, RelayArm, RelayGivesUp, apiVars, genVars
<1>14. ASSUME NEW c \in Conn, AcceptShow(c)
       PROVE  StatusInv'
    BY <1>2, <1>14, UpsertPeerHonest DEF AcceptShow, apiVars, genVars, Listing
<1>15. ASSUME NEW c \in Conn, NEW proxies \in BOOLEAN, HandlerMarks(c, proxies)
       PROVE  StatusInv'
    BY <1>2, <1>15, MarkPeerDisconnectedHonest DEF HandlerMarks, apiVars, genVars
<1>16. ASSUME NEW c \in Conn, NEW p \in Peer, NEW g \in Gen, Accept(c, p, g)
       PROVE  StatusInv'
    BY <1>1, <1>16 DEF Accept, apiVars, genVars
<1>17. ASSUME NEW c \in Conn,
              \/ AcceptSpawn(c) \/ HandlerRemoves(c)
              \/ ProxiesEnd(c) \/ RemoteCloses(c) \/ ImplicitClose(c)
       PROVE  StatusInv'
    BY <1>1, <1>17 DEF AcceptSpawn, HandlerRemoves, ProxiesEnd, RemoteCloses, ImplicitClose,
                       apiVars, genVars
<1>18. ASSUME NEW g \in Gen, LoopEnds(g)
       PROVE  StatusInv'
    BY <1>1, <1>18 DEF LoopEnds, apiVars
<1>19. CASE UNCHANGED vars
    BY <1>1, <1>19 DEF vars, genVars, apiVars
<1> QED
    BY <1>3, <1>4, <1>5, <1>6, <1>7, <1>8, <1>9, <1>10, <1>11, <1>12, <1>13, <1>14, <1>15,
       <1>16, <1>17, <1>18, <1>19
    DEF Next, Environment, ApiStep, RelayTask, AcceptStep, Handler

LEMMA StatusInvariant == Spec => []StatusInv
BY StatusInit, StatusStep, TypeInvariant, PTL DEF Spec

\* A host shown as Connected lists a connected player, for any number of sessions
\* whose handlers, timers and accept loops still write the status.
THEOREM StatusBacked == Spec => []ConnectedIsBacked
<1>1. StatusInv => ConnectedIsBacked
    BY DEF StatusInv, Honest, ConnectedIsBacked
<1> QED
    BY <1>1, StatusInvariant, PTL

\* Nothing an ended session left behind makes an idle manager look busy.
THEOREM StatusIdle == Spec => []IdleStaysIdle
<1>1. StatusInv => IdleStaysIdle
    BY DEF StatusInv, Honest, IdleStaysIdle
<1> QED
    BY <1>1, StatusInvariant, PTL

-----------------------------------------------------------------------------
(* The relays.  A punch that is not under way has no relay, in a task or in a  *)
(* slot, so a call that gives a punch its key and its session moves no slot.   *)

RelayInv ==
    /\ \A i \in Punch : relay[i] = "armed" => relays[punchGen[i]][punchKey[i]] = i
    /\ \A i \in Punch : timer[i] = "none" => relay[i] = "none"
    /\ \A g \in Gen, k \in Key : relays[g][k] # None => timer[relays[g][k]] # "none"

relayVars == <<relays, relay, punchKey, punchGen, timer, cancelled>>

LEMMA RelayInit == Init => RelayInv
BY DEF Init, RelayInv

LEMMA RelayReset ==
    ASSUME TypeInv, RelayInv, ResetTake
    PROVE  RelayInv'
<1> USE DEF TypeInv, TypeOK, RelayInv
<1>1. CASE session = 0
    BY <1>1 DEF ResetTake
<1>2. CASE session # 0
    <2>0. session \in Gen
        BY <1>2, HostAssumption DEF Gen
    <2>1. \A i \in Punch : relay'[i] = relay[i] \/ relay'[i] = "cancelled"
        BY <1>2 DEF ResetTake
    <2>2. \A i \in Punch : punchGen[i] # session => relays'[punchGen[i]] = relays[punchGen[i]]
        BY <1>2 DEF ResetTake
    <2>3. \A i \in Punch : relay'[i] = "armed" => relays'[punchGen[i]][punchKey[i]] = i
        <3>1. \A i \in Punch : relay[i] = "armed" /\ punchGen[i] = session => i \in ArmedRelays(session)
            BY HostAssumption DEF ArmedRelays
        <3> QED
            BY <1>2, <2>1, <2>2, <3>1 DEF ResetTake
    <2>4. \A i \in Punch : timer[i] = "none" => i \notin ArmedRelays(session)
        BY <2>0 DEF ArmedRelays
    <2>5. \A i \in Punch : timer'[i] = "none" => relay'[i] = "none"
        BY <1>2, <2>4 DEF ResetTake
    <2>6. \A g \in Gen, k \in Key : relays'[g][k] = IF g = session THEN None ELSE relays[g][k]
        BY <1>2, <2>0 DEF ResetTake
    <2> QED
        BY <2>3, <2>5, <2>6 DEF ResetTake
<1> QED
    BY <1>1, <1>2

LEMMA RelayStep == TypeInv /\ RelayInv /\ [Next]_vars => RelayInv'
<1> SUFFICES ASSUME TypeInv, RelayInv, [Next]_vars PROVE RelayInv'
    OBVIOUS
<1>1. ASSUME UNCHANGED relayVars
      PROVE  RelayInv'
    BY <1>1 DEF relayVars, RelayInv
<1>2. CASE CallStart \/ CallStop
    BY <1>2, RelayReset DEF CallStart, CallStop
<1>3. ASSUME NEW i \in Punch, NEW p \in Peer, NEW announced \in BOOLEAN,
             CallPunch(i, p, announced)
      PROVE  RelayInv'
    BY <1>3 DEF CallPunch, genVars, RelayInv, TypeInv, TypeOK
<1>4. ASSUME NEW withRelay \in BOOLEAN, PunchSpawn(withRelay)
      PROVE  RelayInv'
    BY <1>4 DEF PunchSpawn, genVars, RelayInv, TypeInv, TypeOK, GenInv
<1>5. ASSUME NEW i \in Punch, TimerFires(i)
      PROVE  RelayInv'
    BY <1>5 DEF TimerFires, genVars, RelayInv, TypeInv, TypeOK
<1>6. ASSUME NEW i \in Punch, RelayArm(i)
      PROVE  RelayInv'
    <2> DEFINE g == punchGen[i]
               k == punchKey[i]
    <2>1. g \in Gen /\ k \in Key /\ timer[i] # "none" /\ i # None
        BY <1>6, HostAssumption DEF RelayArm, RelayInv, TypeInv, TypeOK
    <2>2. \A h \in Gen, m \in Key :
             relays'[h][m] = IF h = g /\ m = k THEN i ELSE relays[h][m]
        BY <1>6, <2>1 DEF RelayArm, TypeInv, TypeOK
    <2>3. \A j \in Punch : relay'[j] = IF j = i THEN "armed"
                                       ELSE IF j = relays[g][k] THEN "cancelled"
                                       ELSE relay[j]
        BY <1>6 DEF RelayArm
    <2>4. \A j \in Punch : relay'[j] = "armed" => relays'[punchGen'[j]][punchKey'[j]] = j
        BY <1>6, <2>1, <2>2, <2>3 DEF RelayArm, RelayInv, genVars, TypeInv, TypeOK
    <2>5. \A j \in Punch : timer'[j] = "none" => relay'[j] = "none"
        BY <1>6, <2>1, <2>3, HostAssumption DEF RelayArm, RelayInv
    <2>6. \A h \in Gen, m \in Key : relays'[h][m] # None => timer'[relays'[h][m]] # "none"
        BY <1>6, <2>1, <2>2 DEF RelayArm, RelayInv
    <2> QED
        BY <2>4, <2>5, <2>6 DEF RelayInv
<1>7. ASSUME NEW i \in Punch, RelayGivesUp(i)
      PROVE  RelayInv'
    BY <1>7 DEF RelayGivesUp, genVars, RelayInv, TypeInv, TypeOK
<1>8. ASSUME NEW c \in Conn, NEW p \in Peer, NEW g \in Gen, Accept(c, p, g)
      PROVE  RelayInv'
    <2> DEFINE k == IF p \in expected[g] THEN Id(p) ELSE Addr(p)
    <2>1. k \in Key
        BY KeyType
    <2>2. \A h \in Gen, m \in Key :
             relays'[h][m] = IF h = g /\ m = k THEN None ELSE relays[h][m]
        BY <1>8, <2>1 DEF Accept, TypeInv, TypeOK
    <2>3. \A i \in Punch : relay'[i] = IF i = relays[g][k] THEN "cancelled" ELSE relay[i]
        BY <1>8 DEF Accept
    <2>4. UNCHANGED <<punchKey, punchGen, timer, cancelled>>
        BY <1>8 DEF Accept, genVars
    <2>5. \A i \in Punch : relay'[i] = "armed" => relays'[punchGen'[i]][punchKey'[i]] = i
        BY <2>1, <2>2, <2>3, <2>4 DEF RelayInv, TypeInv, TypeOK
    <2>6. \A i \in Punch : timer'[i] = "none" => relay'[i] = "none"
        BY <2>1, <2>3, <2>4, HostAssumption DEF RelayInv
    <2> QED
        BY <2>2, <2>4, <2>5, <2>6 DEF RelayInv
<1>9. CASE StopStatus \/ HostStarting \/ HostFails \/ HostUp \/ KickMark
    BY <1>1, <1>9
    DEF StopStatus, HostStarting, HostFails, HostUp, KickMark, relayVars, genVars, punchVars
<1>10. ASSUME NEW k \in Key, CallKick(k)
       PROVE  RelayInv'
    BY <1>1, <1>10 DEF CallKick, relayVars, genVars, punchVars
<1>11. ASSUME NEW c \in Conn, AcceptStep(c) \/ Handler(c) \/ ImplicitClose(c)
       PROVE  RelayInv'
    BY <1>1, <1>11 DEF AcceptStep, AcceptShow, AcceptSpawn, Handler, HandlerRemoves,
        HandlerMarks, ImplicitClose, relayVars, genVars, punchVars
<1>12. ASSUME NEW c \in Conn, ProxiesEnd(c) \/ RemoteCloses(c)
       PROVE  RelayInv'
    BY <1>1, <1>12 DEF ProxiesEnd, RemoteCloses, relayVars, genVars, punchVars
<1>13. ASSUME NEW g \in Gen, LoopEnds(g)
       PROVE  RelayInv'
    BY <1>1, <1>13 DEF LoopEnds, relayVars, punchVars
<1>14. CASE UNCHANGED vars
    BY <1>1, <1>14 DEF vars, relayVars, genVars, punchVars
<1> QED
    BY <1>2, <1>3, <1>4, <1>5, <1>6, <1>7, <1>8, <1>9, <1>10, <1>11, <1>12, <1>13, <1>14
    DEF Next, Environment, ApiStep, RelayTask

LEMMA RelayInvariant == Spec => []RelayInv
BY RelayInit, RelayStep, TypeInvariant, PTL DEF Spec

\* An armed relay of a live session is in its player's slot, whatever the number
\* of punches that race for it: the next relay, a direct connection or the reset
\* finds it there.
THEOREM RelayIsOwned == Spec => []RelayOwned
<1>1. RelayInv => RelayOwned
    BY DEF RelayInv, RelayOwned
<1> QED
    BY <1>1, RelayInvariant, PTL

\* The accept of a connection finds the relay of its player, so that the two are
\* together only if the relay comes second: finding 1 is all there is of its kind.
THEOREM OnlyLateRelaysRun == Spec => OnlyLateRelays
<1>1. ASSUME TypeInv, RelayInv, [Next]_vars, NEW i \in Punch, NEW c \in Conn,
             Beside(i, c)', ~Beside(i, c)
      PROVE  relay[i] = "pending" /\ Active(c) /\ c \in open
    <2> DEFINE Goal == relay[i] = "pending" /\ Active(c) /\ c \in open
    <2> USE DEF TypeInv, TypeOK, Beside
    <2>1. ASSUME UNCHANGED <<relay, punchKey, punchGen, connGen, connKey>>,
                 Active(c)' => Active(c), c \in open' => c \in open
          PROVE  Goal
        BY <1>1, <2>1
    <2>2. CASE UNCHANGED <<relay, punchKey, punchGen, stage, connGen, connKey>> /\ open' \subseteq open
        BY <2>1, <2>2 DEF Active
    <2>3. CASE CallStart \/ CallStop
        <3>1. /\ open' \subseteq open /\ UNCHANGED <<stage, connGen, connKey, punchKey, punchGen>>
              /\ relay'[i] = relay[i] \/ relay'[i] = "cancelled"
            BY <2>3 DEF CallStart, CallStop, ResetTake
        <3> QED
            BY <1>1, <3>1 DEF Active
    <2>4. ASSUME NEW j \in Punch, NEW p \in Peer, NEW announced \in BOOLEAN,
                 CallPunch(j, p, announced)
          PROVE  Goal
        <3>1. relay'[i] = relay[i] /\ UNCHANGED <<stage, connGen, connKey, open>> /\ timer[j] = "none"
            BY <2>4 DEF CallPunch, connVars
        <3>2. i # j
            BY <1>1, <3>1 DEF RelayInv
        <3>3. punchKey'[i] = punchKey[i] /\ punchGen'[i] = punchGen[i]
            BY <2>4, <3>2 DEF CallPunch
        <3> QED
            BY <1>1, <3>1, <3>3 DEF Active
    <2>5. ASSUME NEW withRelay \in BOOLEAN, PunchSpawn(withRelay)
          PROVE  Goal
        <3>1. /\ relay'[i] = relay[i] \/ relay'[i] = "pending"
              /\ UNCHANGED <<stage, connGen, connKey, open, punchKey, punchGen>>
            BY <2>5 DEF PunchSpawn, connVars
        <3> QED
            BY <1>1, <3>1 DEF Active
    <2>6. ASSUME NEW j \in Punch, TimerFires(j)
          PROVE  Goal
        BY <2>2, <2>6 DEF TimerFires, connVars
    <2>7. ASSUME NEW j \in Punch, RelayArm(j) \/ RelayGivesUp(j)
          PROVE  Goal
        <3>1. /\ UNCHANGED <<stage, connGen, connKey, open, punchKey, punchGen>>
              /\ relay'[i] = "armed" => relay[i] = "armed" \/ relay[i] = "pending"
            <4>1. UNCHANGED <<stage, connGen, connKey, open, punchKey, punchGen>>
                BY <2>7 DEF RelayArm, RelayGivesUp, connVars
            <4>2. CASE RelayArm(j)
                BY <4>1, <4>2 DEF RelayArm
            <4>3. CASE RelayGivesUp(j)
                BY <1>1, <4>1, <4>3 DEF RelayGivesUp
            <4> QED
                BY <2>7, <4>1, <4>2, <4>3
        <3> QED
            BY <1>1, <3>1 DEF Active
    <2>8. ASSUME NEW d \in Conn, NEW p \in Peer, NEW g \in Gen, Accept(d, p, g)
          PROVE  Goal
        <3> DEFINE k == IF p \in expected[g] THEN Id(p) ELSE Addr(p)
        <3>1. /\ relay'[i] = IF i = relays[g][k] THEN "cancelled" ELSE relay[i]
              /\ UNCHANGED <<punchKey, punchGen>> /\ connGen'[d] = g /\ connKey'[d] = k
            <4>1. connGen' = [connGen EXCEPT ![d] = g] /\ connKey' = [connKey EXCEPT ![d] = k]
                BY <2>8 DEF Accept
            <4>2. relay' = [j \in Punch |-> IF j = relays[g][k] THEN "cancelled" ELSE relay[j]]
                  /\ UNCHANGED <<punchKey, punchGen>>
                BY <2>8 DEF Accept
            <4> QED
                BY <1>1, <4>1, <4>2
        <3>2. relay[i] = "armed" /\ relays[punchGen[i]][punchKey[i]] = i
            BY <1>1, <3>1 DEF RelayInv
        <3>3. c # d
            BY <1>1, <3>1, <3>2
        <3>4. /\ stage'[c] = stage[c] /\ connGen'[c] = connGen[c] /\ connKey'[c] = connKey[c]
              /\ c \in open' => c \in open
            BY <2>8, <3>3 DEF Accept
        <3> QED
            BY <1>1, <3>1, <3>2, <3>4 DEF Active
    <2>9. ASSUME NEW d \in Conn, AcceptStep(d) \/ Handler(d)
          PROVE  Goal
        <3>1. /\ UNCHANGED <<relay, punchKey, punchGen, connGen, connKey, open>>
              /\ stage[d] \in Accepting \cup Handling
              /\ \E v : stage' = [stage EXCEPT ![d] = v]
            BY <2>9 DEF AcceptStep, AcceptShow, AcceptSpawn, Handler, HandlerRemoves,
                        HandlerMarks, punchVars, Accepting, Handling
        <3>2. Active(c)' => Active(c)
            BY <3>1 DEF Active
        <3> QED
            BY <2>1, <3>1, <3>2
    <2>10. ASSUME NEW g \in Gen, LoopEnds(g)
           PROVE  Goal
        <3>1. /\ UNCHANGED <<relay, punchKey, punchGen, connGen, connKey, open>>
              /\ stage'[c] = stage[c] \/ stage'[c] = "done"
            BY <2>10 DEF LoopEnds, punchVars
        <3>2. Active(c)' => Active(c)
            BY <3>1 DEF Active, Accepting, Handling
        <3> QED
            BY <2>1, <3>1, <3>2
    <2>11. ASSUME NEW d \in Conn, ProxiesEnd(d) \/ RemoteCloses(d) \/ ImplicitClose(d)
           PROVE  Goal
        BY <2>2, <2>11 DEF ProxiesEnd, RemoteCloses, ImplicitClose, punchVars
    <2>12. ASSUME NEW k \in Key, CallKick(k)
           PROVE  Goal
        BY <2>2, <2>12 DEF CallKick, punchVars
    <2>13. CASE StopStatus \/ HostStarting \/ HostFails \/ HostUp \/ KickMark \/ UNCHANGED vars
        BY <2>2, <2>13
        DEF StopStatus, HostStarting, HostFails, HostUp, KickMark, vars, connVars, punchVars
    <2> QED
        BY <1>1, <2>3, <2>4, <2>5, <2>6, <2>7, <2>8, <2>9, <2>10, <2>11, <2>12, <2>13
        DEF Next, Environment, ApiStep, RelayTask
<1>2. TypeInv /\ RelayInv /\ [Next]_vars =>
        [\A i \in Punch, c \in Conn :
            Beside(i, c)' => Beside(i, c) \/ (relay[i] = "pending" /\ Active(c) /\ c \in open)]_vars
    BY <1>1
<1> QED
    BY <1>2, TypeInvariant, RelayInvariant, PTL DEF Spec, OnlyLateRelays

-----------------------------------------------------------------------------
(* The expected addresses. *)

punchingVars == <<expected, punchKey, punchGen, timer, apiPunch>>

LEMMA ExpectedInit == Init => ExpectedHasTimer
BY DEF Init, ExpectedHasTimer

LEMMA ExpectedStep == TypeInv /\ ExpectedHasTimer /\ [Next]_vars => ExpectedHasTimer'
<1> SUFFICES ASSUME TypeInv, ExpectedHasTimer, [Next]_vars PROVE ExpectedHasTimer'
    OBVIOUS
<1>1. ASSUME UNCHANGED punchingVars
      PROVE  ExpectedHasTimer'
    BY <1>1 DEF punchingVars, ExpectedHasTimer
<1>2. ASSUME NEW i \in Punch, NEW p \in Peer, NEW announced \in BOOLEAN,
             CallPunch(i, p, announced)
      PROVE  ExpectedHasTimer'
    <2> SUFFICES ASSUME NEW g \in Gen, NEW q \in expected'[g]
                 PROVE  \E j \in Punch : /\ punchGen'[j] = g /\ punchKey'[j] = Id(q)
                                         /\ timer'[j] = "waiting" \/ apiPunch' = j
        BY DEF ExpectedHasTimer
    <2>1. session \in Gen
        BY <1>2, HostAssumption DEF CallPunch, TypeInv, TypeOK, Gen
    <2>2. q \in expected[g] \/ (announced /\ q = p /\ g = session)
        BY <1>2, <2>1 DEF CallPunch, TypeInv, TypeOK
    <2>3. CASE q \in expected[g]
        <3>1. PICK j \in Punch : punchGen[j] = g /\ punchKey[j] = Id(q) /\ timer[j] = "waiting"
            BY <1>2, <2>3, HostAssumption DEF CallPunch, ExpectedHasTimer, TypeInv, GenInv
        <3>2. j # i
            BY <1>2, <3>1 DEF CallPunch
        <3> QED
            BY <1>2, <3>1, <3>2 DEF CallPunch, TypeInv, TypeOK
    <2>4. CASE announced /\ q = p /\ g = session
        BY <1>2, <2>4 DEF CallPunch, TypeInv, TypeOK
    <2> QED
        BY <2>2, <2>3, <2>4
<1>3. ASSUME NEW withRelay \in BOOLEAN, PunchSpawn(withRelay)
      PROVE  ExpectedHasTimer'
    BY <1>3 DEF PunchSpawn, ExpectedHasTimer, TypeInv, TypeOK, GenInv
<1>4. ASSUME NEW i \in Punch, TimerFires(i)
      PROVE  ExpectedHasTimer'
    <2> SUFFICES ASSUME NEW g \in Gen, NEW q \in expected'[g]
                 PROVE  \E j \in Punch : /\ punchGen'[j] = g /\ punchKey'[j] = Id(q)
                                         /\ timer'[j] = "waiting" \/ apiPunch' = j
        BY DEF ExpectedHasTimer
    <2>1. q \in expected[g] /\ (g = punchGen[i] => Id(q) # punchKey[i])
        BY <1>4 DEF TimerFires, TypeInv, TypeOK
    <2>2. PICK j \in Punch : /\ punchGen[j] = g /\ punchKey[j] = Id(q)
                             /\ timer[j] = "waiting" \/ apiPunch = j
        BY <2>1 DEF ExpectedHasTimer
    <2>3. j # i
        BY <2>1, <2>2
    <2> QED
        BY <1>4, <2>2, <2>3 DEF TimerFires, apiVars, TypeInv, TypeOK
<1>5. ASSUME NEW c \in Conn, NEW p \in Peer, NEW g \in Gen, Accept(c, p, g)
      PROVE  ExpectedHasTimer'
    <2>1. \A h \in Gen : expected'[h] \subseteq expected[h]
        BY <1>5 DEF Accept, TypeInv, TypeOK
    <2>2. UNCHANGED <<punchKey, punchGen, timer, apiPunch>>
        BY <1>5 DEF Accept, apiVars
    <2> QED
        BY <2>1, <2>2 DEF ExpectedHasTimer
<1>6. CASE CallStart \/ CallStop
    BY <1>1, <1>6 DEF CallStart, CallStop, ResetTake, punchingVars
<1>7. CASE StopStatus \/ HostStarting \/ HostFails \/ HostUp \/ KickMark
    BY <1>1, <1>7 DEF StopStatus, HostStarting, HostFails, HostUp, KickMark,
        punchingVars, punchVars
<1>8. ASSUME NEW k \in Key, CallKick(k)
      PROVE  ExpectedHasTimer'
    BY <1>1, <1>8 DEF CallKick, punchingVars, punchVars
<1>9. ASSUME NEW i \in Punch, RelayTask(i)
      PROVE  ExpectedHasTimer'
    BY <1>1, <1>9 DEF RelayTask, RelayArm, RelayGivesUp, punchingVars, apiVars
<1>10. ASSUME NEW c \in Conn, AcceptStep(c) \/ Handler(c) \/ ImplicitClose(c)
       PROVE  ExpectedHasTimer'
    BY <1>1, <1>10 DEF AcceptStep, AcceptShow, AcceptSpawn, Handler, HandlerRemoves,
        HandlerMarks, ImplicitClose, punchingVars, punchVars, apiVars
<1>11. ASSUME NEW c \in Conn, ProxiesEnd(c) \/ RemoteCloses(c)
       PROVE  ExpectedHasTimer'
    BY <1>1, <1>11 DEF ProxiesEnd, RemoteCloses, punchingVars, punchVars, apiVars
<1>12. ASSUME NEW g \in Gen, LoopEnds(g)
       PROVE  ExpectedHasTimer'
    BY <1>1, <1>12 DEF LoopEnds, punchingVars, punchVars, apiVars
<1>13. CASE UNCHANGED vars
    BY <1>1, <1>13 DEF vars, punchingVars, punchVars, apiVars
<1> QED
    BY <1>2, <1>3, <1>4, <1>5, <1>6, <1>7, <1>8, <1>9, <1>10, <1>11, <1>12, <1>13
    DEF Next, Environment, ApiStep

\* No address waits to be recognised without a punch task that will forget it.
THEOREM ExpectedIsTimed == Spec => []ExpectedHasTimer
BY ExpectedInit, ExpectedStep, TypeInvariant, PTL DEF Spec

-----------------------------------------------------------------------------
(* The live connections.  A connection counts from its acceptance on, and one  *)
(* generation's connections are accepted only after its session is current.    *)

Known(c) == stage[c] \in Accepting \cup {"handled"}

Shadowed(c) ==
    \E d \in Conn \ {c} : /\ connGen[d] = session /\ connKey[d] = connKey[c]
                          /\ stage[d] # "none"

TrackInv ==
    /\ \A c \in Conn :
          (Known(c) /\ c \in open /\ connGen[c] = session /\ live[session][connKey[c]] # c)
              => Shadowed(c)
    /\ \A c \in Conn : stage[c] # "none" => connGen[c] <= gen
    /\ \A g \in looping : g <= gen
    /\ api = "starting" => /\ gen \notin looping
                           /\ \A c \in Conn : stage[c] # "none" => connGen[c] # gen

LEMMA TrackInit == Init => TrackInv
BY DEF Init, TrackInv, Known, Accepting

LEMMA TrackStep == TypeInv /\ TrackInv /\ [Next]_vars => TrackInv'
<1> SUFFICES ASSUME TypeInv, TrackInv, [Next]_vars PROVE TrackInv'
    OBVIOUS
<1> USE DEF TypeInv, TypeOK
<1>1. ASSUME UNCHANGED <<gen, session, live, stage, connGen, connKey>>,
             looping' \subseteq looping, open' \subseteq open,
             api' # "starting" \/ UNCHANGED api
      PROVE  TrackInv'
    BY <1>1 DEF TrackInv, Known, Shadowed, Accepting
<1>2. CASE CallStart \/ CallStop
    <2>1. session' = 0 /\ \A c \in Conn : connGen'[c] # 0
        BY <1>2 DEF CallStart, CallStop, ResetTake, Gen
    <2> QED
        BY <1>2, <2>1 DEF CallStart, CallStop, ResetTake, TrackInv
<1>3. CASE HostStarting
    <2>1. gen' = gen + 1 /\ gen \in Nat /\ \A c \in Conn : connGen[c] \in Nat
        BY <1>3, HostAssumption DEF HostStarting, Gen
    <2>2. looping \subseteq Nat
        BY HostAssumption DEF Gen
    <2> QED
        BY <1>3, <2>1, <2>2 DEF HostStarting, connVars, TrackInv, Known, Shadowed
<1>4. CASE HostUp
    <2>1. gen \in Nat /\ session' = gen /\ looping' = looping \cup {gen} /\ api' # "starting"
        BY <1>4 DEF HostUp
    <2>2. UNCHANGED <<gen, connVars>> /\ \A c \in Conn : stage[c] # "none" => connGen[c] # gen
        BY <1>4 DEF HostUp, TrackInv
    <2> QED
        BY <2>1, <2>2 DEF connVars, TrackInv, Known, Accepting
<1>5. ASSUME NEW k \in Key, CallKick(k)
      PROVE  TrackInv'
    <2>1. session \in Gen
        BY <1>5, HostAssumption DEF CallKick, Gen
    <2>2. ASSUME NEW c \in Conn, c \in open', live'[session][connKey[c]] # c
          PROVE  c \in open /\ live[session][connKey[c]] # c
        BY <1>5, <2>1, <2>2 DEF CallKick
    <2>3. UNCHANGED <<gen, session, looping, stage, connGen, connKey>> /\ api' # "starting"
        BY <1>5 DEF CallKick, genVars
    <2> QED
        BY <2>2, <2>3 DEF TrackInv, Known, Shadowed
<1>6. ASSUME NEW c \in Conn, NEW p \in Peer, NEW g \in Gen, Accept(c, p, g)
      PROVE  TrackInv'
    <2> DEFINE k == IF p \in expected[g] THEN Id(p) ELSE Addr(p)
    <2>1. k \in Key /\ g \in looping /\ stage[c] = "none"
        BY <1>6, KeyType DEF Accept
    <2>2. /\ UNCHANGED <<gen, session, looping, api>>
          /\ open' = open \cup {c}
          /\ live' = [live EXCEPT ![g][k] = c]
        BY <1>6 DEF Accept, genVars, apiVars
    <2>3. /\ stage'[c] = "accepted" /\ connGen'[c] = g /\ connKey'[c] = k
          /\ \A d \in Conn \ {c} : /\ stage'[d] = stage[d] /\ connGen'[d] = connGen[d]
                                   /\ connKey'[d] = connKey[d]
        BY <1>6 DEF Accept
    <2>4. ASSUME NEW d \in Conn, Known(d)', d \in open', connGen'[d] = session,
                 live'[session][connKey'[d]] # d
          PROVE  Shadowed(d)'
        <3>1. d # c
            BY <2>1, <2>2, <2>3, <2>4
        <3>2. CASE g = session /\ connKey[d] = k
            BY <2>2, <2>3, <3>1, <3>2 DEF Shadowed
        <3>3. CASE ~(g = session /\ connKey[d] = k)
            <4>1. live'[session][connKey[d]] = live[session][connKey[d]]
                BY <2>1, <2>2, <3>3, <2>4, <2>3, <3>1
            <4>2. Shadowed(d)
                BY <2>2, <2>3, <2>4, <3>1, <4>1 DEF TrackInv, Known
            <4> QED
                BY <2>1, <2>2, <2>3, <3>1, <4>2 DEF Shadowed
        <3> QED
            BY <3>2, <3>3
    <2> QED
        BY <2>1, <2>2, <2>3, <2>4 DEF TrackInv
<1>7. ASSUME NEW c \in Conn, AcceptShow(c) \/ AcceptSpawn(c)
      PROVE  TrackInv'
    <2>1. UNCHANGED <<api, gen, session, looping, live, connGen, connKey, open>>
        BY <1>7 DEF AcceptShow, AcceptSpawn, apiVars, genVars
    <2>2. \A d \in Conn : /\ Known(d)' => Known(d)
                          /\ stage'[d] # "none" <=> stage[d] # "none"
        BY <1>7 DEF AcceptShow, AcceptSpawn, Known, Accepting
    <2> QED
        BY <2>1, <2>2 DEF TrackInv, Shadowed
<1>8. ASSUME NEW c \in Conn, HandlerRemoves(c)
      PROVE  TrackInv'
    <2>1. /\ UNCHANGED <<api, gen, session, looping, connGen, connKey, open>>
          /\ live' = [live EXCEPT ![connGen[c]][connKey[c]] = None]
          /\ stage' = [stage EXCEPT ![c] = "removed"]
          /\ stage[c] = "handled"
        BY <1>8 DEF HandlerRemoves, apiVars, genVars
    <2>2. ASSUME NEW d \in Conn, Known(d)', d \in open', connGen'[d] = session',
                 live'[session][connKey[d]] # d
          PROVE  Shadowed(d)'
        <3>1. d # c /\ Known(d)
            BY <2>1, <2>2 DEF Known, Accepting
        <3>2. CASE connGen[c] = session /\ connKey[c] = connKey[d]
            BY <2>1, <3>1, <3>2 DEF Shadowed
        <3>3. CASE ~(connGen[c] = session /\ connKey[c] = connKey[d])
            <4>1. live'[session][connKey[d]] = live[session][connKey[d]]
                BY <2>1, <2>2, <3>3
            <4> QED
                BY <2>1, <2>2, <3>1, <4>1 DEF TrackInv, Shadowed
        <3> QED
            BY <3>2, <3>3
    <2> QED
        BY <2>1, <2>2 DEF TrackInv
<1>9. ASSUME NEW c \in Conn, NEW proxies \in BOOLEAN, HandlerMarks(c, proxies)
      PROVE  TrackInv'
    <2>1. UNCHANGED <<api, gen, session, looping, live, connGen, connKey, open>>
        BY <1>9 DEF HandlerMarks, apiVars, genVars
    <2>2. \A d \in Conn : /\ Known(d)' => Known(d)
                          /\ stage'[d] # "none" <=> stage[d] # "none"
        BY <1>9 DEF HandlerMarks, Known, Accepting
    <2> QED
        BY <2>1, <2>2 DEF TrackInv, Shadowed
<1>10. ASSUME NEW g \in Gen, LoopEnds(g)
       PROVE  TrackInv'
    <2>1. UNCHANGED <<api, gen, session, live, connGen, connKey, open>> /\ looping' \subseteq looping
        BY <1>10 DEF LoopEnds, apiVars
    <2>2. \A d \in Conn : /\ Known(d)' => Known(d)
                          /\ stage'[d] # "none" <=> stage[d] # "none"
        BY <1>10 DEF LoopEnds, Known, Accepting
    <2> QED
        BY <2>1, <2>2 DEF TrackInv, Shadowed
<1>11. CASE StopStatus \/ HostFails \/ KickMark
    BY <1>1, <1>11 DEF StopStatus, HostFails, KickMark, genVars, connVars
<1>12. ASSUME NEW i \in Punch, NEW p \in Peer, NEW announced \in BOOLEAN,
              CallPunch(i, p, announced)
       PROVE  TrackInv'
    BY <1>1, <1>12 DEF CallPunch, genVars, connVars
<1>13. ASSUME NEW withRelay \in BOOLEAN, PunchSpawn(withRelay)
       PROVE  TrackInv'
    BY <1>1, <1>13 DEF PunchSpawn, genVars, connVars
<1>14. ASSUME NEW i \in Punch, TimerFires(i) \/ RelayTask(i)
       PROVE  TrackInv'
    BY <1>1, <1>14 DEF TimerFires, RelayTask, RelayArm, RelayGivesUp, apiVars, genVars, connVars
<1>15. ASSUME NEW c \in Conn, ProxiesEnd(c) \/ RemoteCloses(c) \/ ImplicitClose(c)
       PROVE  TrackInv'
    BY <1>1, <1>15 DEF ProxiesEnd, RemoteCloses, ImplicitClose, apiVars, genVars
<1>16. CASE UNCHANGED vars
    BY <1>1, <1>16 DEF vars, apiVars, genVars, connVars
<1> QED
    BY <1>2, <1>3, <1>4, <1>5, <1>6, <1>7, <1>8, <1>9, <1>10, <1>11, <1>12, <1>13, <1>14,
       <1>15, <1>16
    DEF Next, Environment, ApiStep, AcceptStep, Handler

\* kick_peer and the reset find every connection whose handler runs in the current
\* session, unless another one of the session was accepted under the same id.
THEOREM ConnectionsTracked == Spec => []TrackedUnlessShadowed
<1>1. Spec => []TrackInv
    BY TrackInit, TrackStep, TypeInvariant, PTL DEF Spec
<1>2. TrackInv => TrackedUnlessShadowed
    BY DEF TrackInv, TrackedUnlessShadowed, Known, Shadowed
<1> QED
    BY <1>1, <1>2, PTL

-----------------------------------------------------------------------------
(* The calls as the tasks around a session see them. *)

LEMMA ResetIsTaken == ResetTake => Calls!ResetTakes
    BY DEF ResetTake, Calls!ResetTakes

\* A step that is none of the calls leaves the session alone.
LEMMA CallOrElse ==
    ASSUME [Next]_vars
    PROVE  \/ CallStart \/ CallStop \/ StopStatus \/ HostStarting \/ HostFails \/ HostUp
           \/ /\ UNCHANGED <<gen, session, cancelled>>
              /\ api' = api \/ {api, api'} \subseteq {"idle", "punching", "kicked"}
<1> USE DEF apiVars, genVars
<1>1. CASE UNCHANGED vars
    BY <1>1 DEF vars
<1>2. ASSUME NEW withRelay \in BOOLEAN, PunchSpawn(withRelay)
      PROVE  UNCHANGED genVars /\ {api, api'} \subseteq {"idle", "punching", "kicked"}
    BY <1>2 DEF PunchSpawn
<1>3. KickMark => UNCHANGED genVars /\ {api, api'} \subseteq {"idle", "punching", "kicked"}
    BY DEF KickMark
<1>4. ASSUME NEW i \in Punch, NEW p \in Peer, NEW announced \in BOOLEAN,
             CallPunch(i, p, announced)
      PROVE  UNCHANGED genVars /\ {api, api'} \subseteq {"idle", "punching", "kicked"}
    BY <1>4 DEF CallPunch
<1>5. ASSUME NEW k \in Key, CallKick(k)
      PROVE  UNCHANGED genVars /\ {api, api'} \subseteq {"idle", "punching", "kicked"}
    BY <1>5 DEF CallKick
<1>6. ASSUME NEW i \in Punch, TimerFires(i) \/ RelayTask(i)
      PROVE  UNCHANGED <<api, gen, session, cancelled>>
    BY <1>6 DEF TimerFires, RelayTask, RelayArm, RelayGivesUp
<1>7. ASSUME NEW c \in Conn, NEW p \in Peer, NEW g \in Gen, Accept(c, p, g)
      PROVE  UNCHANGED <<api, gen, session, cancelled>>
    BY <1>7 DEF Accept
<1>8. ASSUME NEW c \in Conn,
             \/ ProxiesEnd(c) \/ RemoteCloses(c) \/ AcceptStep(c) \/ Handler(c)
             \/ ImplicitClose(c)
      PROVE  UNCHANGED <<api, gen, session, cancelled>>
    BY <1>8 DEF ProxiesEnd, RemoteCloses, AcceptStep, AcceptShow, AcceptSpawn, Handler,
                HandlerRemoves, HandlerMarks, ImplicitClose
<1>9. ASSUME NEW g \in Gen, LoopEnds(g) PROVE UNCHANGED <<api, gen, session, cancelled>>
    BY <1>9 DEF LoopEnds
<1> QED
    BY <1>1, <1>2, <1>3, <1>4, <1>5, <1>6, <1>7, <1>8, <1>9 DEF Next, Environment, ApiStep

\* UpnpPort and HostTasks are modelled beside HostCalls: that module is what the
\* calls of a host session do to the session, for any number of players, punches
\* and connections that are handled meanwhile.
THEOREM HostImplementsCalls == Spec => ImplementsCalls
<1>1. Init => Calls!CallsInit
    BY DEF Init, Calls!CallsInit
<1>2. ASSUME [Next]_vars PROVE [Calls!CallsNext]_(Calls!callVars)
    <2> USE DEF Calls!CallsNext, Calls!callVars
    <2>1. CASE CallStart
        BY <2>1, ResetIsTaken DEF CallStart, ResetTake, Calls!StartCalled
    <2>2. CASE CallStop
        BY <2>2, ResetIsTaken DEF CallStop, ResetTake, Calls!StopCalled
    <2>3. CASE StopStatus \/ HostStarting
        BY <2>3 DEF StopStatus, HostStarting, genVars
    <2>4. CASE HostFails
        BY <2>4 DEF HostFails, genVars, Calls!StartFailed
    <2>5. CASE HostUp
        BY <2>5 DEF HostUp, Calls!StartDone
    <2> QED
        BY <1>2, <2>1, <2>2, <2>3, <2>4, <2>5, CallOrElse
<1> QED
    BY <1>1, <1>2, PTL DEF Spec, ImplementsCalls, Calls!CallsSpec
==============================================================================

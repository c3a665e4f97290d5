----------------------------- MODULE HostSession -----------------------------
(***************************************************************************)
(* The host half of NetworkManager: start_hosting, stop_hosting,           *)
(* connect_to_peer while hosting (punch_from_host) and kick_peer, which    *)
(* run one at a time under the control lock, against the tasks they leave  *)
(* behind: the QUIC accept loop, one handler per connection, the punch     *)
(* timeout and the delayed relay start of every punch.                     *)
(*                                                                         *)
(* Only the accept loop is aborted by a reset.  The others are detached:   *)
(* they outlive the session they were started for and go on writing the    *)
(* status of whichever session is current.  Sessions are told apart by a   *)
(* generation, the identity of the Arcs a task holds.                      *)
(*                                                                         *)
(* An action is a run of critical sections of one task that ends where the *)
(* order against the other tasks begins to matter: sections on different   *)
(* locks are put together when all that other tasks do in between could as *)
(* well happen before or after.                                            *)
(***************************************************************************)
EXTENDS Naturals, FiniteSets

CONSTANTS
    Peer,       \* remote players, each with one socket address
    Conn,       \* QUIC connections that may be accepted
    Punch,      \* calls of connect_to_peer while hosting
    MaxGen,     \* bound on the number of host sessions started
    None        \* no connection, no punch, no key

\* A player is listed under the id it announced, or under its address.
Key == Peer \X {"id", "addr"}
Id(p) == <<p, "id">>
Addr(p) == <<p, "addr">>

Gen == 1 .. MaxGen

ASSUME HostAssumption ==
    /\ MaxGen \in Nat \ {0}
    /\ None \notin Conn \cup Punch \cup Key

INSTANCE SessionStatus

VARIABLES
    status,     \* Inner.status
    api,        \* where the call holding the control lock is
    apiPunch,   \* the punch that call makes, while it makes one
    apiKey,     \* the key that call kicks, while it kicks one
    gen,        \* generations created so far
    session,    \* generation of Inner.session, 0 when None
    looping,    \* generations whose accept loop runs
    cancelled,  \* generations whose CancellationToken is cancelled
    expected,   \* expected_peers: addresses that map to an announced id
    live,       \* live_connections
    relays,     \* relay_sessions
    stage,      \* how far each connection's accept and handler got
    connGen,    \* generation whose endpoint accepted it
    connKey,    \* the id it was registered under
    open,       \* connections not closed by either side
    bridged,    \* open connections whose handler ended and whose proxies have not
    punchKey,   \* display_peer of each punch
    punchGen,   \* the session each punch was made for
    timer,      \* the punch task of each punch
    relay       \* the relay task of each punch

apiVars   == <<api, apiPunch, apiKey>>
genVars   == <<gen, session, looping, cancelled>>
connVars  == <<stage, connGen, connKey, open, bridged>>
punchVars == <<punchKey, punchGen, timer, relay>>
vars == <<status, apiVars, genVars, expected, live, relays, connVars, punchVars>>

ApiStage == {"idle", "startCleared", "starting", "stopCleared", "punching", "kicked"}
\* Up to "shown" a connection is in the hands of the accept loop.
Accepting == {"accepted", "shown"}
Handling  == {"handled", "removed"}
ConnStage == {"none", "done"} \cup Accepting \cup Handling
TimerStage == {"none", "waiting", "done"}
\* "pending": in the grace delay or registering.  "stray": start_host_runtime
\* gave up, and the host_loop task it spawned goes on.
RelayStage == {"none", "pending", "armed", "stray", "cancelled"}

TypeOK ==
    /\ status \in Status
    /\ api \in ApiStage
    /\ apiPunch \in Punch \cup {None}
    /\ apiKey \in Key \cup {None}
    /\ gen \in 0 .. MaxGen
    /\ session \in 0 .. gen
    /\ looping \subseteq Gen
    /\ cancelled \subseteq Gen
    /\ expected \in [Gen -> SUBSET Peer]
    /\ live \in [Gen -> [Key -> Conn \cup {None}]]
    /\ relays \in [Gen -> [Key -> Punch \cup {None}]]
    /\ stage \in [Conn -> ConnStage]
    /\ connGen \in [Conn -> Gen]
    /\ connKey \in [Conn -> Key]
    /\ open \subseteq Conn
    /\ bridged \subseteq Conn
    /\ punchKey \in [Punch -> Key]
    /\ punchGen \in [Punch -> Gen]
    /\ timer \in [Punch -> TimerStage]
    /\ relay \in [Punch -> RelayStage]

Init ==
    /\ status = Fresh("Idle", "Idle")
    /\ api = "idle" /\ apiPunch = None /\ apiKey = None
    /\ gen = 0 /\ session = 0 /\ looping = {} /\ cancelled = {}
    /\ expected = [g \in Gen |-> {}]
    /\ live = [g \in Gen |-> [k \in Key |-> None]]
    /\ relays = [g \in Gen |-> [k \in Key |-> None]]
    /\ stage = [c \in Conn |-> "none"]
    /\ connGen = [c \in Conn |-> 1]
    /\ open = {} /\ bridged = {}
    /\ punchGen = [i \in Punch |-> 1]
    /\ timer = [i \in Punch |-> "none"]
    /\ relay = [i \in Punch |-> "none"]
    /\ \E p \in Peer : /\ connKey = [c \in Conn |-> Id(p)]
                       /\ punchKey = [i \in Punch |-> Id(p)]

-----------------------------------------------------------------------------
(* The calls, one at a time under the control lock. *)

LiveConns(g) == {live[g][k] : k \in Key} \ {None}
ArmedRelays(g) == {relays[g][k] : k \in Key} \ {None}

\* reset_session while it holds the session lock: take, cancel, drain, abort.
\* The abort only asks: LoopEnds is where the accept loop stops.
ResetTake ==
    /\ session' = 0
    /\ IF session = 0
       THEN UNCHANGED <<cancelled, open, live, relays, relay>>
       ELSE /\ cancelled' = cancelled \cup {session}
            /\ open' = open \ LiveConns(session)
            /\ live' = [live EXCEPT ![session] = [k \in Key |-> None]]
            /\ relays' = [relays EXCEPT ![session] = [k \in Key |-> None]]
            /\ relay' = [i \in Punch |-> IF i \in ArmedRelays(session)
                                         THEN "cancelled" ELSE relay[i]]
    /\ UNCHANGED <<status, apiPunch, apiKey, gen, looping, expected, stage, connGen,
                   connKey, bridged, punchKey, punchGen, timer>>

CallStart == api = "idle" /\ gen < MaxGen /\ api' = "startCleared" /\ ResetTake

CallStop == api = "idle" /\ api' = "stopCleared" /\ ResetTake

\* The end of reset_session in stop_hosting: the status of no session.
StopStatus ==
    /\ api = "stopCleared"
    /\ api' = "idle"
    /\ status' = Fresh("Idle", "Idle")
    /\ UNCHANGED <<apiPunch, apiKey, genVars, expected, live, relays, connVars, punchVars>>

\* The same in start_hosting, overwritten at once by start_hosting_inner.
HostStarting ==
    /\ api = "startCleared"
    /\ api' = "starting"
    /\ gen' = gen + 1
    /\ status' = Fresh("Host", "Starting")
    /\ UNCHANGED <<apiPunch, apiKey, session, looping, cancelled, expected, live, relays,
                   connVars, punchVars>>

\* The bind, the certificate or the endpoint fails: mark_fatal.
HostFails ==
    /\ api = "starting"
    /\ api' = "idle"
    /\ status' = MarkFatal("Host")
    /\ UNCHANGED <<apiPunch, apiKey, genVars, expected, live, relays, connVars, punchVars>>

\* Mutant of HostUp: the session is not the generation the tasks were given.
HostUpMutant ==
    /\ api = "starting"
    /\ api' = "idle"
    /\ status' = Fresh("Host", "Hosting")
    /\ looping' = looping \cup {gen}
    /\ session' = gen + 1
    /\ UNCHANGED <<apiPunch, apiKey, gen, cancelled, expected, live, relays, connVars,
                   punchVars>>

\* The endpoint is up: the status, the accept loop and the session follow.
HostUp ==
    /\ api = "starting"
    /\ api' = "idle"
    /\ status' = Fresh("Host", "Hosting")
    /\ looping' = looping \cup {gen}
    /\ session' = gen
    /\ UNCHANGED <<apiPunch, apiKey, gen, cancelled, expected, live, relays, connVars,
                   punchVars>>

\* connect_to_peer while hosting, up to the Punching status: an announced id is
\* filed under the address.
CallPunch(i, p, announced) ==
    /\ api = "idle" /\ session # 0 /\ timer[i] = "none"
    /\ api' = "punching" /\ apiPunch' = i
    /\ punchKey' = [punchKey EXCEPT ![i] = IF announced THEN Id(p) ELSE Addr(p)]
    /\ punchGen' = [punchGen EXCEPT ![i] = session]
    /\ expected' = [expected EXCEPT ![session] = IF announced THEN @ \cup {p} ELSE @]
    /\ status' = [status EXCEPT !.state = "Punching"]
    /\ UNCHANGED <<apiKey, genVars, live, relays, connVars, timer, relay>>

\* upsert_peer, then the two tasks; withRelay: a relay session id was given and
\* the host does not force direct connections.
PunchSpawn(withRelay) ==
    /\ api = "punching"
    /\ api' = "idle" /\ apiPunch' = None
    /\ status' = UpsertPeer(status, punchKey[apiPunch], "pending")
    /\ timer' = [timer EXCEPT ![apiPunch] = "waiting"]
    /\ relay' = [relay EXCEPT ![apiPunch] = IF withRelay THEN "pending" ELSE @]
    /\ UNCHANGED <<apiKey, genVars, expected, live, relays, connVars, punchKey, punchGen>>

\* Mutant of CallKick: the connection leaves the map and is not closed.
CallKickMutant(k) ==
    /\ api = "idle" /\ session # 0 /\ live[session][k] # None
    /\ api' = "kicked" /\ apiKey' = k
    /\ live' = [live EXCEPT ![session][k] = None]
    /\ UNCHANGED <<status, apiPunch, genVars, expected, relays, connVars, punchVars>>

\* kick_peer of an id that is not in the map returns an error.
CallKick(k) ==
    /\ api = "idle" /\ session # 0 /\ live[session][k] # None
    /\ api' = "kicked" /\ apiKey' = k
    /\ live' = [live EXCEPT ![session][k] = None]
    /\ open' = open \ {live[session][k]}
    /\ UNCHANGED <<status, apiPunch, genVars, expected, relays, stage, connGen, connKey,
                   bridged, punchVars>>

KickMark ==
    /\ api = "kicked"
    /\ api' = "idle" /\ apiKey' = None
    /\ status' = MarkPeerDisconnected(status, apiKey)
    /\ UNCHANGED <<apiPunch, genVars, expected, live, relays, connVars, punchVars>>

-----------------------------------------------------------------------------
(* The detached tasks of a punch. *)

\* Mutant of TimerFires: the expected addresses are not cleaned up.
TimerFiresMutant(i) ==
    /\ timer[i] = "waiting"
    /\ timer' = [timer EXCEPT ![i] = "done"]
    /\ status' = DropUnconnected(status, punchKey[i])
    /\ UNCHANGED <<apiVars, genVars, expected, live, relays, connVars, punchKey, punchGen,
                   relay>>

\* punch_remote and 20 s later: an entry still unconnected leaves the list, and
\* expected_peers forgets every address filed under its id.
TimerFires(i) ==
    /\ timer[i] = "waiting"
    /\ timer' = [timer EXCEPT ![i] = "done"]
    /\ status' = DropUnconnected(status, punchKey[i])
    /\ expected' = [expected EXCEPT ![punchGen[i]] = {p \in @ : Id(p) # punchKey[i]}]
    /\ UNCHANGED <<apiVars, genVars, live, relays, connVars, punchKey, punchGen, relay>>

\* Mutant of RelayArm: the relay that is replaced is not cancelled.
RelayArmMutant(i) ==
    /\ relay[i] = "pending"
    /\ relays' = [relays EXCEPT ![punchGen[i]][punchKey[i]] = i]
    /\ relay' = [relay EXCEPT ![i] = "armed"]
    /\ UNCHANGED <<status, apiVars, genVars, expected, live, connVars, punchKey, punchGen,
                   timer>>

\* The grace delay is over, whatever happened meanwhile, and the relay has
\* registered: it takes the peer's slot, and the one it replaces is cancelled
\* and aborted (no await in between).
RelayArm(i) ==
    LET g == punchGen[i]
        k == punchKey[i]
    IN  /\ relay[i] = "pending"
        /\ relays' = [relays EXCEPT ![g][k] = i]
        /\ relay' = [j \in Punch |-> IF j = i THEN "armed"
                                     ELSE IF j = relays[g][k] THEN "cancelled"
                                     ELSE relay[j]]
        /\ UNCHANGED <<status, apiVars, genVars, expected, live, connVars, punchKey,
                       punchGen, timer>>

\* Registration failed or timed out: host_loop is neither cancelled nor aborted.
RelayGivesUp(i) ==
    /\ relay[i] = "pending"
    /\ relay' = [relay EXCEPT ![i] = "stray"]
    /\ UNCHANGED <<status, apiVars, genVars, expected, live, relays, connVars, punchKey,
                   punchGen, timer>>

-----------------------------------------------------------------------------
(* The accept loop of generation g, one connection at a time. *)

LoopBusy(g) == \E c \in Conn : connGen[c] = g /\ stage[c] \in Accepting

\* A connection from p: its announced id, taken out of expected_peers, or its
\* address; live_connections.insert, forgetting a connection already there;
\* cancel_host_relay_for_peer.
Accept(c, p, g) ==
    LET k == IF p \in expected[g] THEN Id(p) ELSE Addr(p)
    IN  /\ g \in looping /\ ~LoopBusy(g) /\ stage[c] = "none"
        /\ stage' = [stage EXCEPT ![c] = "accepted"]
        /\ connGen' = [connGen EXCEPT ![c] = g]
        /\ connKey' = [connKey EXCEPT ![c] = k]
        /\ open' = open \cup {c}
        /\ expected' = [expected EXCEPT ![g] = @ \ {p}]
        /\ live' = [live EXCEPT ![g][k] = c]
        /\ relays' = [relays EXCEPT ![g][k] = None]
        /\ relay' = [i \in Punch |-> IF i = relays[g][k] THEN "cancelled" ELSE relay[i]]
        /\ UNCHANGED <<status, apiVars, genVars, bridged, punchKey, punchGen, timer>>

AcceptShow(c) ==
    /\ stage[c] = "accepted" /\ connGen[c] \in looping
    /\ stage' = [stage EXCEPT ![c] = "shown"]
    /\ status' = UpsertPeer(status, connKey[c], "connected")
    /\ UNCHANGED <<apiVars, genVars, expected, live, relays, connGen, connKey, open,
                   bridged, punchVars>>

AcceptSpawn(c) ==
    /\ stage[c] = "shown" /\ connGen[c] \in looping
    /\ stage' = [stage EXCEPT ![c] = "handled"]
    /\ UNCHANGED <<status, apiVars, genVars, expected, live, relays, connGen, connKey,
                   open, bridged, punchVars>>

\* The loop breaks on the token or dies at an await after the abort, and drops
\* the connection it was busy with.  It may run on from await to await first.
LoopEnds(g) ==
    /\ g \in looping \cap cancelled
    /\ looping' = looping \ {g}
    /\ stage' = [c \in Conn |-> IF connGen[c] = g /\ stage[c] \in Accepting
                                THEN "done" ELSE stage[c]]
    /\ UNCHANGED <<status, apiVars, gen, session, cancelled, expected, live, relays,
                   connGen, connKey, open, bridged, punchVars>>

-----------------------------------------------------------------------------
(* handle_host_connection, the stream proxies it spawns and quinn. *)

\* Mutant of HandlerRemoves: the handler does not select on the session's token.
HandlerRemovesMutant(c) ==
    /\ stage[c] = "handled" /\ c \notin open
    /\ stage' = [stage EXCEPT ![c] = "removed"]
    /\ live' = [live EXCEPT ![connGen[c]][connKey[c]] = None]
    /\ UNCHANGED <<status, apiVars, genVars, expected, relays, connGen, connKey, open,
                   bridged, punchVars>>

\* The connection is closed or the session cancelled: out of the loop, and
\* live_connections.remove(&peer_id), by id, whichever connection is there.
HandlerRemoves(c) ==
    /\ stage[c] = "handled"
    /\ c \notin open \/ connGen[c] \in cancelled
    /\ stage' = [stage EXCEPT ![c] = "removed"]
    /\ live' = [live EXCEPT ![connGen[c]][connKey[c]] = None]
    /\ UNCHANGED <<status, apiVars, genVars, expected, relays, connGen, connKey, open,
                   bridged, punchVars>>

\* Mutant of HandlerMarks: the peer is not marked as disconnected.
HandlerMarksMutant(c, proxies) ==
    /\ stage[c] = "removed"
    /\ stage' = [stage EXCEPT ![c] = "done"]
    /\ bridged' = IF proxies /\ c \in open THEN bridged \cup {c} ELSE bridged
    /\ UNCHANGED <<status, apiVars, genVars, expected, live, relays, connGen, connKey,
                   open, punchVars>>

\* The handler ends.  It spawned a proxy task for every stream the player opened;
\* these hold the connection and no token, and some may still run.
HandlerMarks(c, proxies) ==
    /\ stage[c] = "removed"
    /\ stage' = [stage EXCEPT ![c] = "done"]
    /\ status' = MarkPeerDisconnected(status, connKey[c])
    /\ bridged' = IF proxies /\ c \in open THEN bridged \cup {c} ELSE bridged
    /\ UNCHANGED <<apiVars, genVars, expected, live, relays, connGen, connKey, open,
                   punchVars>>

\* The last proxy task of the connection ends.
ProxiesEnd(c) ==
    /\ c \in bridged
    /\ bridged' = bridged \ {c}
    /\ UNCHANGED <<status, apiVars, genVars, expected, live, relays, stage, connGen,
                   connKey, open, punchVars>>

\* The remote end closes, or the idle timeout does.
RemoteCloses(c) ==
    /\ c \in open
    /\ open' = open \ {c}
    /\ bridged' = bridged \ {c}
    /\ UNCHANGED <<status, apiVars, genVars, expected, live, relays, stage, connGen,
                   connKey, punchVars>>

Active(c) == stage[c] \in Accepting \cup Handling

\* The Arc of live_connections is held by the session, the loop and handlers.
MapHeld(g) ==
    \/ session = g \/ g \in looping
    \/ \E c \in Conn : connGen[c] = g /\ Active(c)

Held(c) ==
    \/ Active(c) \/ c \in bridged
    \/ live[connGen[c]][connKey[c]] = c /\ MapHeld(connGen[c])

\* quinn closes a connection when its last handle is dropped.
ImplicitClose(c) ==
    /\ c \in open /\ ~Held(c)
    /\ open' = open \ {c}
    /\ UNCHANGED <<status, apiVars, genVars, expected, live, relays, stage, connGen,
                   connKey, bridged, punchVars>>

-----------------------------------------------------------------------------
ApiStep ==
    \/ StopStatus \/ HostStarting \/ HostFails \/ HostUp \/ KickMark
    \/ \E withRelay \in BOOLEAN : PunchSpawn(withRelay)

RelayTask(i) == RelayArm(i) \/ RelayGivesUp(i)
AcceptStep(c) == AcceptShow(c) \/ AcceptSpawn(c)
Handler(c) ==
    \/ HandlerRemoves(c)
    \/ \E proxies \in BOOLEAN : HandlerMarks(c, proxies)

\* What the user and the network decide: nothing obliges these to happen.
Environment ==
    \/ CallStart \/ CallStop
    \/ \E i \in Punch, p \in Peer, announced \in BOOLEAN : CallPunch(i, p, announced)
    \/ \E k \in Key : CallKick(k)
    \/ \E c \in Conn, p \in Peer, g \in Gen : Accept(c, p, g)
    \/ \E c \in Conn : ProxiesEnd(c) \/ RemoteCloses(c)

Next ==
    \/ Environment
    \/ ApiStep
    \/ \E i \in Punch : TimerFires(i) \/ RelayTask(i)
    \/ \E c \in Conn : AcceptStep(c) \/ Handler(c) \/ ImplicitClose(c)
    \/ \E g \in Gen : LoopEnds(g)

Spec == Init /\ [][Next]_vars

(* tokio polls every runnable task again and again and its locks are FIFO:  *)
(* a call in progress, the timers, the accept loop and the handlers move on. *)
Fairness ==
    /\ WF_vars(ApiStep)
    /\ \A i \in Punch : WF_vars(TimerFires(i)) /\ WF_vars(RelayTask(i))
    /\ \A c \in Conn : /\ WF_vars(AcceptStep(c)) /\ WF_vars(Handler(c))
                       /\ WF_vars(ImplicitClose(c))
    /\ \A g \in Gen : WF_vars(LoopEnds(g))

FairSpec == Spec /\ Fairness

-----------------------------------------------------------------------------
(* Properties. *)

\* The port mapping and the tasks that announce a session are modelled beside
\* HostCalls: that is what the calls here do to the session, whatever else they do.
\* A start counts from its reset on.
Calls == INSTANCE HostCalls WITH
    api <- IF api \in {"startCleared", "starting"} THEN "starting" ELSE "idle",
    gen <- IF api = "startCleared" THEN gen + 1 ELSE gen

ImplementsCalls == Calls!CallsSpec

\* upsert_peer and mark_peer_disconnected keep the shown state honest in one
\* direction: a host shown as Connected lists a connected player, whatever the
\* tasks of earlier sessions and the punch timeouts do to the list.
ConnectedIsBacked ==
    status.mode = "Host" /\ status.state = "Connected" => AnyConnected(status.peers)

\* stop_hosting leaves the status Idle, and no handler, timer or accept loop it
\* left behind makes an idle manager look like a host again.
IdleStaysIdle == status.mode = "Idle" => status.state = "Idle"

\* start_or_replace_host_relay: while its session lives, an armed relay is the
\* one in relay_sessions under its peer, so that a replacement, a direct
\* connection or a reset finds it and cancels it: never two for one player.
RelayOwned ==
    \A i \in Punch :
        relay[i] = "armed" /\ punchGen[i] \notin cancelled
            => relays[punchGen[i]][punchKey[i]] = i

\* punch_from_host: every address that waits to be recognised has a punch task
\* that will forget it, so expected_peers cannot fill up with stale entries.
ExpectedHasTimer ==
    \A g \in Gen : \A p \in expected[g] :
        \E i \in Punch : /\ punchGen[i] = g /\ punchKey[i] = Id(p)
                         /\ timer[i] = "waiting" \/ apiPunch = i

\* A running connection is missing from live_connections (kick_peer and the reset
\* do not find it) only if another connection of the session came under its id.
TrackedUnlessShadowed ==
    \A c \in Conn :
        (stage[c] = "handled" /\ c \in open /\ connGen[c] = session
            /\ live[session][connKey[c]] # c)
        => \E d \in Conn \ {c} : /\ connGen[d] = session /\ connKey[d] = connKey[c]
                                 /\ stage[d] # "none"

\* "Delay relay start to give direct punch a chance to connect first": once the
\* direct connection of a player is up, no relay is armed for that player.
DirectWins ==
    \A i \in Punch, c \in Conn :
        ~ /\ relay[i] = "armed"
          /\ stage[c] = "handled" /\ c \in open
          /\ connGen[c] = punchGen[i] /\ connKey[c] = punchKey[i]

\* cancel_host_relay_for_peer: what the accept of a connection does keep.  A relay
\* that runs beside a direct connection was armed when that connection was there.
Beside(i, c) ==
    /\ relay[i] = "armed" /\ Active(c) /\ c \in open
    /\ connGen[c] = punchGen[i] /\ connKey[c] = punchKey[i]

OnlyLateRelays ==
    [][\A i \in Punch, c \in Conn :
          Beside(i, c)' => Beside(i, c) \/ (relay[i] = "pending" /\ Active(c) /\ c \in open)]_vars

\* The punch timeout (or the connection) clears every expected address.
PunchResolved ==
    \A g \in Gen, p \in Peer : p \in expected[g] ~> p \notin expected[g]

\* Within a session, for a player no earlier session knew under that id: one
\* listed as connected without an open connection does not stay listed so.
Ghost(g, k) ==
    /\ session = g /\ status.peers[k] = "connected"
    /\ \A c \in Conn : connKey[c] = k /\ stage[c] # "none"
                            => connGen[c] = g /\ c \notin open
GhostFree == \A g \in Gen, k \in Key : Ghost(g, k) ~> ~Ghost(g, k)

\* reset_session closes what it finds in the map and cancels the rest: every
\* connection of an ended session closes unless a stream proxy holds on to it.
Released ==
    \A c \in Conn : (c \in open /\ connGen[c] \in cancelled)
                        ~> (c \notin open \/ c \in bridged)
==============================================================================

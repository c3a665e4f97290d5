---------------------------- MODULE ClientSession ----------------------------
(***************************************************************************)
(* The client half of NetworkManager: prepare_client_connect,              *)
(* commit_prepared_client_connect, connect_to_peer without a host session, *)
(* stop_hosting and (only as far as it replaces a client session)          *)
(* start_hosting, under the control lock; against the connect flow each    *)
(* commit or connect spawns and the close loop a direct tunnel leaves      *)
(* behind.  HostSession models what happens within a host session.         *)
(*                                                                         *)
(* The flow's handle is in the session's task list, so a reset aborts it;  *)
(* the close loop is detached.  Both write the one status of the manager   *)
(* and look at their cancellation token first, not while they write.       *)
(***************************************************************************)
EXTENDS Naturals

CONSTANTS
    Peer,       \* hosts this client connects to
    MaxGen,     \* bound on the number of sessions created
    Attempts,   \* CLIENT_CONNECT_RETRY_ATTEMPTS
    None        \* no peer

ASSUME ClientAssumption ==
    /\ MaxGen \in Nat \ {0}
    /\ Attempts \in Nat \ {0}
    /\ None \notin Peer

INSTANCE SessionStatus WITH Key <- Peer

Gen == 1 .. MaxGen

VARIABLES
    status,     \* Inner.status
    api,        \* where the call holding the control lock is
    goal,       \* the peer that call connects to
    gen,        \* sessions created so far
    session,    \* the current one, 0 when None
    kind,       \* SessionControl of each session
    target,     \* peer_addr of each session
    cancelled,  \* sessions whose token is cancelled
    aborted,    \* sessions whose flow was told to abort
    flow,       \* run_client_connect_flow of each session
    tries,      \* handshakes it started
    closer,     \* spawn_client_close_loop of each session
    linked      \* sessions whose QUIC connection is up

callVars == <<api, goal>>
sessVars == <<gen, session, kind, target, cancelled, aborted>>
taskVars == <<flow, tries, closer, linked>>
vars == <<status, callVars, sessVars, taskVars>>

Idle == {"none", "done"}
\* "failed": the flow returned an error; "fatal": it saw its token uncancelled.
FlowStage == Idle \cup {"spawned", "grace", "dialing", "waiting", "relaying",
                        "shown", "direct", "tunnel", "failed", "fatal"}
CloserStage == Idle \cup {"watching", "marking", "fatal"}
ApiStage == {"idle", "stop", "host", "hostUp", "prepare", "preparing", "connect",
             "connecting", "committed"}

TypeOK ==
    /\ status \in Status
    /\ api \in ApiStage /\ goal \in Peer \cup {None}
    /\ gen \in 0 .. MaxGen /\ session \in 0 .. gen
    /\ kind \in [Gen -> {"none", "prepared", "client", "host"}]
    /\ target \in [Gen -> Peer \cup {None}]
    /\ cancelled \subseteq Gen /\ aborted \subseteq Gen /\ linked \subseteq Gen
    /\ flow \in [Gen -> FlowStage]
    /\ tries \in [Gen -> 0 .. Attempts]
    /\ closer \in [Gen -> CloserStage]

Init ==
    /\ status = Fresh("Idle", "Idle")
    /\ api = "idle" /\ goal = None
    /\ gen = 0 /\ session = 0
    /\ kind = [g \in Gen |-> "none"] /\ target = [g \in Gen |-> None]
    /\ cancelled = {} /\ aborted = {} /\ linked = {}
    /\ flow = [g \in Gen |-> "none"] /\ tries = [g \in Gen |-> 0]
    /\ closer = [g \in Gen |-> "none"]

Running(g) == flow[g] \notin Idle
Kind == IF session = 0 THEN "none" ELSE kind[session]

-----------------------------------------------------------------------------
(* The calls. *)

\* Mutant of ResetTake: the token of the session is not cancelled.
ResetTakeMutant ==
    /\ aborted' = IF session = 0 THEN aborted ELSE aborted \cup {session}
    /\ session' = 0
    /\ UNCHANGED <<status, gen, kind, target, cancelled, taskVars>>

\* reset_session up to its status write: the token and the abort of the flow.
\* Nothing closes the QUIC connection of a client session.
ResetTake ==
    /\ cancelled' = IF session = 0 THEN cancelled ELSE cancelled \cup {session}
    /\ aborted' = IF session = 0 THEN aborted ELSE aborted \cup {session}
    /\ session' = 0
    /\ UNCHANGED <<status, gen, kind, target, taskVars>>

CallStop ==
    /\ api = "idle" /\ api' = "stop" /\ goal' = None /\ ResetTake

CallHost ==
    /\ api = "idle" /\ gen < MaxGen
    /\ api' = "host" /\ goal' = None /\ ResetTake

CallPrepare(p) ==
    /\ api = "idle" /\ gen < MaxGen
    /\ api' = "prepare" /\ goal' = p /\ ResetTake

\* With a host session connect_to_peer punches instead.
CallConnect(p) ==
    /\ api = "idle" /\ gen < MaxGen /\ Kind # "host"
    /\ api' = "connect" /\ goal' = p /\ ResetTake

ResetStatus ==
    /\ api' = CASE api = "stop"    -> "idle"
                [] api = "host"    -> "hostUp"
                [] api = "prepare" -> "preparing"
                [] api = "connect" -> "connecting"
    /\ status' = Fresh("Idle", "Idle")

EndReset ==
    /\ api \in {"stop", "host", "prepare", "connect"}
    /\ ResetStatus
    /\ UNCHANGED <<goal, sessVars, taskVars>>

Create(k) ==
    /\ gen' = gen + 1 /\ session' = gen + 1
    /\ kind' = [kind EXCEPT ![gen + 1] = k]
    /\ target' = [target EXCEPT ![gen + 1] = goal]
    /\ UNCHANGED <<cancelled, aborted>>

\* start_hosting gets its endpoint.
HostUp ==
    /\ api = "hostUp" /\ api' = "idle"
    /\ Create("host")
    /\ status' = Fresh("Host", "Hosting")
    /\ UNCHANGED <<goal, taskVars>>

PrepareUp ==
    /\ api = "preparing" /\ api' = "idle"
    /\ Create("prepared")
    /\ status' = FreshWith("Client", "WaitingForPeer", goal)
    /\ UNCHANGED <<goal, taskVars>>

ConnectUp ==
    /\ api = "connecting" /\ api' = "idle"
    /\ Create("client")
    /\ status' = FreshWith("Client", "WaitingForPeer", goal)
    /\ flow' = [flow EXCEPT ![gen + 1] = "spawned"]
    /\ UNCHANGED <<goal, tries, closer, linked>>

\* The bind or the endpoint fails: the error goes to the caller alone.
SetUpFails ==
    /\ api \in {"preparing", "connecting"} /\ api' = "idle"
    /\ UNCHANGED <<status, goal, sessVars, taskVars>>

CommitPrepared ==
    /\ api = "idle" /\ Kind = "prepared" /\ api' = "committed"
    /\ kind' = [kind EXCEPT ![session] = "client"]
    /\ flow' = [flow EXCEPT ![session] = "spawned"]
    /\ UNCHANGED <<status, goal, gen, session, target, cancelled, aborted, tries, closer,
                   linked>>

\* Nothing prepared: an error, but the tasks of the session are gone already.
CommitUnprepared ==
    /\ api = "idle" /\ Kind \in {"client", "host"}
    /\ aborted' = aborted \cup {session}
    /\ UNCHANGED <<status, callVars, gen, session, kind, target, cancelled, taskVars>>

\* The commit's status write, after it let the session lock go.
CommitStatus ==
    /\ api = "committed" /\ api' = "idle"
    /\ status' = [status EXCEPT !.mode = "Client", !.state = "Connecting"]
    /\ UNCHANGED <<goal, sessVars, taskVars>>

-----------------------------------------------------------------------------
(* The connect flow.  An abort lands at an await: until FlowAborted the task  *)
(* may still run on, and so may write to the status of the next session.      *)

FlowTo(g, s) == flow' = [flow EXCEPT ![g] = s]

FlowStarts(g) ==
    /\ flow[g] = "spawned" /\ FlowTo(g, "grace")
    /\ status' = [status EXCEPT !.mode = "Client", !.state = "Starting"]
    /\ UNCHANGED <<callVars, sessVars, tries, closer, linked>>

\* The punching grace of 1.8 s, which outlasts the commit's status write.
GraceEnds(g) ==
    /\ flow[g] = "grace" /\ api # "committed"
    /\ FlowTo(g, IF g \in cancelled THEN "failed" ELSE "dialing")
    /\ UNCHANGED <<status, callVars, sessVars, tries, closer, linked>>

\* Mutant of Dial: one handshake too many.
DialMutant(g) ==
    /\ flow[g] = "dialing" /\ g \notin cancelled /\ tries[g] <= Attempts
    /\ FlowTo(g, "waiting")
    /\ tries' = [tries EXCEPT ![g] = @ + 1]
    /\ status' = [status EXCEPT !.state = "Connecting"]
    /\ UNCHANGED <<callVars, sessVars, closer, linked>>

\* connect_with_retries: the token, the status, a handshake.
Dial(g) ==
    /\ flow[g] = "dialing" /\ g \notin cancelled /\ tries[g] < Attempts
    /\ FlowTo(g, "waiting")
    /\ tries' = [tries EXCEPT ![g] = @ + 1]
    /\ status' = [status EXCEPT !.state = "Connecting"]
    /\ UNCHANGED <<callVars, sessVars, closer, linked>>

AttemptFails(g) ==
    /\ flow[g] = "waiting" /\ FlowTo(g, "dialing")
    /\ UNCHANGED <<status, callVars, sessVars, tries, closer, linked>>

\* Cancelled or out of attempts: the relay, if the call named a relay session.
DirectFails(g, withRelay) ==
    /\ flow[g] = "dialing"
    /\ g \in cancelled \/ tries[g] = Attempts
    /\ FlowTo(g, IF withRelay THEN "relaying" ELSE "failed")
    /\ status' = IF withRelay THEN [status EXCEPT !.state = "Connecting"] ELSE status
    /\ UNCHANGED <<callVars, sessVars, tries, closer, linked>>

\* What both tunnels write: a connected peer, whatever mode the status is in.
ShowTunnel(g) ==
    status' = [status EXCEPT !.state = "Connected",
                             !.peers = [Fresh("Client", "Connected").peers
                                            EXCEPT ![target[g]] = "connected"]]

\* The handshake succeeded and the local proxy port is bound.
DirectUp(g) ==
    /\ flow[g] = "waiting" /\ FlowTo(g, "shown")
    /\ linked' = linked \cup {g}
    /\ ShowTunnel(g)
    /\ UNCHANGED <<callVars, sessVars, tries, closer>>

\* The handshake succeeded, the bind of the proxy port did not: both dropped.
ProxyBindFails(g) ==
    /\ flow[g] = "waiting" /\ FlowTo(g, "failed")
    /\ UNCHANGED <<status, callVars, sessVars, tries, closer, linked>>

\* After the broadcaster is up: the proxy, ping and close loops.
SpawnLoops(g) ==
    /\ flow[g] = "shown" /\ FlowTo(g, "direct")
    /\ closer' = [closer EXCEPT ![g] = "watching"]
    /\ UNCHANGED <<status, callVars, sessVars, tries, linked>>

RelayUp(g) ==
    /\ flow[g] = "relaying" /\ FlowTo(g, "tunnel")
    /\ ShowTunnel(g)
    /\ UNCHANGED <<callVars, sessVars, tries, closer, linked>>

\* The relay runtime does not get ready, or ends: the host left, or cancelled.
RelayDown(g) ==
    /\ \/ flow[g] = "relaying" /\ FlowTo(g, "failed")
       \/ flow[g] = "tunnel" /\ FlowTo(g, IF g \in cancelled THEN "done" ELSE "failed")
    /\ UNCHANGED <<status, callVars, sessVars, tries, closer, linked>>

\* The loops ended or the token is cancelled: the flow lets go of their handles.
DirectEnds(g) ==
    /\ flow[g] = "direct"
    /\ g \in cancelled \/ closer[g] = "done"
    /\ FlowTo(g, "done")
    /\ UNCHANGED <<status, callVars, sessVars, tries, closer, linked>>

\* Mutant of FlowFailed: every error is swallowed.
FlowFailedMutant(g) ==
    /\ flow[g] = "failed" /\ FlowTo(g, "done")
    /\ UNCHANGED <<status, callVars, sessVars, tries, closer, linked>>

\* spawn_client_connect_task: an error of a cancelled flow is swallowed ...
FlowFailed(g) ==
    /\ flow[g] = "failed"
    /\ FlowTo(g, IF g \in cancelled THEN "done" ELSE "fatal")
    /\ UNCHANGED <<status, callVars, sessVars, tries, closer, linked>>

\* ... any other replaces the status.
FlowFatal(g) ==
    /\ flow[g] = "fatal" /\ FlowTo(g, "done")
    /\ status' = MarkFatal("Client")
    /\ UNCHANGED <<callVars, sessVars, tries, closer, linked>>

\* An aborted flow dies; before its loops exist it holds the only handle of the
\* connection, which quinn then closes.
FlowAborted(g) ==
    /\ g \in aborted /\ Running(g) /\ FlowTo(g, "done")
    /\ linked' = IF flow[g] = "shown" THEN linked \ {g} ELSE linked
    /\ UNCHANGED <<status, callVars, sessVars, tries, closer>>

-----------------------------------------------------------------------------
(* The close loop, and the far end. *)

RemoteCloses(g) ==
    /\ g \in linked /\ linked' = linked \ {g}
    /\ UNCHANGED <<status, callVars, sessVars, flow, tries, closer>>

\* Mutant of CloserWakes: the token is not looked at.
CloserWakesMutant(g) ==
    /\ closer[g] = "watching" /\ g \notin linked
    /\ closer' = [closer EXCEPT ![g] = "marking"]
    /\ UNCHANGED <<status, callVars, sessVars, flow, tries, linked>>

CloserWakes(g) ==
    /\ closer[g] = "watching" /\ g \notin linked
    /\ closer' = [closer EXCEPT ![g] = IF g \in cancelled THEN "done" ELSE "marking"]
    /\ UNCHANGED <<status, callVars, sessVars, flow, tries, linked>>

CloserMarks(g) ==
    /\ closer[g] = "marking"
    /\ closer' = [closer EXCEPT ![g] = "fatal"]
    /\ status' = MarkPeerDisconnected(status, target[g])
    /\ UNCHANGED <<callVars, sessVars, flow, tries, linked>>

CloserFatal(g) ==
    /\ closer[g] = "fatal"
    /\ closer' = [closer EXCEPT ![g] = "done"]
    /\ status' = MarkFatal("Client")
    /\ UNCHANGED <<callVars, sessVars, flow, tries, linked>>

-----------------------------------------------------------------------------
UserCall ==
    \/ CallStop \/ CallHost \/ CommitPrepared \/ CommitUnprepared
    \/ \E p \in Peer : CallPrepare(p) \/ CallConnect(p)

ApiStep == EndReset \/ HostUp \/ PrepareUp \/ ConnectUp \/ SetUpFails \/ CommitStatus

FlowStep(g) ==
    \/ FlowStarts(g) \/ GraceEnds(g) \/ Dial(g) \/ AttemptFails(g)
    \/ \E withRelay \in BOOLEAN : DirectFails(g, withRelay)
    \/ DirectUp(g) \/ ProxyBindFails(g) \/ SpawnLoops(g) \/ RelayUp(g)
    \/ DirectEnds(g) \/ FlowFailed(g) \/ FlowFatal(g) \/ FlowAborted(g)

CloserStep(g) == CloserWakes(g) \/ CloserMarks(g) \/ CloserFatal(g)

Next ==
    \/ UserCall \/ ApiStep
    \/ \E g \in Gen : FlowStep(g) \/ RelayDown(g) \/ CloserStep(g) \/ RemoteCloses(g)

Spec == Init /\ [][Next]_vars

(* Calls in progress end (every await in them has a timeout), and so do the   *)
(* steps of the tasks; a relay that does not come up gives up after           *)
(* READY_TIMEOUT.  The user and the far end owe nothing.                      *)
Fairness ==
    /\ WF_vars(ApiStep)
    /\ \A g \in Gen : /\ WF_vars(FlowStep(g)) /\ WF_vars(CloserStep(g))
                      /\ WF_vars(flow[g] = "relaying" /\ RelayDown(g))

FairSpec == Spec /\ Fairness

-----------------------------------------------------------------------------
(* Properties. *)

Slot == INSTANCE SessionSlot

\* Prepare, commit, connect, host and stop, in every order and with every failure,
\* have one session at a time and cancel each before the next (SessionSlot).
KeepsSlot == Slot!SlotSpec

\* A connect flow that nobody has cancelled is the one of the current session:
\* whatever the order of prepare, commit, connect and stop, no second flow
\* dials on, out of the reach of the next reset.
OneLiveFlow ==
    \A g \in Gen : Running(g) /\ g \notin cancelled => session = g /\ kind[g] = "client"

\* No task of a session before g is about to write.
Quiet(g) ==
    \A h \in Gen \ {g} : flow[h] \in Idle /\ closer[h] \in Idle \cup {"watching"}

\* A host session is not shown as a failed client: once the tasks of earlier
\* client sessions have had their turn, the late end of an old connection neither
\* writes the status of the host nor gets ready to.
HostKeepsStatus ==
    [][session # 0 /\ kind[session] = "host" /\ Quiet(session) /\ session' = session
            => Quiet(session)' /\ (api' = api => status' = status)]_vars

\* A flow that starts to connect, with no task of an earlier session left to
\* write over it, does not stay in the middle: the session is shown as connected
\* or failed, unless it is replaced, or a second commit aborts the flow.
Starts(g) == session = g /\ flow[g] \in {"spawned", "grace"} /\ Quiet(g)

ClientSettles ==
    \A g \in Gen :
        Starts(g) ~> (status.state \in {"Connected", "Error"} \/ session # g \/ g \in aborted)

\* "The client session with {peer} is cleared": its QUIC connection closes.
ClearedMeansClosed == \A g \in Gen : (g \in cancelled /\ g \in linked) ~> g \notin linked
==============================================================================

----------------------------- MODULE TestServer -----------------------------
(***************************************************************************)
(* TestServerManager of test_server.rs: start and stop of the local echo   *)
(* server.  A start stops the server that is there, binds its port, spawns *)
(* the accept loop and stores the runtime; the lock is taken for the stop  *)
(* and again for the store, so that calls overlap in between.  The guard   *)
(* of `if let Some(runtime) = ...lock().await.take()` lives to the end of  *)
(* its block: a stop holds the lock while it waits for the loop to end.    *)
(***************************************************************************)
EXTENDS Naturals

CONSTANTS
    Call,       \* callers, each with one call at a time
    TcpPort,    \* ports a start may ask for
    MaxServer,  \* servers that are ever started
    Nobody      \* no caller, and no port

ASSUME TestServerAssumption ==
    MaxServer \in Nat \ {0} /\ Nobody \notin Call /\ "stop" \notin TcpPort

VARIABLES
    call,     \* how far each call has come
    op,       \* the port of a start, or "stop"
    own,      \* the server the call waits for, or has started
    lock,     \* the call that holds the lock of the slot while it waits
    runtime,  \* the server in the slot, 0: None
    count,    \* servers started so far; a server is known by its number
    server,   \* the accept loop of each server
    port,     \* and its port
    overlapped  \* a call began its stop while a start was past its own

echoCallVars == <<call, op, own, overlapped>>
serverVars == <<count, server, port>>
echoVars == <<echoCallVars, lock, runtime, serverVars>>

Echo == 1 .. MaxServer

EchoTypeOK ==
    /\ call \in [Call -> {"idle", "stopping", "awaiting", "binding", "storing"}]
    /\ op \in [Call -> TcpPort \cup {"stop"}]
    /\ own \in [Call -> 0 .. count]
    /\ overlapped \in BOOLEAN
    /\ lock \in Call \cup {Nobody}
    /\ \A c \in Call : lock = c <=> call[c] = "awaiting"
    /\ count \in 0 .. MaxServer /\ runtime \in 0 .. count
    /\ server \in [Echo -> {"none", "running", "cancelled", "ended"}]
    /\ port \in [Echo -> TcpPort \cup {Nobody}]

EchoInit ==
    /\ call = [c \in Call |-> "idle"]
    /\ op = [c \in Call |-> "stop"] /\ own = [c \in Call |-> 0]
    /\ overlapped = FALSE
    /\ lock = Nobody /\ runtime = 0 /\ count = 0
    /\ server = [s \in Echo |-> "none"] /\ port = [s \in Echo |-> Nobody]

-----------------------------------------------------------------------------
Holds(p) == \E s \in Echo : port[s] = p /\ server[s] \in {"running", "cancelled"}

Calls(c, o) ==
    /\ call[c] = "idle"
    /\ call' = [call EXCEPT ![c] = "stopping"] /\ op' = [op EXCEPT ![c] = o]
    /\ UNCHANGED <<own, overlapped, lock, runtime, serverVars>>

\* After its stop a start goes on, and a call of stop returns.
AfterStop(c) == IF op[c] = "stop" THEN "idle" ELSE "binding"

\* A start is between its stop and its store.
BetweenLocks == \E d \in Call : call[d] \in {"binding", "storing"}

\* Mutant of Stops: the task is not awaited.
StopsMutant(c) ==
    /\ call[c] = "stopping" /\ lock = Nobody
    /\ overlapped' = (overlapped \/ BetweenLocks)
    /\ runtime' = 0
    /\ server' = [s \in Echo |-> IF s = runtime THEN "cancelled" ELSE server[s]]
    /\ call' = [call EXCEPT ![c] = AfterStop(c)]
    /\ UNCHANGED <<op, own, lock, count, port>>

\* stop: the runtime is taken and cancelled, if there is one.
Stops(c) ==
    /\ call[c] = "stopping" /\ lock = Nobody
    /\ overlapped' = (overlapped \/ BetweenLocks)
    /\ runtime' = 0
    /\ IF runtime = 0
       THEN /\ call' = [call EXCEPT ![c] = AfterStop(c)]
            /\ UNCHANGED <<own, lock, server>>
       ELSE /\ call' = [call EXCEPT ![c] = "awaiting"]
            /\ own' = [own EXCEPT ![c] = runtime] /\ lock' = c
            /\ server' = [server EXCEPT ![runtime] = "cancelled"]
    /\ UNCHANGED <<op, count, port>>

\* The loop has ended, and with it the listener is dropped.
StopEnds(c) ==
    /\ call[c] = "awaiting" /\ server[own[c]] = "ended"
    /\ call' = [call EXCEPT ![c] = AfterStop(c)]
    /\ lock' = Nobody
    /\ UNCHANGED <<op, own, overlapped, runtime, serverVars>>

Binds(c) ==
    /\ call[c] = "binding" /\ ~Holds(op[c]) /\ count < MaxServer
    /\ count' = count + 1
    /\ server' = [server EXCEPT ![count + 1] = "running"]
    /\ port' = [port EXCEPT ![count + 1] = op[c]]
    /\ own' = [own EXCEPT ![c] = count + 1]
    /\ call' = [call EXCEPT ![c] = "storing"]
    /\ UNCHANGED <<op, overlapped, lock, runtime>>

\* The port is taken, by a server of this manager or by another program.
BindFails(c) ==
    /\ call[c] = "binding"
    /\ call' = [call EXCEPT ![c] = "idle"]
    /\ UNCHANGED <<op, own, overlapped, lock, runtime, serverVars>>

\* A runtime that is in the slot is dropped: its loop is detached, not cancelled.
StoresRuntime(c) ==
    /\ call[c] = "storing" /\ lock = Nobody
    /\ runtime' = own[c]
    /\ call' = [call EXCEPT ![c] = "idle"]
    /\ UNCHANGED <<op, own, overlapped, lock, serverVars>>

\* Mutant of LoopEnds: the loop clears its slot itself, which takes the lock.
LoopEndsMutant(s) ==
    /\ server[s] = "cancelled" /\ lock = Nobody
    /\ server' = [server EXCEPT ![s] = "ended"]
    /\ UNCHANGED <<echoCallVars, lock, runtime, count, port>>

\* The token: clients have tasks of their own, and accept errors do not end it.
LoopEnds(s) ==
    /\ server[s] = "cancelled"
    /\ server' = [server EXCEPT ![s] = "ended"]
    /\ UNCHANGED <<echoCallVars, lock, runtime, count, port>>

-----------------------------------------------------------------------------
Bind(c) == Binds(c) \/ BindFails(c)

EchoNext ==
    \/ \E c \in Call :
          \/ \E o \in TcpPort \cup {"stop"} : Calls(c, o)
          \/ Stops(c) \/ StopEnds(c) \/ Bind(c) \/ StoresRuntime(c)
    \/ \E s \in Echo : LoopEnds(s)

\* The lock is first come, first served (tokio's Mutex), and all tasks run.
EchoFairness ==
    /\ \A c \in Call : /\ SF_echoVars(Stops(c)) /\ SF_echoVars(StoresRuntime(c))
                       /\ WF_echoVars(StopEnds(c)) /\ WF_echoVars(Bind(c))
    /\ \A s \in Echo : WF_echoVars(LoopEnds(s))

EchoSpec == EchoInit /\ [][EchoNext]_echoVars /\ EchoFairness

-----------------------------------------------------------------------------
(* Properties *)

\* As long as no call comes between the two locks of a start (test_server.rs:40),
\* there is one server at most, it is the one in the slot or about to be stored,
\* and while a start binds there is none: its own predecessor cannot refuse it.
SerialKeepsOne ==
    ~overlapped =>
        /\ \A s \in Echo : server[s] = "running" =>
               s = runtime \/ \E c \in Call : call[c] = "storing" /\ own[c] = s
        /\ BetweenLocks => runtime = 0 /\ \A s \in Echo : server[s] # "cancelled"

\* Every call returns, also those that wait for the lock while a stop holds it
\* and waits for the loop (test_server.rs:102), and whatever the others do.
CallsReturn == \A c \in Call : call[c] # "idle" ~> call[c] = "idle"
==============================================================================

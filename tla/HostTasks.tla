------------------------------ MODULE HostTasks ------------------------------
(***************************************************************************)
(* The tasks that announce a host session to the outside: the presence     *)
(* loop, which enters the lobby every ten seconds, the subscription to the *)
(* session's lobby channel, and the e4mc loop.  The three are spawned at   *)
(* different points of a start and end in different ways.  The presence    *)
(* loop is in the session's list and aborted, the subscription only sees   *)
(* the token, and the e4mc loop has a token of its own, which the session  *)
(* holds and a failed start drops.                                         *)
(*                                                                         *)
(* start_host_runtime of e4mc.rs always fails in this version, so that its *)
(* loop retries until it is cancelled; what would follow an Ok is not      *)
(* reachable.  The lobby service is external: a request is on its way      *)
(* until it is taken, or lost.  The host-leave that a reset posts from a   *)
(* detached task is left out: nothing in this program reads one.           *)
(***************************************************************************)
EXTENDS HostCalls

VARIABLES
    e4mc,      \* spawn_e4mc_host_runtime of each session
    presence,  \* spawn_host_lobby_loop
    events,    \* the task of subscribe_lobby_events
    requests   \* sessions with a host-presence on the way to the service

taskVars == <<e4mc, presence, events, requests>>
tasksVars == <<callVars, taskVars>>

TasksTypeOK ==
    /\ CallsTypeOK
    /\ e4mc \in [Gen -> {"none", "retrying", "ended"}]
    /\ presence \in [Gen -> {"none", "waiting", "posting", "ended"}]
    /\ events \in [Gen -> {"none", "connected", "backoff", "ended"}]
    /\ requests \subseteq Gen

TasksInit ==
    /\ CallsInit
    /\ e4mc = [g \in Gen |-> "none"]
    /\ presence = [g \in Gen |-> "none"]
    /\ events = [g \in Gen |-> "none"]
    /\ requests = {}

-----------------------------------------------------------------------------
\* start_hosting spawns the e4mc loop before the first step that may fail.
TasksCallStart(enableE4mc) ==
    /\ StartCalled
    /\ e4mc' = [e4mc EXCEPT ![gen + 1] = IF enableE4mc THEN "retrying" ELSE @]
    /\ UNCHANGED <<presence, events, requests>>

\* The loops of the session end where they see the token or the abort.
TasksCallStop == StopCalled /\ UNCHANGED taskVars

\* The handle of the e4mc loop is dropped, not cancelled.
TasksStartFails == StartFailed /\ UNCHANGED taskVars

\* Mutant of StartUp: a start that another call overtook stores no session.
TasksStartUpMutant ==
    /\ api = "starting" /\ api' = "idle"
    /\ presence' = [presence EXCEPT ![gen] = "waiting"]
    /\ events' = [events EXCEPT ![gen] = "connected"]
    /\ UNCHANGED <<gen, session, cancelled, e4mc, requests>>

TasksStartUp ==
    /\ StartDone
    /\ presence' = [presence EXCEPT ![gen] = "waiting"]
    /\ events' = [events EXCEPT ![gen] = "connected"]
    /\ UNCHANGED <<e4mc, requests>>

-----------------------------------------------------------------------------
(* The presence loop of session g and the service. *)

\* The tick: probes, then enter_presence.  select! may prefer the tick to a
\* token that is cancelled already.
EnterPosted(g) ==
    /\ presence[g] = "waiting"
    /\ presence' = [presence EXCEPT ![g] = "posting"]
    /\ requests' = requests \cup {g}
    /\ UNCHANGED <<callVars, e4mc, events>>

\* An answer, an error, or the 10 s of the HTTP client.
EnterDone(g) ==
    /\ presence[g] = "posting"
    /\ presence' = [presence EXCEPT ![g] = "waiting"]
    /\ UNCHANGED <<callVars, e4mc, events, requests>>

\* Mutant of PresenceEnds: the abort of the task is forgotten, and it is the
\* post that sees the token.
PresenceEndsMutant(g) ==
    /\ presence[g] = "posting" /\ g \in cancelled
    /\ presence' = [presence EXCEPT ![g] = "ended"]
    /\ UNCHANGED <<callVars, e4mc, events, requests>>

\* The token at the select, or the abort at any await, which leaves a request
\* that was sent on its way.
PresenceEnds(g) ==
    /\ presence[g] \in {"waiting", "posting"} /\ g \in cancelled
    /\ presence' = [presence EXCEPT ![g] = "ended"]
    /\ UNCHANGED <<callVars, e4mc, events, requests>>

\* Requests overtake each other: one is taken by the service, or lost.
RequestEnds(g) ==
    /\ g \in requests
    /\ requests' = requests \ {g}
    /\ UNCHANGED <<callVars, e4mc, presence, events>>

-----------------------------------------------------------------------------
(* The subscription and the e4mc loop. *)

\* The event source ends or fails; the token is looked at before the delay.
SourceEnds(g) ==
    /\ events[g] = "connected"
    /\ events' = [events EXCEPT ![g] = IF g \in cancelled THEN "ended" ELSE "backoff"]
    /\ UNCHANGED <<callVars, e4mc, presence, requests>>

\* Mutant of Reconnects: once cancelled, the loop goes from delay to delay.
ReconnectsMutant(g) ==
    /\ events[g] = "backoff"
    /\ events' = [events EXCEPT ![g] = IF g \in cancelled THEN "backoff" ELSE "connected"]
    /\ UNCHANGED <<callVars, e4mc, presence, requests>>

\* After the delay, and so is the token.
Reconnects(g) ==
    /\ events[g] = "backoff"
    /\ events' = [events EXCEPT ![g] = IF g \in cancelled THEN "ended" ELSE "connected"]
    /\ UNCHANGED <<callVars, e4mc, presence, requests>>

EventsCancelled(g) ==
    /\ events[g] = "connected" /\ g \in cancelled
    /\ events' = [events EXCEPT ![g] = "ended"]
    /\ UNCHANGED <<callVars, e4mc, presence, requests>>

\* The abort, or the token after the next attempt; the session holds both.
E4mcEnds(g) ==
    /\ e4mc[g] = "retrying" /\ g \in cancelled
    /\ e4mc' = [e4mc EXCEPT ![g] = "ended"]
    /\ UNCHANGED <<callVars, presence, events, requests>>

Task(g) ==
    \/ EnterPosted(g) \/ EnterDone(g) \/ PresenceEnds(g)
    \/ SourceEnds(g) \/ Reconnects(g) \/ EventsCancelled(g) \/ E4mcEnds(g)

TasksNext ==
    \/ \E enableE4mc \in BOOLEAN : TasksCallStart(enableE4mc)
    \/ TasksCallStop \/ TasksStartFails \/ TasksStartUp
    \/ \E g \in Gen : Task(g) \/ RequestEnds(g)

\* A task runs on when its delay is over and ends when it sees the token or the
\* abort; a request is taken or lost.
TasksFairness ==
    /\ \A g \in Gen : /\ WF_tasksVars(PresenceEnds(g))
                      /\ WF_tasksVars(Reconnects(g)) /\ WF_tasksVars(EventsCancelled(g))
                      /\ WF_tasksVars(E4mcEnds(g)) /\ WF_tasksVars(RequestEnds(g))

TasksSpec == TasksInit /\ [][TasksNext]_tasksVars /\ TasksFairness

-----------------------------------------------------------------------------
(* Properties *)

Running(g) ==
    \/ presence[g] \in {"waiting", "posting"} \/ events[g] \in {"connected", "backoff"}
    \/ e4mc[g] = "retrying"

\* A task that runs is of the current session or told to stop, except the e4mc
\* loop of a start that is under way or failed (manager.rs:633): no other is
\* beyond the reach of a reset.
StrayFromFailedStart ==
    \A g \in Gen :
        Running(g) => \/ g = session \/ g \in cancelled
                      \/ presence[g] = "none" /\ events[g] = "none"

\* After the reset of a session all its tasks end, whether the list, the token or
\* the session itself leads to them.
TasksEnd == \A g \in Gen : g \in cancelled ~> ~Running(g)

\* A session that was reset stops being announced: its leave and its last entries
\* may overtake each other (manager.rs:1842), but there is a last entry.
StopsAnnouncing == \A g \in Gen : g \in cancelled ~> [](g \notin requests)
==============================================================================

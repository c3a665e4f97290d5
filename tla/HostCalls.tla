------------------------------ MODULE HostCalls ------------------------------
(***************************************************************************)
(* The calls that begin and end a host session, as the tasks that serve    *)
(* the session from outside see them: start_hosting and stop_hosting under *)
(* the control lock, each beginning with reset_session.  What these calls  *)
(* do to the status, the connections and the relays is in HostSession.     *)
(* UpnpPort and HostTasks extend the calls by what they do to the mapping  *)
(* and to the tasks of a session.                                          *)
(***************************************************************************)
EXTENDS Naturals

CONSTANT MaxGen \* host sessions that are ever started

ASSUME CallsAssumption == MaxGen \in Nat \ {0}

VARIABLES
    api,       \* the call that holds the control lock: none, or a start
    gen,       \* starts so far; a session is known by its number
    session,   \* the host session in Inner.session, 0: none, or a client's
    cancelled  \* sessions whose token a reset has cancelled

callVars == <<api, gen, session, cancelled>>

Gen == 1 .. MaxGen

CallsTypeOK ==
    /\ api \in {"idle", "starting"}
    /\ gen \in 0 .. MaxGen
    /\ session \in 0 .. gen
    /\ cancelled \subseteq 1 .. gen
    /\ session \notin cancelled
    /\ api = "starting" => session = 0 /\ gen > 0 /\ gen \notin cancelled

CallsInit == api = "idle" /\ gen = 0 /\ session = 0 /\ cancelled = {}

\* Mutant of ResetTakes: the token is cancelled and the session left in place.
ResetTakesMutant ==
    /\ UNCHANGED session
    /\ cancelled' = IF session = 0 THEN cancelled ELSE cancelled \cup {session}

\* reset_session takes the session out and cancels its token, with the session
\* lock held all the while.
ResetTakes ==
    /\ session' = 0
    /\ cancelled' = IF session = 0 THEN cancelled ELSE cancelled \cup {session}

\* start_hosting up to the first step that may fail.
StartCalled ==
    /\ api = "idle" /\ gen < MaxGen
    /\ api' = "starting" /\ gen' = gen + 1
    /\ ResetTakes

\* stop_hosting; a client session that takes the place resets the same way.
StopCalled == api = "idle" /\ ResetTakes /\ UNCHANGED <<api, gen>>

\* The socket, the certificate or the endpoint fails: return by `?`.
StartFailed == api = "starting" /\ api' = "idle" /\ UNCHANGED <<gen, session, cancelled>>

\* The endpoint is up, the tasks are spawned and the session is stored.
StartDone ==
    /\ api = "starting" /\ api' = "idle"
    /\ session' = gen
    /\ UNCHANGED <<gen, cancelled>>

CallsNext == StartCalled \/ StopCalled \/ StartFailed \/ StartDone

CallsSpec == CallsInit /\ [][CallsNext]_callVars

-----------------------------------------------------------------------------
Slot == INSTANCE SessionSlot

\* The calls keep what a session's token promises: a session in the slot is the
\* only one that is not cancelled, and a later one than all that were.
KeepsSlot == Slot!SlotSpec
==============================================================================

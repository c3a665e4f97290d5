------------------------------ MODULE UpnpPort ------------------------------
(***************************************************************************)
(* The port mapping of a host session.  Every start spawns a task that is  *)
(* in no list: it looks for a gateway (UpnpMapping::attempt_map), asks it  *)
(* to forward the local game port, and stores the mapping in whichever     *)
(* host session is current when it is done.  Dropping a mapping deletes    *)
(* the port at its gateway, on a thread of its own.                        *)
(*                                                                         *)
(* All sessions ask for the same port: it is the port of the game, not one *)
(* of the session, so that a gateway is mapped or not.  A mapping is known *)
(* by the session whose task made it.  The gateways are external.          *)
(***************************************************************************)
EXTENDS HostCalls

CONSTANTS
    Gateway,    \* the gateways that answer the search
    Nowhere     \* no gateway

ASSUME GatewayAssumption == Nowhere \notin Gateway

VARIABLES
    mapping,   \* how far the task of each session, and its mapping, has come
    tried,     \* gateways that returned an error to it
    at,        \* the gateway of its mapping
    slot,      \* host.upnp_mapping of the current session, 0: None
    mapped,    \* gateways that forward the port
    orphaned   \* of these, those whose entry no mapping stands for any more

mapVars == <<mapping, tried, at, slot, mapped, orphaned>>
upnpVars == <<callVars, mapVars>>

\* "held": the task has it and waits for the session lock.  "deleting": dropped,
\* the thread is under way.
MappingStage == {"none", "searching", "held", "stored", "deleting", "gone"}

UpnpTypeOK ==
    /\ CallsTypeOK
    /\ mapping \in [Gen -> MappingStage]
    /\ tried \in [Gen -> SUBSET Gateway]
    /\ at \in [Gen -> Gateway \cup {Nowhere}]
    /\ slot \in 0 .. MaxGen
    /\ mapped \subseteq Gateway
    /\ orphaned \subseteq mapped

UpnpInit ==
    /\ CallsInit
    /\ mapping = [g \in Gen |-> "none"]
    /\ tried = [g \in Gen |-> {}]
    /\ at = [g \in Gen |-> Nowhere]
    /\ slot = 0 /\ mapped = {} /\ orphaned = {}

-----------------------------------------------------------------------------
\* drop of the mapping in the slot: its thread is spawned.
SlotDropped == [g \in Gen |-> IF g = slot THEN "deleting" ELSE mapping[g]]

\* The HostControl the reset took out of the session ends with its match arm.
ResetDrops == slot' = 0 /\ mapping' = SlotDropped /\ UNCHANGED <<tried, at, mapped, orphaned>>

UpnpCallStart == StartCalled /\ ResetDrops
UpnpCallStop == StopCalled /\ ResetDrops
UpnpStartFails == StartFailed /\ UNCHANGED mapVars

\* The session is stored with no mapping, and the task is spawned.
UpnpStartUp ==
    /\ StartDone
    /\ mapping' = [mapping EXCEPT ![gen] = "searching"]
    /\ UNCHANGED <<tried, at, slot, mapped, orphaned>>

-----------------------------------------------------------------------------
(* attempt_map of the task of session g: one gateway after the other. *)

Asks(g, x) == mapping[g] = "searching" /\ x \notin tried[g]

AddsPort(g, x) ==
    /\ Asks(g, x)
    /\ mapped' = mapped \cup {x} /\ orphaned' = orphaned \ {x}
    /\ mapping' = [mapping EXCEPT ![g] = "held"] /\ at' = [at EXCEPT ![g] = x]
    /\ UNCHANGED <<callVars, tried, slot>>

Refuses(g, x) ==
    /\ Asks(g, x)
    /\ tried' = [tried EXCEPT ![g] = @ \cup {x}]
    /\ UNCHANGED <<callVars, mapping, at, slot, mapped, orphaned>>

\* A mapping whose drop has not been executed stands for x.
Owned(x) == \E g \in Gen : at[g] = x /\ mapping[g] \in {"held", "stored", "deleting"}

\* The gateway adds the port and its answer is lost: an error like any other,
\* and the next gateway is asked.
AnswerLost(g, x) ==
    /\ Asks(g, x)
    /\ mapped' = mapped \cup {x}
    /\ orphaned' = IF Owned(x) THEN orphaned ELSE orphaned \cup {x}
    /\ tried' = [tried EXCEPT ![g] = @ \cup {x}]
    /\ UNCHANGED <<callVars, mapping, at, slot>>

\* The search ends after 5 s, or every gateway refused.
NoGateway(g) ==
    /\ mapping[g] = "searching"
    /\ mapping' = [mapping EXCEPT ![g] = "gone"]
    /\ UNCHANGED <<callVars, tried, at, slot, mapped, orphaned>>

\* Mutant of Stores: with no host session the mapping is leaked.
StoresMutant(g) ==
    /\ mapping[g] = "held"
    /\ IF session = 0
       THEN /\ mapping' = [mapping EXCEPT ![g] = "gone"]
            /\ UNCHANGED slot
       ELSE /\ mapping' = [SlotDropped EXCEPT ![g] = "stored"]
            /\ slot' = g
    /\ UNCHANGED <<callVars, tried, at, mapped, orphaned>>

\* Mutant of Stores: what is stored is a copy, and the task drops its own.
StoresCopyMutant(g) ==
    /\ mapping[g] = "held"
    /\ mapping' = [SlotDropped EXCEPT ![g] = "deleting"]
    /\ slot' = IF session = 0 THEN slot ELSE g
    /\ UNCHANGED <<callVars, tried, at, mapped, orphaned>>

\* Under the session lock: into the host session that is current, dropping the
\* mapping that is there, or without one dropped at once.
Stores(g) ==
    /\ mapping[g] = "held"
    /\ IF session = 0
       THEN /\ mapping' = [mapping EXCEPT ![g] = "deleting"]
            /\ UNCHANGED slot
       ELSE /\ mapping' = [SlotDropped EXCEPT ![g] = "stored"]
            /\ slot' = g
    /\ UNCHANGED <<callVars, tried, at, mapped, orphaned>>

-----------------------------------------------------------------------------
(* The thread of a dropped mapping. *)

OwnedByOther(g) ==
    \E h \in Gen \ {g} : at[h] = at[g] /\ mapping[h] \in {"held", "stored", "deleting"}

\* Mutant of Deletes: DeletePortMapping names another port.
DeletesMutant(g) ==
    /\ mapping[g] = "deleting"
    /\ mapping' = [mapping EXCEPT ![g] = "gone"]
    /\ UNCHANGED <<callVars, tried, at, slot, mapped, orphaned>>

\* The port is closed at the gateway, whoever mapped it last.
Deletes(g) ==
    /\ mapping[g] = "deleting"
    /\ mapping' = [mapping EXCEPT ![g] = "gone"]
    /\ mapped' = mapped \ {at[g]} /\ orphaned' = orphaned \ {at[g]}
    /\ UNCHANGED <<callVars, tried, at, slot>>

\* The request fails, which is logged: a port that is still mapped stays so.
DeleteFails(g) ==
    /\ mapping[g] = "deleting"
    /\ mapping' = [mapping EXCEPT ![g] = "gone"]
    /\ orphaned' = IF at[g] \in mapped /\ ~OwnedByOther(g)
                   THEN orphaned \cup {at[g]} ELSE orphaned
    /\ UNCHANGED <<callVars, tried, at, slot, mapped>>

Search(g) ==
    \/ NoGateway(g)
    \/ \E x \in Gateway : AddsPort(g, x) \/ Refuses(g, x) \/ AnswerLost(g, x)

Delete(g) == Deletes(g) \/ DeleteFails(g)

UpnpNext ==
    \/ UpnpCallStart \/ UpnpCallStop \/ UpnpStartFails \/ UpnpStartUp
    \/ \E g \in Gen : Search(g) \/ Stores(g) \/ Delete(g)

\* The search has a deadline; a request at a gateway succeeds or fails.
UpnpFairness ==
    /\ WF_upnpVars(UpnpStartFails \/ UpnpStartUp)
    /\ \A g \in Gen : WF_upnpVars(Search(g)) /\ WF_upnpVars(Stores(g)) /\ WF_upnpVars(Delete(g))

UpnpSpec == UpnpInit /\ [][UpnpNext]_upnpVars /\ UpnpFairness

-----------------------------------------------------------------------------
(* Properties *)

\* A port that is open at a gateway has a mapping that will close it, in a task,
\* in the session or in its thread, unless a gateway failed: whatever session the
\* task of an earlier one finds when it is done (manager.rs:800).
PortIsOwned == \A x \in mapped \ orphaned : Owned(x)

\* A session's mapping whose port is closed has lost it to the drop of another
\* mapping at the same gateway, never to a fault of its own.
ClosedByAnother ==
    slot # 0 /\ at[slot] \notin mapped =>
        \E h \in Gen \ {slot} : at[h] = at[slot] /\ mapping[h] = "gone"

\* When hosting is over for good, every port is closed that no gateway failed to
\* close (upnp.rs:8: "on drop the port is closed on the router").
PortsClose == <>[](api = "idle" /\ session = 0) => <>[](mapped \subseteq orphaned)

\* upnp.rs:7: an UpnpMapping "keeps the state of the forwarded port".  Does a
\* session that has one have the port open?
MappingIsOpen == slot # 0 => at[slot] \in mapped
==============================================================================

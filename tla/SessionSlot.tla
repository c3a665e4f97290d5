----------------------------- MODULE SessionSlot -----------------------------
(***************************************************************************)
(* What the control lock and reset_session promise of Inner.session, to    *)
(* every task that was given a session's token: there is one session at a  *)
(* time, none takes the place of another before the token of that one is   *)
(* cancelled, and a session that was cancelled never comes back.  Sessions *)
(* are numbered in the order in which they were begun; one whose start     *)
(* fails never shows.                                                      *)
(***************************************************************************)
EXTENDS Naturals

VARIABLES
    session,    \* the session in the slot, 0: none
    cancelled   \* sessions whose token is cancelled

slotVars == <<session, cancelled>>

SlotInit == session = 0 /\ cancelled = {}

Open ==
    /\ session = 0
    /\ session' \in Nat \ {0} /\ \A g \in cancelled : g < session'
    /\ UNCHANGED cancelled

Close ==
    /\ session # 0
    /\ session' = 0 /\ cancelled' = cancelled \cup {session}

SlotSpec == SlotInit /\ [][Open \/ Close]_slotVars
==============================================================================

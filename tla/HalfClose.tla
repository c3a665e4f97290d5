------------------------------ MODULE HalfClose ------------------------------
(***************************************************************************)
(* What a splice promises to the two programs it stands between: one TCP   *)
(* connection.  Each program writes, ends its sending when it likes and    *)
(* goes on reading; it hears the end of the other once, and nothing after  *)
(* it.  While the connection is whole that end is no reset and comes after *)
(* all the other has written.  A connection breaks when a program goes     *)
(* away while the other may have something to say, or when something in    *)
(* between fails; then either program may hear an end at any time.         *)
(*                                                                         *)
(* Chunks are counted: a splice neither reads nor reorders them.           *)
(***************************************************************************)
EXTENDS Naturals

CONSTANTS
    End,    \* the two ends, each with its program
    Far(_)  \* the other end

VARIABLES
    wrote,      \* chunks each has written
    got,        \* of these, chunks that have reached the other
    over,       \* programs that have ended their sending
    heard,      \* what each has heard of the other's end
    broken      \* the connection is no longer whole

wireVars == <<wrote, got, over, heard, broken>>

WireInit ==
    /\ wrote = [e \in End |-> 0] /\ got = [e \in End |-> 0]
    /\ over = {} /\ heard = [e \in End |-> "open"] /\ broken = FALSE

Write(e) ==
    /\ e \notin over
    /\ wrote' = [wrote EXCEPT ![e] = @ + 1]
    /\ UNCHANGED <<got, over, heard, broken>>

Deliver(e) ==
    /\ got[e] < wrote[e] /\ heard[Far(e)] = "open"
    /\ got' = [got EXCEPT ![e] = @ + 1]
    /\ UNCHANGED <<wrote, over, heard, broken>>

\* A shutdown of the sending half, or the program goes away.
EndSending(e) ==
    /\ over' = over \cup {e} /\ (broken => broken')
    /\ UNCHANGED <<wrote, got, heard>>

HearEnd(e) ==
    /\ heard[e] = "open" /\ Far(e) \in over /\ got[Far(e)] = wrote[Far(e)]
    /\ heard' = [heard EXCEPT ![e] = "eof"]
    /\ UNCHANGED <<wrote, got, over, broken>>

\* The connection breaks, or is broken: who has heard nothing may hear an end.
Break ==
    /\ broken'
    /\ heard' \in [End -> {"open", "eof", "reset"}]
    /\ \A e \in End : heard[e] # "open" => heard'[e] = heard[e]
    /\ UNCHANGED <<wrote, got, over>>

WireNext == Break \/ \E e \in End : Write(e) \/ Deliver(e) \/ EndSending(e) \/ HearEnd(e)

WireSpec == WireInit /\ [][WireNext]_wireVars
==============================================================================

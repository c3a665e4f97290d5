----------------------------- MODULE StreamPipes -----------------------------
(***************************************************************************)
(* What the relay promises to the two programs it stands between: for each *)
(* connection a pipe in either direction, as TCP would be.  A chunk comes  *)
(* out once, in the order in which it went in, at the end of its own       *)
(* connection; chunks at the tail may be lost when the connection breaks.  *)
(***************************************************************************)
EXTENDS Naturals, Sequences

CONSTANTS
    Side,   \* the two ends; a pipe is named after the end it comes out of
    Conn,   \* connections
    From(_) \* the end a pipe starts at

VARIABLES
    sent,   \* chunks written at each end
    got     \* chunks read at each end

Init ==
    /\ sent = [s \in Side |-> [c \in Conn |-> 0]]
    /\ got = [s \in Side |-> [c \in Conn |-> <<>>]]

Write(s, c) ==
    /\ sent' = [sent EXCEPT ![s][c] = @ + 1]
    /\ UNCHANGED got

Read(s, c) ==
    /\ Len(got[s][c]) < sent[From(s)][c]
    /\ got' = [got EXCEPT ![s][c] = Append(@, <<c, Len(@) + 1>>)]
    /\ UNCHANGED sent

Next == \E s \in Side, c \in Conn : Write(s, c) \/ Read(s, c)

Spec == Init /\ [][Next]_<<sent, got>>
==============================================================================

---------------------------- MODULE ReverseTunnel ----------------------------
(***************************************************************************)
(* The reverse tunnel of tunnel.rs: a control connection to an external    *)
(* server, on which it announces connections; for each a task that is in   *)
(* no list dials back, accepts it by its id, connects to the local target  *)
(* and splices the two sockets with copy_bidirectional_tolerant.           *)
(*                                                                         *)
(* The splice is try_join! of two copies, as in Splice, with one           *)
(* difference: an error that means the connection was closed ends its      *)
(* direction like an end of file; any other ends both.  The server, the    *)
(* programs at both sides and TCP are external.                            *)
(***************************************************************************)
EXTENDS Naturals, Sequences

CONSTANTS
    Id,         \* connections the server announces
    MaxTries,   \* LOCAL_TARGET_RETRY_ATTEMPTS
    MaxPiece    \* chunks each side of a connection sends

ASSUME TunnelAssumption ==
    /\ MaxTries \in Nat \ {0} /\ MaxPiece \in Nat
    /\ Id \cap {"other", "error", "end"} = {}

Side == {"local", "remote"}
Opposite(s) == IF s = "local" THEN "remote" ELSE "local"

VARIABLES
    tunnel,    \* start_reverse_tunnel and the control loop
    tunnelCancelled,  \* the token, or the abort of the handle
    frames,    \* frames of the server the loop has not read
    announced, \* ids the server has announced
    conn,      \* accept_reverse_connection of each id
    tries,     \* attempts to connect to the local target
    prog,      \* what is behind the socket of each side, as to its sending
    sideHeard, \* and as to its receiving
    copy,      \* the copy from each side to the other
    sideWrote, \* chunks written at each side
    sideGot    \* of these, chunks copied to the other side

ctlVars == <<tunnel, tunnelCancelled, frames, announced>>
sideVars == <<prog, sideHeard, copy, sideWrote, sideGot>>
tunnelVars == <<ctlVars, conn, tries, sideVars>>

\* "other": a heartbeat or a second Hello.  "error": an Error, or a frame that is
\* too long or does not parse.  "end": the server closed the connection.
Frame == Id \cup {"other", "error", "end"}
ConnStage == {"none", "dialing", "accepted", "splicing", "ended", "failed"}

TunnelTypeOK ==
    /\ tunnel \in {"none", "hello", "looping", "ended", "failed"}
    /\ tunnelCancelled \in BOOLEAN
    /\ frames \in Seq(Frame) /\ announced \subseteq Id
    /\ conn \in [Id -> ConnStage] /\ tries \in [Id -> 0 .. MaxTries]
    /\ prog \in [Id -> [Side -> {"open", "shut", "closed", "reset"}]]
    /\ sideHeard \in [Id -> [Side -> {"open", "eof", "reset"}]]
    /\ copy \in [Id -> [Side -> {"copying", "done"}]]
    /\ sideWrote \in [Id -> [Side -> 0 .. MaxPiece]]
    /\ sideGot \in [Id -> [Side -> 0 .. MaxPiece]]
    /\ \A i \in Id : conn[i] # "none" => i \in announced

TunnelInit ==
    LET perSide(v) == [i \in Id |-> [s \in Side |-> v]]
    IN  /\ tunnel = "none" /\ tunnelCancelled = FALSE /\ frames = <<>> /\ announced = {}
        /\ conn = [i \in Id |-> "none"] /\ tries = [i \in Id |-> 0]
        /\ prog = perSide("open") /\ sideHeard = perSide("open")
        /\ copy = perSide("copying")
        /\ sideWrote = perSide(0) /\ sideGot = perSide(0)

-----------------------------------------------------------------------------
(* The control connection. *)

Start ==
    /\ tunnel = "none"
    /\ tunnel' = "hello"
    /\ UNCHANGED <<tunnelCancelled, frames, announced, conn, tries, sideVars>>

\* The server's first frame, within CONTROL_TIMEOUT, is its Hello or not.
HelloDone(answered) ==
    /\ tunnel = "hello"
    /\ tunnel' = IF answered THEN "looping" ELSE "failed"
    /\ UNCHANGED <<tunnelCancelled, frames, announced, conn, tries, sideVars>>

ServerSends(f) ==
    /\ tunnel = "looping"
    /\ \A i \in DOMAIN frames : frames[i] \in Id  \* bound: nothing after these
    /\ f \in Id => f \notin announced             \* Uuids are not used twice
    /\ frames' = Append(frames, f)
    /\ announced' = IF f \in Id THEN announced \cup {f} ELSE announced
    /\ UNCHANGED <<tunnel, tunnelCancelled, conn, tries, sideVars>>

\* Mutant of LoopReads: the arm of Connection does not spawn the task.
LoopReadsMutant ==
    /\ tunnel = "looping" /\ frames # <<>>
    /\ frames' = Tail(frames)
    /\ tunnel' = IF Head(frames) \in {"error", "end"} THEN "ended" ELSE tunnel
    /\ UNCHANGED <<tunnelCancelled, announced, conn, tries, sideVars>>

LoopReads ==
    /\ tunnel = "looping" /\ frames # <<>>
    /\ frames' = Tail(frames)
    /\ conn' = [i \in Id |-> IF i = Head(frames) THEN "dialing" ELSE conn[i]]
    /\ tunnel' = IF Head(frames) \in {"error", "end"} THEN "ended" ELSE tunnel
    /\ UNCHANGED <<tunnelCancelled, announced, tries, sideVars>>

TunnelCancel ==
    /\ tunnel = "looping" /\ ~tunnelCancelled
    /\ tunnelCancelled' = TRUE
    /\ UNCHANGED <<tunnel, frames, announced, conn, tries, sideVars>>

\* select! takes the token, unless it takes another frame first.
LoopCancelled ==
    /\ tunnel = "looping" /\ tunnelCancelled
    /\ tunnel' = "ended"
    /\ UNCHANGED <<tunnelCancelled, frames, announced, conn, tries, sideVars>>

-----------------------------------------------------------------------------
(* accept_reverse_connection. *)

DialBack(i, connected) ==
    /\ conn[i] = "dialing"
    /\ conn' = [conn EXCEPT ![i] = IF connected THEN "accepted" ELSE "failed"]
    /\ UNCHANGED <<ctlVars, tries, sideVars>>

LocalConnects(i) ==
    /\ conn[i] = "accepted"
    /\ conn' = [conn EXCEPT ![i] = "splicing"]
    /\ UNCHANGED <<ctlVars, tries, sideVars>>

\* Not there yet, or not within BRIDGE_CONNECT_TIMEOUT.
LocalRefuses(i) ==
    /\ conn[i] = "accepted"
    /\ tries' = [tries EXCEPT ![i] = @ + 1]
    /\ conn' = [conn EXCEPT ![i] = IF tries[i] + 1 = MaxTries THEN "failed" ELSE @]
    /\ UNCHANGED <<ctlVars, sideVars>>

-----------------------------------------------------------------------------
(* The programs behind the two sockets of a splice. *)

SideGone(i, s) == prog[i][s] \in {"closed", "reset"}

SideWrites(i, s) ==
    /\ conn[i] = "splicing" /\ prog[i][s] = "open" /\ sideWrote[i][s] < MaxPiece
    /\ sideWrote' = [sideWrote EXCEPT ![i][s] = @ + 1]
    /\ UNCHANGED <<ctlVars, conn, tries, prog, sideHeard, copy, sideGot>>

\* shutdown of the sending half, close, or a reset.
SideEnds(i, s, how) ==
    /\ conn[i] = "splicing" /\ ~SideGone(i, s)
    /\ how # prog[i][s]
    /\ prog' = [prog EXCEPT ![i][s] = how]
    /\ UNCHANGED <<ctlVars, conn, tries, sideHeard, copy, sideWrote, sideGot>>

-----------------------------------------------------------------------------
(* copy_bidirectional_tolerant; copy[i][s] reads from s. *)

Copying(i, s) == conn[i] = "splicing" /\ copy[i][s] = "copying"

Copies(i, s) ==
    /\ Copying(i, s) /\ sideGot[i][s] < sideWrote[i][s] /\ ~SideGone(i, Opposite(s))
    /\ sideGot' = [sideGot EXCEPT ![i][s] = @ + 1]
    /\ UNCHANGED <<ctlVars, conn, tries, prog, sideHeard, copy, sideWrote>>

\* The copy from s is over: the other side's socket is shut down.
CopyOver(i, s) ==
    /\ copy' = [copy EXCEPT ![i][s] = "done"]
    /\ sideHeard' = [sideHeard EXCEPT ![i][Opposite(s)] = IF @ = "open" THEN "eof" ELSE @]
    /\ UNCHANGED <<ctlVars, conn, tries, prog, sideWrote, sideGot>>

\* Mutant of CopyEnds: a short read is taken for the end of file.
CopyEndsMutant(i, s) ==
    /\ Copying(i, s) /\ prog[i][s] \in {"shut", "closed"}
    /\ CopyOver(i, s)

\* End of file; what is written to a program that is gone may be lost silently.
CopyEnds(i, s) ==
    /\ Copying(i, s) /\ prog[i][s] \in {"shut", "closed"}
    /\ sideGot[i][s] = sideWrote[i][s] \/ SideGone(i, Opposite(s))
    /\ CopyOver(i, s)

\* Mutant of CopyBreaks: the error ends the loop and skips the shutdown.
CopyBreaksMutant(i, s) ==
    /\ Copying(i, s)
    /\ prog[i][s] = "reset" \/ (SideGone(i, Opposite(s)) /\ sideGot[i][s] < sideWrote[i][s])
    /\ copy' = [copy EXCEPT ![i][s] = "done"]
    /\ UNCHANGED <<ctlVars, conn, tries, prog, sideHeard, sideWrote, sideGot>>

\* is_connection_close of a read or a write.
CopyBreaks(i, s) ==
    /\ Copying(i, s)
    /\ prog[i][s] = "reset" \/ (SideGone(i, Opposite(s)) /\ sideGot[i][s] < sideWrote[i][s])
    /\ CopyOver(i, s)

\* Any other error (the keep-alive's time-out): both directions are dropped.
CopyFails(i) ==
    /\ \E s \in Side : Copying(i, s)
    /\ conn' = [conn EXCEPT ![i] = "failed"]
    /\ sideHeard' = [sideHeard EXCEPT ![i] =
          [s \in Side |-> IF @[s] # "open" THEN @[s]
                          ELSE IF sideGot[i][s] < sideWrote[i][s] THEN "reset" ELSE "eof"]]
    /\ UNCHANGED <<ctlVars, tries, prog, copy, sideWrote, sideGot>>

SpliceOver(i) ==
    /\ conn[i] = "splicing" /\ \A s \in Side : copy[i][s] = "done"
    /\ conn' = [conn EXCEPT ![i] = "ended"]
    /\ UNCHANGED <<ctlVars, tries, sideVars>>

-----------------------------------------------------------------------------
Hello == \E answered \in BOOLEAN : HelloDone(answered)
Dial(i) == \E connected \in BOOLEAN : DialBack(i, connected)
Local(i) == LocalConnects(i) \/ LocalRefuses(i)
Copy(i, s) == Copies(i, s) \/ CopyEnds(i, s) \/ CopyBreaks(i, s)

TunnelNext ==
    \/ Start \/ Hello \/ LoopReads \/ TunnelCancel \/ LoopCancelled
    \/ \E f \in Frame : ServerSends(f)
    \/ \E i \in Id :
          \/ Dial(i) \/ Local(i) \/ CopyFails(i) \/ SpliceOver(i)
          \/ \E s \in Side : SideWrites(i, s) \/ Copy(i, s)
          \/ \E s \in Side, how \in {"shut", "closed", "reset"} : SideEnds(i, s, how)

\* Every wait of the client but the one for frames has a timeout.
TunnelFairness ==
    /\ WF_tunnelVars(Hello) /\ WF_tunnelVars(LoopReads) /\ WF_tunnelVars(LoopCancelled)
    /\ \A i \in Id :
          /\ WF_tunnelVars(Dial(i)) /\ WF_tunnelVars(Local(i)) /\ WF_tunnelVars(SpliceOver(i))
          /\ \A s \in Side : WF_tunnelVars(Copy(i, s))

TunnelSpec == TunnelInit /\ [][TunnelNext]_tunnelVars /\ TunnelFairness

-----------------------------------------------------------------------------
(* Properties *)

\* No side went away, and no error but those that mean so.
Undisturbed(i) == conn[i] # "failed" /\ \A s \in Side : ~SideGone(i, s)

\* Every connection is one TCP connection (HalfClose), whatever the control loop
\* and the other connections do: the copy that is over first does not end the one
\* that is not (tunnel.rs:348).
TunnelWire(i) == INSTANCE HalfClose WITH
    End <- Side, Far <- Opposite,
    wrote <- sideWrote[i], got <- sideGot[i], heard <- sideHeard[i],
    over <- {s \in Side : prog[i][s] # "open"},
    broken <- ~Undisturbed(i)

TunnelKeepsHalfClose ==
    /\ \A i \in Id : TunnelWire(i)!WireInit
    /\ [][\A i \in Id : [TunnelWire(i)!WireNext]_(TunnelWire(i)!wireVars)]_tunnelVars

\* While both sides only end their sending, each hears the end of the other, and
\* only after all its data (tunnel.rs:348): the copy that is over first does not
\* end the one that is not.
TunnelCleanEnd ==
    \A i \in Id : Undisturbed(i) =>
        \A s \in Side : sideHeard[i][s] # "open" =>
            /\ sideHeard[i][s] = "eof" /\ prog[i][Opposite(s)] # "open"
            /\ sideGot[i][Opposite(s)] = sideWrote[i][Opposite(s)]

\* A side that goes away, in whatever manner, is an end of file for the other:
\* a reset does not leave it waiting (tunnel.rs:354).
TunnelGoneIsNoticed ==
    \A i \in Id, s \in Side : SideGone(i, s) ~> sideHeard[i][Opposite(s)] # "open"

\* A connection the server announces gets its splice or is given up, unless the
\* tunnel ends before the frame is read: its task does not need the tunnel once it
\* is spawned (tunnel.rs:171).
ConnectionSettles ==
    \A i \in Id :
        i \in announced ~>
            \/ conn[i] \in {"splicing", "ended", "failed"}
            \/ conn[i] = "none" /\ tunnel = "ended"
==============================================================================

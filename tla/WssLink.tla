------------------------------- MODULE WssLink -------------------------------
(***************************************************************************)
(* The link of a WSS relay runtime to the relay server: start_*_runtime    *)
(* and the loop it spawns (host_loop, client_loop, client_loop_udp), which *)
(* runs one session after the other, and the tasks every session spawns.   *)
(*                                                                         *)
(* The three runtimes differ in when they are ready, in what ends their    *)
(* loop and in the third task: the TCP client accepts on a local port it   *)
(* binds anew for every session, the UDP client receives on a socket of    *)
(* its own, the host has none.  What flows through the link is WssMux's.   *)
(* The frames that arrive are frames decode_frame accepts.                 *)
(***************************************************************************)
EXTENDS Naturals

CONSTANT MaxSession     \* bound on the sessions a loop runs

ASSUME LinkAssumption == MaxSession \in Nat \ {0}

Role == {"host", "tcp", "udp"}
Session == 1 .. MaxSession
\* "inlet": the accept task of the TCP client, udp_recv_task of the UDP client.
Task == {"writer", "pinger", "inlet"}

VARIABLES
    role,       \* which runtime this is
    cancelled,  \* its CancellationToken
    caller,     \* start_*_runtime
    answer,     \* what ready_signal was used for
    loop,       \* the loop, and how far the session it runs is
    sess,       \* number of sessions started
    link,       \* the WebSocket of each session
    tasks       \* the spawned tasks of each session that run

vars == <<role, cancelled, caller, answer, loop, sess, link, tasks>>

\* "gone": client_loop ended because the relay does not know the session.
LoopStage == {"waiting", "dialing", "linked", "reading", "ended", "gone"}
InSession == {"dialing", "linked", "reading"}

TypeOK ==
    /\ role \in Role /\ cancelled \in BOOLEAN
    /\ caller \in {"waiting", "up", "failed"}
    /\ answer \in {"none", "ok", "error"}
    /\ loop \in LoopStage
    /\ sess \in 0 .. MaxSession
    /\ loop \in InSession => sess # 0
    /\ link \in [Session -> {"none", "up", "broken", "closed"}]
    /\ tasks \in [Session -> SUBSET Task]

Init ==
    /\ role \in Role /\ cancelled = FALSE
    /\ caller = "waiting" /\ answer = "none"
    /\ loop = "waiting" /\ sess = 0
    /\ link = [n \in Session |-> "none"]
    /\ tasks = [n \in Session |-> {}]

-----------------------------------------------------------------------------
(* The loop. *)

\* Mutant of Dial: the attempt is made without a session.
DialMutant ==
    /\ loop = "waiting" /\ ~cancelled /\ sess < MaxSession
    /\ loop' = "dialing"
    /\ UNCHANGED <<role, cancelled, caller, answer, sess, link, tasks>>

\* "waiting": before the first session, or in the RECONNECT_DELAY after one.
Dial ==
    /\ loop = "waiting" /\ ~cancelled /\ sess < MaxSession
    /\ loop' = "dialing" /\ sess' = sess + 1
    /\ link' = [link EXCEPT ![sess + 1] = "up"]
    /\ UNCHANGED <<role, cancelled, caller, answer, tasks>>

LoopStops ==
    /\ loop = "waiting" /\ cancelled
    /\ loop' = "ended"
    /\ UNCHANGED <<role, cancelled, caller, answer, sess, link, tasks>>

\* Mutant of Fails: the UDP loop ends at any error.
FailsMutant(unknown) ==
    /\ answer' = IF answer = "none" /\ ~cancelled THEN "error" ELSE answer
    /\ loop' = IF cancelled \/ role = "udp" THEN "ended"
               ELSE IF role = "tcp" /\ unknown THEN "gone" ELSE "waiting"

\* The session returned an error: the first one is reported, and the loops go on
\* unless the UDP client was not ready yet or the TCP client's session is unknown.
Fails(unknown) ==
    /\ answer' = IF answer = "none" /\ ~cancelled THEN "error" ELSE answer
    /\ loop' = IF cancelled \/ (role = "udp" /\ answer = "none") THEN "ended"
               ELSE IF role = "tcp" /\ unknown THEN "gone" ELSE "waiting"

\* Mutant of HandshakeFails: the tasks are spawned before the answer is there.
HandshakeFailsMutant(unknown) ==
    /\ loop = "dialing"
    /\ Fails(unknown)
    /\ tasks' = [tasks EXCEPT ![sess] = {"writer", "pinger"}]
    /\ UNCHANGED <<role, cancelled, caller, sess, link>>

\* No connection, a timeout, an error message, a HELLO that cannot be sent: the
\* session returns and drops both halves of the WebSocket.
HandshakeFails(unknown) ==
    /\ loop = "dialing"
    /\ Fails(unknown)
    /\ link' = [link EXCEPT ![sess] = "closed"]
    /\ UNCHANGED <<role, cancelled, caller, sess, tasks>>

\* Registered (the host is ready) or Linked and HELLO sent: writer and pings are
\* spawned, and at the UDP client the receiving task.
Joined ==
    /\ loop = "dialing" /\ link[sess] = "up"
    /\ loop' = IF role = "tcp" THEN "linked" ELSE "reading"
    /\ answer' = IF role = "host" /\ answer = "none" THEN "ok" ELSE answer
    /\ tasks' = [tasks EXCEPT ![sess] =
                    IF role = "udp" THEN Task ELSE {"writer", "pinger"}]
    /\ UNCHANGED <<role, cancelled, caller, sess, link>>

PortFree == \A n \in Session : "inlet" \notin tasks[n]

Binds ==
    /\ loop = "linked" /\ PortFree
    /\ loop' = "reading"
    /\ tasks' = [tasks EXCEPT ![sess] = @ \cup {"inlet"}]
    /\ UNCHANGED <<role, cancelled, caller, answer, sess, link>>

\* The port is taken, by an accept task left over or by another program: the
\* session returns, and its writer, which holds the WebSocket, and pings stay.
BindFails ==
    /\ loop = "linked"
    /\ Fails(FALSE)
    /\ UNCHANGED <<role, cancelled, caller, sess, link, tasks>>

\* READY of the host: the clients are ready.
Ready ==
    /\ loop = "reading" /\ role # "host" /\ answer = "none" /\ link[sess] = "up"
    /\ answer' = "ok"
    /\ UNCHANGED <<role, cancelled, caller, loop, sess, link, tasks>>

\* Mutant of ReadEnds: the third task is not aborted.
ReadEndsMutant ==
    /\ loop = "reading" /\ (cancelled \/ link[sess] = "closed")
    /\ loop' = IF cancelled THEN "ended" ELSE "waiting"
    /\ link' = [link EXCEPT ![sess] = "closed"]
    /\ tasks' = [tasks EXCEPT ![sess] = @ \ {"writer", "pinger"}]
    /\ UNCHANGED <<role, cancelled, caller, answer, sess>>

\* The reader leaves its loop: Close, the end of the stream or the token.
ReadEnds ==
    /\ loop = "reading" /\ (cancelled \/ link[sess] = "closed")
    /\ loop' = IF cancelled THEN "ended" ELSE "waiting"
    /\ link' = [link EXCEPT ![sess] = "closed"]
    /\ tasks' = [tasks EXCEPT ![sess] = {}]
    /\ UNCHANGED <<role, cancelled, caller, answer, sess>>

\* A read error returns past the aborts.
ReadFails ==
    /\ loop = "reading" /\ link[sess] = "broken"
    /\ Fails(FALSE)
    /\ UNCHANGED <<role, cancelled, caller, sess, link, tasks>>

\* The manager cancels a host runtime and aborts its loop in one go.
LoopAborted ==
    /\ role = "host" /\ cancelled /\ loop # "ended"
    /\ loop' = "ended"
    /\ link' = IF loop = "dialing" THEN [link EXCEPT ![sess] = "closed"] ELSE link
    /\ UNCHANGED <<role, cancelled, caller, answer, sess, tasks>>

-----------------------------------------------------------------------------
(* The tasks of session n. *)

Leaves(n, task) == tasks' = [tasks EXCEPT ![n] = @ \ {task}]

\* Does the session's own task hold a half of the WebSocket?
Reads(n) == n = sess /\ loop \in InSession

\* A send fails, sooner or later a ping's; or the token.
WriterEnds(n) ==
    /\ "writer" \in tasks[n] /\ (cancelled \/ link[n] # "up")
    /\ Leaves(n, "writer")
    /\ link' = IF Reads(n) \/ link[n] # "up" THEN link ELSE [link EXCEPT ![n] = "closed"]
    /\ UNCHANGED <<role, cancelled, caller, answer, loop, sess>>

PingerEnds(n) ==
    /\ "pinger" \in tasks[n] /\ (cancelled \/ "writer" \notin tasks[n])
    /\ Leaves(n, "pinger")
    /\ UNCHANGED <<role, cancelled, caller, answer, loop, sess, link>>

\* Mutant of InletEnds: the accept does not select on the token.
InletEndsMutant(n) ==
    /\ FALSE
    /\ Leaves(n, "inlet")
    /\ UNCHANGED <<role, cancelled, caller, answer, loop, sess, link>>

InletEnds(n) ==
    /\ "inlet" \in tasks[n] /\ cancelled
    /\ Leaves(n, "inlet")
    /\ UNCHANGED <<role, cancelled, caller, answer, loop, sess, link>>

\* A game connects, or sends a datagram: only then does the third task see that
\* the writer is gone.
Knock(n) ==
    /\ "inlet" \in tasks[n] /\ "writer" \notin tasks[n]
    /\ Leaves(n, "inlet")
    /\ UNCHANGED <<role, cancelled, caller, answer, loop, sess, link>>

\* Receiving on the UDP socket fails: the task ends, and the session goes on
\* without it.  (The TCP client's accept goes on after an error.)
InletFails(n) ==
    /\ role = "udp" /\ "inlet" \in tasks[n]
    /\ Leaves(n, "inlet")
    /\ UNCHANGED <<role, cancelled, caller, answer, loop, sess, link>>

-----------------------------------------------------------------------------
(* The caller and the network. *)

CallerReturns ==
    /\ caller = "waiting"
    /\ caller' \in IF answer = "ok" THEN {"up"} ELSE {"failed"}
    /\ UNCHANGED <<role, cancelled, answer, loop, sess, link, tasks>>

\* A client's token is the manager session's.  A host runtime has a token of its
\* own, which is kept for the reset only once the runtime is up.
Cancel ==
    /\ ~cancelled /\ (role = "host" => caller = "up")
    /\ cancelled' = TRUE
    /\ UNCHANGED <<role, caller, answer, loop, sess, link, tasks>>

\* The network fails, or the relay server closes.
LinkLost(n, how) ==
    /\ link[n] = "up"
    /\ link' = [link EXCEPT ![n] = how]
    /\ UNCHANGED <<role, cancelled, caller, answer, loop, sess, tasks>>

-----------------------------------------------------------------------------
Handshake == Joined \/ \E unknown \in BOOLEAN : HandshakeFails(unknown)
LoopStep == LoopStops \/ Handshake \/ Binds \/ BindFails \/ ReadEnds \/ ReadFails
TaskEnds(n) == WriterEnds(n) \/ PingerEnds(n) \/ InletEnds(n)

Next ==
    \/ Dial \/ LoopStep \/ Ready \/ LoopAborted \/ CallerReturns \/ Cancel
    \/ \E n \in Session :
          \/ TaskEnds(n) \/ Knock(n) \/ InletFails(n)
          \/ \E how \in {"broken", "closed"} : LinkLost(n, how)

Spec == Init /\ [][Next]_vars

(* Every step of a handshake has a timeout, and the tasks are polled; games,  *)
(* the network, the relay server and whoever cancels owe nothing.             *)
Fairness == WF_vars(LoopStep) /\ \A n \in Session : WF_vars(TaskEnds(n))

FairSpec == Spec /\ Fairness

-----------------------------------------------------------------------------
(* Properties. *)

\* The aborts at the end of a session: one that ended in any other way than by a
\* read error or a failed bind leaves no third task, which would keep the local
\* port from the next session (or take the datagrams meant for it).
CleanEndFreesPort ==
    \A n \in Session :
        "inlet" \in tasks[n] /\ ~Reads(n) /\ ~cancelled => link[n] = "broken"

\* A runtime that was reported as ready goes on reconnecting: until the token is
\* cancelled its loop ends only where the relay no longer knows the session.
KeepsTrying == answer = "ok" /\ loop = "ended" => cancelled

\* "a single WebSocket connection to a relay server": no runtime has two open.
SingleLink == \A m, n \in Session : link[m] = "up" /\ link[n] = "up" => m = n

\* The same of the runtimes that bind no port, through all failures and
\* reconnects: with them only a read error leaves a writer behind.
SingleLinkWithoutPort == role # "tcp" => SingleLink

\* Once the token is cancelled the loop and every task of every session end,
\* whatever state the failures before left them in.
CancelStops ==
    cancelled ~> (loop \in {"ended", "gone"} /\ \A n \in Session : tasks[n] = {})
==============================================================================

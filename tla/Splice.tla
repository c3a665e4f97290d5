------------------------------- MODULE Splice -------------------------------
(***************************************************************************)
(* One game connection over QUIC: the bridge of proxy.rs at the client,    *)
(* between the game's TCP socket and a bidirectional QUIC stream, and the  *)
(* one at the host, between that stream and a TCP socket to the server.    *)
(* Each bridge is try_join! of two copies.  A copy that ends closes its    *)
(* direction gracefully; one that fails drops the bridge with both         *)
(* sockets, and the other direction with it.                               *)
(*                                                                         *)
(* A direction is named after the end its data comes from.  What the       *)
(* programs send are chunks, counted where they pass.  TCP, the two        *)
(* programs and quinn are external: a dropped SendStream finishes its      *)
(* stream, or resets it if the receiver stopped it, and a dropped          *)
(* RecvStream that was not read to its end stops the sender.               *)
(***************************************************************************)
EXTENDS Naturals

CONSTANT MaxChunk \* chunks each program sends

ASSUME SpliceAssumption == MaxChunk \in Nat

End == {"client", "host"}
Other(e) == IF e = "client" THEN "host" ELSE "client"

VARIABLES
    app,     \* the program at each end, as to its sending
    heard,   \* and as to its receiving
    bridge,  \* the bridge at each end
    up,      \* its copy from TCP to QUIC
    down,    \* its copy from QUIC to TCP
    stream,  \* the sending half of the QUIC stream of each end
    stopped, \* ends whose stream the receiver stopped
    wrote,   \* chunks written by the program at each end
    sent,    \* of these, chunks the bridge copied to QUIC
    got,     \* of these, chunks the other bridge copied to the other program
    linked,  \* the QUIC connection is up
    rude     \* programs that went away before they had heard the other's end

countVars == <<wrote, sent, got>>
copyVars == <<up, down>>
spliceVars == <<app, heard, bridge, copyVars, stream, stopped, countVars, linked, rude>>

SpliceTypeOK ==
    /\ app \in [End -> {"none", "open", "shut", "closed", "reset"}]
    /\ heard \in [End -> {"open", "eof", "reset"}]
    /\ bridge \in [End -> {"none", "opening", "copying", "ended", "failed"}]
    /\ up \in [End -> {"copying", "done"}] /\ down \in [End -> {"copying", "done"}]
    /\ stream \in [End -> {"open", "finished", "reset"}]
    /\ stopped \subseteq End
    /\ wrote \in [End -> 0 .. MaxChunk]
    /\ sent \in [End -> 0 .. MaxChunk] /\ got \in [End -> 0 .. MaxChunk]
    /\ \A e \in End : got[e] <= sent[e] /\ sent[e] <= wrote[e]
    /\ linked \in BOOLEAN /\ rude \subseteq End

SpliceInit ==
    /\ app = [e \in End |-> "none"] /\ heard = [e \in End |-> "open"]
    /\ bridge = [e \in End |-> "none"]
    /\ up = [e \in End |-> "copying"] /\ down = [e \in End |-> "copying"]
    /\ stream = [e \in End |-> "open"] /\ stopped = {}
    /\ wrote = [e \in End |-> 0] /\ sent = [e \in End |-> 0] /\ got = [e \in End |-> 0]
    /\ linked = TRUE /\ rude = {}

-----------------------------------------------------------------------------
(* The two programs and the network. *)

Present(e) == app[e] \in {"open", "shut"}
Gone(e) == app[e] \in {"closed", "reset"}

AppWrites(e) ==
    /\ app[e] = "open" /\ wrote[e] < MaxChunk
    /\ wrote' = [wrote EXCEPT ![e] = @ + 1]
    /\ UNCHANGED <<app, heard, bridge, copyVars, stream, stopped, sent, got, linked, rude>>

\* shutdown of the sending half: the program goes on reading.
AppShuts(e) ==
    /\ app[e] = "open"
    /\ app' = [app EXCEPT ![e] = "shut"]
    /\ UNCHANGED <<heard, bridge, copyVars, stream, stopped, countVars, linked, rude>>

AppCloses(e) ==
    /\ Present(e)
    /\ app' = [app EXCEPT ![e] = "closed"]
    /\ rude' = IF heard[e] = "open" THEN rude \cup {e} ELSE rude
    /\ UNCHANGED <<heard, bridge, copyVars, stream, stopped, countVars, linked>>

AppResets(e) ==
    /\ Present(e)
    /\ app' = [app EXCEPT ![e] = "reset"]
    /\ rude' = rude \cup {e}
    /\ UNCHANGED <<heard, bridge, copyVars, stream, stopped, countVars, linked>>

LinkLost ==
    /\ linked /\ bridge["client"] # "none"
    /\ linked' = FALSE
    /\ UNCHANGED <<app, heard, bridge, copyVars, stream, stopped, countVars, rude>>

-----------------------------------------------------------------------------
(* A bridge fails: the streams and sockets it owns are dropped. *)

\* Mutant of Drops: the bridge fails without dropping its streams.
DropsMutant(e) ==
    /\ bridge' = [bridge EXCEPT ![e] = "failed"]
    /\ UNCHANGED <<stream, stopped>>
    /\ heard' = [heard EXCEPT ![e] = IF @ # "open" THEN @
                                     ELSE IF sent[e] < wrote[e] THEN "reset" ELSE "eof"]

\* The program hears an end, or a reset if it had sent what nobody read.
Drops(e) ==
    /\ bridge' = [bridge EXCEPT ![e] = "failed"]
    /\ stream' = [stream EXCEPT ![e] = IF @ # "open" THEN @
                                       ELSE IF e \in stopped THEN "reset" ELSE "finished"]
    /\ stopped' = IF down[e] = "done" THEN stopped ELSE stopped \cup {Other(e)}
    /\ heard' = [heard EXCEPT ![e] = IF @ # "open" THEN @
                                     ELSE IF sent[e] < wrote[e] THEN "reset" ELSE "eof"]

Fails(e) == Drops(e) /\ UNCHANGED <<app, copyVars, countVars, linked, rude>>

-----------------------------------------------------------------------------
(* Opening: the game connects, and the preamble brings the stream to the host. *)

ClientOpens ==
    /\ bridge["client"] = "none"
    /\ bridge' = [bridge EXCEPT !["client"] = "copying"]
    /\ app' = [app EXCEPT !["client"] = "open"]
    /\ UNCHANGED <<heard, copyVars, stream, stopped, countVars, linked, rude>>

HostAccepts ==
    /\ linked /\ bridge["client"] # "none" /\ bridge["host"] = "none"
    /\ bridge' = [bridge EXCEPT !["host"] = "opening"]
    /\ UNCHANGED <<app, heard, copyVars, stream, stopped, countVars, linked, rude>>

HostConnects ==
    /\ bridge["host"] = "opening"
    /\ bridge' = [bridge EXCEPT !["host"] = "copying"]
    /\ app' = [app EXCEPT !["host"] = "open"]
    /\ UNCHANGED <<heard, copyVars, stream, stopped, countVars, linked, rude>>

\* The preamble does not come or is wrong, or no server listens.
HostRefuses == bridge["host"] = "opening" /\ Fails("host")

-----------------------------------------------------------------------------
(* uplink: tokio::io::copy from the program's socket, then finish. *)

Uplink(e) == bridge[e] = "copying" /\ up[e] = "copying"

UpCopies(e) ==
    /\ Uplink(e) /\ sent[e] < wrote[e] /\ linked /\ e \notin stopped
    /\ sent' = [sent EXCEPT ![e] = @ + 1]
    /\ UNCHANGED <<app, heard, bridge, copyVars, stream, stopped, wrote, got, linked, rude>>

\* Mutant of UpEnds: end of file is taken before what was read is copied.
UpEndsMutant(e) ==
    /\ Uplink(e) /\ app[e] \in {"shut", "closed"}
    /\ up' = [up EXCEPT ![e] = "done"]
    /\ stream' = [stream EXCEPT ![e] = "finished"]
    /\ UNCHANGED <<app, heard, bridge, down, stopped, countVars, linked, rude>>

\* End of file; finish does not mind a receiver that stopped the stream.
UpEnds(e) ==
    /\ Uplink(e) /\ app[e] \in {"shut", "closed"} /\ sent[e] = wrote[e]
    /\ up' = [up EXCEPT ![e] = "done"]
    /\ stream' = [stream EXCEPT ![e] = "finished"]
    /\ UNCHANGED <<app, heard, bridge, down, stopped, countVars, linked, rude>>

\* The socket is reset, or there is something to write and nowhere to.
UpFails(e) ==
    /\ Uplink(e)
    /\ app[e] = "reset" \/ (sent[e] < wrote[e] /\ (e \in stopped \/ ~linked))
    /\ Fails(e)

-----------------------------------------------------------------------------
(* downlink: tokio::io::copy to the program's socket, then shutdown. *)

Downlink(e) == bridge[e] = "copying" /\ down[e] = "copying"

\* Mutant of DownCopies: the copies run one after the other, not joined.
DownCopiesMutant(e) ==
    /\ Downlink(e) /\ Present(e) /\ got[Other(e)] < sent[Other(e)]
    /\ stream[Other(e)] # "reset" /\ up[e] = "done"
    /\ got' = [got EXCEPT ![Other(e)] = @ + 1]
    /\ UNCHANGED <<app, heard, bridge, copyVars, stream, stopped, wrote, sent, linked, rude>>

DownCopies(e) ==
    /\ Downlink(e) /\ Present(e) /\ got[Other(e)] < sent[Other(e)]
    /\ stream[Other(e)] # "reset"
    /\ got' = [got EXCEPT ![Other(e)] = @ + 1]
    /\ UNCHANGED <<app, heard, bridge, copyVars, stream, stopped, wrote, sent, linked, rude>>

\* The stream is finished and read.  What is written to a program that is gone
\* may be lost without an error.
DownEnds(e) ==
    /\ Downlink(e) /\ stream[Other(e)] = "finished"
    /\ got[Other(e)] = sent[Other(e)] \/ Gone(e)
    /\ down' = [down EXCEPT ![e] = "done"]
    /\ heard' = [heard EXCEPT ![e] = IF @ = "open" THEN "eof" ELSE @]
    /\ UNCHANGED <<app, bridge, up, stream, stopped, countVars, linked, rude>>

\* The stream is reset or the connection lost, or the program is gone and a
\* write or the shutdown says so.
DownFails(e) ==
    /\ Downlink(e)
    /\ \/ stream[Other(e)] = "reset" \/ ~linked
       \/ Gone(e) /\ (got[Other(e)] < sent[Other(e)] \/ stream[Other(e)] = "finished")
    /\ Fails(e)

\* try_join! has both results.
BridgeEnds(e) ==
    /\ bridge[e] = "copying" /\ up[e] = "done" /\ down[e] = "done"
    /\ bridge' = [bridge EXCEPT ![e] = "ended"]
    /\ UNCHANGED <<app, heard, copyVars, stream, stopped, countVars, linked, rude>>

-----------------------------------------------------------------------------
Program(e) == AppWrites(e) \/ AppShuts(e) \/ AppCloses(e) \/ AppResets(e)
Up(e) == UpCopies(e) \/ UpEnds(e) \/ UpFails(e)
Down(e) == DownCopies(e) \/ DownEnds(e) \/ DownFails(e)

SpliceNext ==
    \/ ClientOpens \/ HostAccepts \/ HostConnects \/ HostRefuses \/ LinkLost
    \/ \E e \in End : Program(e) \/ Up(e) \/ Down(e) \/ BridgeEnds(e)

\* The tasks of both bridges run; nothing is expected of programs and network.
SpliceFairness ==
    /\ WF_spliceVars(HostAccepts) /\ WF_spliceVars(HostConnects \/ HostRefuses)
    /\ \A e \in End : WF_spliceVars(Up(e)) /\ WF_spliceVars(Down(e)) /\ WF_spliceVars(BridgeEnds(e))

SpliceSpec == SpliceInit /\ [][SpliceNext]_spliceVars /\ SpliceFairness

-----------------------------------------------------------------------------
(* Properties *)

Refused == bridge["host"] = "failed" /\ app["host"] = "none"

\* The network or one of the programs has broken the connection.
Disturbed == ~linked \/ rude # {} \/ Refused

\* The two bridges and the stream between them are one TCP connection (HalfClose):
\* one direction that is over does not cut the other short (proxy.rs:32), and a
\* program hears the end of the other once, last and, if nothing broke, cleanly.
Wire == INSTANCE HalfClose WITH
    Far <- Other,
    over <- {e \in End : app[e] \in {"shut", "closed", "reset"}},
    broken <- Disturbed

KeepsHalfClose == Wire!WireSpec

\* While both programs only end their sending and the link holds, a program hears
\* the end of the other, never a reset, and only after all its data: one
\* direction that is over does not cut the other short (proxy.rs:32).
CleanEnd ==
    ~Disturbed =>
        \A e \in End : heard[e] # "open" =>
            /\ heard[e] = "eof" /\ app[Other(e)] # "open"
            /\ got[Other(e)] = wrote[Other(e)]

\* Every chunk arrives unless the connection is broken.
Arrives ==
    \A e \in End, n \in 1 .. MaxChunk :
        wrote[e] >= n ~> (got[e] >= n \/ Disturbed)

\* That a program went away reaches the other one, through both bridges and
\* whatever else failed meanwhile.
GoneIsNoticed ==
    \A e \in End :
        Gone(e) ~> \/ heard[Other(e)] # "open"
                   \/ Refused \/ (bridge[Other(e)] = "none" /\ ~linked)
==============================================================================

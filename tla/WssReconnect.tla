---------------------------- MODULE WssReconnect ----------------------------
(***************************************************************************)
(* WssMux with the reconnect of the client: client_loop runs client_session *)
(* again and again, while the host's session and its map of streams go on.  *)
(***************************************************************************)
EXTENDS WssMux

\* The WebSocket closes and client_loop opens another: a new map, a counter that
\* starts over.  What the old one had not sent is lost, but not the frame that the
\* host's reader loop has in hand; the host is not told.
Reconnect(kept) ==
    /\ epoch < MaxEpoch /\ ~held["client"] /\ (held["host"] => kept # 0)
    /\ epoch' = epoch + 1 /\ next' = 1 /\ opening' = None
    /\ wire' = [wire EXCEPT !["client"] = <<>>, !["host"] = SubSeq(@, 1, kept)]
    /\ pump' = IF opening = None THEN pump ELSE [pump EXCEPT !["client"][opening] = "done"]
    /\ UNCHANGED <<id, born, mapped, held, writer, dataVars>>

ReconnectNext == Next \/ \E kept \in 0 .. Len(wire["host"]) : Reconnect(kept)

ReconnectSpec == Init /\ [][ReconnectNext]_vars

-----------------------------------------------------------------------------
(* Properties. *)

\* "OPEN: request to open a new virtual stream": what a server socket is sent
\* comes from the one connection it was opened for.
OwnStream ==
    \A c \in Conn : \A i \in DOMAIN got["host"][c] : got["host"][c][i][1] = c

\* What reconnects do leave of the pipes: a socket gets what the far end of a
\* connection with its stream id has sent, no chunk twice and none to two sockets,
\* and the chunks of one connection in order.
FromItsId ==
    \A s \in Side, c \in Conn : \A i \in DOMAIN got[s][c] :
        LET d == got[s][c][i][1]
        IN  id[d] = id[c] /\ got[s][c][i][2] <= sent[Peer(s)][d]

OnceInOrder ==
    \A s \in Side, c, d \in Conn : \A i \in DOMAIN got[s][c], j \in DOMAIN got[s][d] :
        got[s][c][i][1] = got[s][d][j][1] =>
            /\ c = d \/ got[s][c][i] # got[s][d][j]
            /\ c = d /\ i < j => got[s][c][i][2] < got[s][d][j][2]

\* A reader loop that waits in vain does so for good, whatever the client does: its
\* writer has failed and waits for the lock that the loop holds.
Blocked(s) ==
    /\ held[s] /\ Arrives(s, {"DATA"}) /\ Lookup(s, Head(wire[s]).conn) # {}
    /\ \A c \in Lookup(s, Head(wire[s]).conn) : writer[s][c] = "broken" /\ ~Room(s, c)

OnlyFailureBlocks ==
    \A s \in Side : held[s] =>
        \/ \E c \in Lookup(s, Head(wire[s]).conn) :
              writer[s][c] \in {"draining", "writing"} \/ Room(s, c)
        \/ Blocked(s)

BlockedForGood ==
    [][\A s \in Side : Blocked(s) => Blocked(s)' /\ Head(wire'[s]) = Head(wire[s])]_vars
==============================================================================

---------------------------- MODULE SessionStatus ----------------------------
(***************************************************************************)
(* The NetworkStatus the user interface polls, and the manager's           *)
(* operations on it.  Every task of the manager writes this one record     *)
(* under one RwLock; each operation below is one critical section, so each *)
(* is one operator from the old record to the new one.                     *)
(*                                                                         *)
(* Kept: the mode, the state and, per peer id, whether the peer is listed  *)
(* and whether it is listed as connected.  Notes, logs, addresses, pings   *)
(* and versions are left out; peer_count is a function of the peers, which *)
(* mutate_status recomputes on every write.                                *)
(***************************************************************************)

CONSTANT Key    \* the ids a peer can be listed under

Mode  == {"Idle", "Host", "Client"}
State == {"Idle", "Starting", "WaitingForPeer", "Punching", "Connecting",
          "Hosting", "Connected", "Error"}
Listing == {"absent", "pending", "connected"}

Status == [mode : Mode, state : State, peers : [Key -> Listing]]

\* overwrite_status: a whole new record, whose peer list is empty.
Fresh(mode, state) ==
    [mode |-> mode, state |-> state, peers |-> [k \in Key |-> "absent"]]

\* overwrite_status with a one-peer list, as the client's set-up writes it.
FreshWith(mode, state, key) ==
    [Fresh(mode, state) EXCEPT !.peers[key] = "pending"]

AnyConnected(peers) == \E k \in Key : peers[k] = "connected"

HostState(peers) == IF AnyConnected(peers) THEN "Connected" ELSE "Hosting"

\* Mutant of UpsertPeer: the mode is not looked at.
UpsertPeerMutant(st, key, listing) ==
    LET peers == [st.peers EXCEPT ![key] = listing]
    IN  [st EXCEPT !.peers = peers, !.state = HostState(peers)]

UpsertPeer(st, key, listing) ==
    LET peers == [st.peers EXCEPT ![key] = listing]
    IN  [st EXCEPT !.peers = peers,
                   !.state = IF st.mode = "Host" THEN HostState(peers) ELSE @]

\* Mutant of MarkPeerDisconnected: the state is kept.
MarkPeerDisconnectedMutant(st, key) ==
    [st EXCEPT !.peers[key] = IF @ = "absent" THEN @ ELSE "pending"]

MarkPeerDisconnected(st, key) ==
    [st EXCEPT !.peers[key] = IF @ = "absent" THEN @ ELSE "pending",
               !.state = IF st.mode = "Host" THEN "Hosting" ELSE @]

\* The tail of the punch task: an entry that never connected is dropped.
DropUnconnected(st, key) ==
    [st EXCEPT !.peers[key] = IF @ = "pending" THEN "absent" ELSE @]

MarkFatal(mode) == Fresh(mode, "Error")
==============================================================================

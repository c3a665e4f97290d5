------------------------------- MODULE MCParts -------------------------------
(***************************************************************************)
(* The parts around the two sessions, side by side for TLC.  They share no *)
(* state but the calls of the host, and none waits for another, so that    *)
(* one of them runs in each behaviour and the others stay as they begin:   *)
(* no action under a fairness condition is enabled in an initial state.    *)
(***************************************************************************)
EXTENDS UpnpPort, HostTasks, Splice, ReverseTunnel, NatQueries, PunchSweep, TestServer

VARIABLE part   \* the part that runs

mcVars == <<part, upnpVars, tasksVars, spliceVars, tunnelVars, queryVars, sweepVars, echoVars>>

Init ==
    /\ part \in {"upnp", "tasks", "splice", "tunnel", "query", "sweep", "echo"}
    /\ UpnpInit /\ TasksInit /\ SpliceInit /\ TunnelInit
    /\ QueryInit /\ SweepInit /\ EchoInit

UpnpStep ==
    /\ part = "upnp" /\ UpnpNext
    /\ UNCHANGED <<part, taskVars, spliceVars, tunnelVars, queryVars, sweepVars, echoVars>>

TasksStep ==
    /\ part = "tasks" /\ TasksNext
    /\ UNCHANGED <<part, mapVars, spliceVars, tunnelVars, queryVars, sweepVars, echoVars>>

SpliceStep ==
    /\ part = "splice" /\ SpliceNext
    /\ UNCHANGED <<part, upnpVars, taskVars, tunnelVars, queryVars, sweepVars, echoVars>>

TunnelStep ==
    /\ part = "tunnel" /\ TunnelNext
    /\ UNCHANGED <<part, upnpVars, taskVars, spliceVars, queryVars, sweepVars, echoVars>>

QueryStep ==
    /\ part = "query" /\ QueryNext
    /\ UNCHANGED <<part, upnpVars, taskVars, spliceVars, tunnelVars, sweepVars, echoVars>>

SweepStep ==
    /\ part = "sweep" /\ SweepNext
    /\ UNCHANGED <<part, upnpVars, taskVars, spliceVars, tunnelVars, queryVars, echoVars>>

EchoStep ==
    /\ part = "echo" /\ EchoNext
    /\ UNCHANGED <<part, upnpVars, taskVars, spliceVars, tunnelVars, queryVars, sweepVars>>

Next ==
    \/ UpnpStep \/ TasksStep \/ SpliceStep \/ TunnelStep
    \/ QueryStep \/ SweepStep \/ EchoStep

Spec ==
    /\ Init /\ [][Next]_mcVars
    /\ UpnpFairness /\ TasksFairness /\ SpliceFairness /\ TunnelFairness
    /\ QueryFairness /\ EchoFairness

-----------------------------------------------------------------------------
\* Each part keeps its types.
TypeOK ==
    /\ UpnpTypeOK /\ TasksTypeOK /\ SpliceTypeOK /\ TunnelTypeOK
    /\ QueryTypeOK /\ SweepTypeOK /\ EchoTypeOK
==============================================================================

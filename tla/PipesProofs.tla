----------------------------- MODULE PipesProofs -----------------------------
(***************************************************************************)
(* Proofs about the two splices, over QUIC and through the reverse tunnel, *)
(* for any number of chunks and of announced connections.                  *)
(***************************************************************************)
EXTENDS Splice, ReverseTunnel, TLAPS

(* The splice over QUIC *)

\* A program is there once its bridge copies, and an uplink that is done has copied
\* everything its program will ever write.
EndsInv ==
    \A e \in End :
        /\ bridge[e] \in {"none", "opening"} => app[e] = "none"
        /\ up[e] = "done" => app[e] \in {"shut", "closed", "reset"} /\ sent[e] = wrote[e]

\* A program hears nothing while the downlink to it copies.
ListensInv ==
    \A e \in End : bridge[e] \in {"none", "opening", "copying"} /\ down[e] = "copying" =>
                       heard[e] = "open"

\* As long as nothing is broken no bridge fails, streams end by their uplinks alone,
\* and a program hears an end from a downlink that has copied everything.
CalmInv ==
    ~Disturbed =>
        /\ stopped = {}
        /\ \A e \in End :
              /\ bridge[e] # "failed" /\ app[e] # "reset"
              /\ stream[e] # "reset" /\ (stream[e] = "finished" => up[e] = "done")
              /\ Gone(e) => heard[e] # "open"
              /\ heard[e] # "open" =>
                    /\ heard[e] = "eof" /\ down[e] = "done"
                    /\ stream[Other(e)] = "finished" /\ got[Other(e)] = sent[Other(e)]

SpliceInv == SpliceTypeOK /\ EndsInv /\ ListensInv /\ CalmInv

LEMMA SpliceStart == SpliceInit => SpliceInv
<1> SUFFICES ASSUME SpliceInit PROVE SpliceInv
    OBVIOUS
<1>1. SpliceTypeOK
  BY SpliceAssumption DEF SpliceInit, SpliceTypeOK
<1>2. EndsInv /\ ListensInv /\ CalmInv
  BY DEF SpliceInit, EndsInv, ListensInv, CalmInv, Gone, End
<1> QED BY <1>1, <1>2 DEF SpliceInv

LEMMA OtherEnd == \A e \in End : Other(e) \in End /\ Other(e) # e /\ Other(Other(e)) = e
  BY DEF End, Other

\* Dropping a bridge keeps the types.
LEMMA FailsTypes == ASSUME SpliceTypeOK, NEW e \in End, Fails(e) PROVE SpliceTypeOK'
  BY OtherEnd DEF SpliceTypeOK, Fails, Drops, copyVars, countVars

LEMMA SpliceTypes == SpliceTypeOK /\ [SpliceNext]_spliceVars => SpliceTypeOK'
<1> SUFFICES ASSUME SpliceTypeOK, [SpliceNext]_spliceVars PROVE SpliceTypeOK'
    OBVIOUS
<1> USE SpliceAssumption, OtherEnd DEF SpliceTypeOK, copyVars, countVars
<1>1. CASE UNCHANGED spliceVars
  BY <1>1 DEF spliceVars
<1>2. CASE ClientOpens
  BY <1>2 DEF ClientOpens
<1>3. CASE HostAccepts
  BY <1>3 DEF HostAccepts
<1>4. CASE HostConnects
  BY <1>4 DEF HostConnects
<1>5. CASE HostRefuses
  BY <1>5, FailsTypes DEF HostRefuses, End
<1>6. CASE LinkLost
  BY <1>6 DEF LinkLost
<1>7. ASSUME NEW e \in End, Program(e) PROVE SpliceTypeOK'
  <2>1. CASE AppWrites(e)
    BY <2>1 DEF AppWrites
  <2>2. CASE AppShuts(e) \/ AppCloses(e) \/ AppResets(e)
    BY <2>2 DEF AppShuts, AppCloses, AppResets
  <2> QED BY <1>7, <2>1, <2>2 DEF Program
<1>8. ASSUME NEW e \in End, Up(e) PROVE SpliceTypeOK'
  <2>1. CASE UpCopies(e)
    BY <2>1 DEF UpCopies
  <2>2. CASE UpEnds(e)
    BY <2>2 DEF UpEnds
  <2>3. CASE UpFails(e)
    BY <2>3, FailsTypes DEF UpFails
  <2> QED BY <1>8, <2>1, <2>2, <2>3 DEF Up
<1>9. ASSUME NEW e \in End, Down(e) PROVE SpliceTypeOK'
  <2>1. CASE DownCopies(e)
    BY <2>1 DEF DownCopies
  <2>2. CASE DownEnds(e)
    BY <2>2 DEF DownEnds
  <2>3. CASE DownFails(e)
    BY <2>3, FailsTypes DEF DownFails
  <2> QED BY <1>9, <2>1, <2>2, <2>3 DEF Down
<1>10. ASSUME NEW e \in End, BridgeEnds(e) PROVE SpliceTypeOK'
  BY <1>10 DEF BridgeEnds
<1> QED BY <1>1, <1>2, <1>3, <1>4, <1>5, <1>6, <1>7, <1>8, <1>9, <1>10 DEF SpliceNext

LEMMA EndsStep == SpliceTypeOK /\ EndsInv /\ [SpliceNext]_spliceVars => EndsInv'
<1> SUFFICES ASSUME SpliceTypeOK, EndsInv, [SpliceNext]_spliceVars PROVE EndsInv'
    OBVIOUS
<1> USE OtherEnd DEF SpliceTypeOK, EndsInv, copyVars, countVars
<1>1. CASE UNCHANGED spliceVars
  BY <1>1 DEF spliceVars
<1>2. ASSUME NEW e \in End, Fails(e) PROVE EndsInv'
  BY <1>2 DEF Fails, Drops
<1>3. CASE ClientOpens
  BY <1>3 DEF ClientOpens
<1>4. CASE HostAccepts \/ LinkLost
  BY <1>4 DEF HostAccepts, LinkLost
<1>5. CASE HostConnects
  BY <1>5 DEF HostConnects
<1>6. CASE HostRefuses
  BY <1>2, <1>6 DEF HostRefuses, End
<1>7. ASSUME NEW e \in End, Program(e) PROVE EndsInv'
  BY <1>7 DEF Program, AppWrites, AppShuts, AppCloses, AppResets, Present
<1>8. ASSUME NEW e \in End, Up(e) PROVE EndsInv'
  <2>1. CASE UpCopies(e)
    BY <2>1 DEF UpCopies, Uplink
  <2>2. CASE UpEnds(e)
    BY <2>2 DEF UpEnds
  <2>3. CASE UpFails(e)
    BY <1>2, <2>3 DEF UpFails
  <2> QED BY <1>8, <2>1, <2>2, <2>3 DEF Up
<1>9. ASSUME NEW e \in End, Down(e) PROVE EndsInv'
  <2>1. CASE DownCopies(e) \/ DownEnds(e)
    BY <2>1 DEF DownCopies, DownEnds
  <2>2. CASE DownFails(e)
    BY <1>2, <2>2 DEF DownFails
  <2> QED BY <1>9, <2>1, <2>2 DEF Down
<1>10. ASSUME NEW e \in End, BridgeEnds(e) PROVE EndsInv'
  BY <1>10 DEF BridgeEnds
<1> QED BY <1>1, <1>3, <1>4, <1>5, <1>6, <1>7, <1>8, <1>9, <1>10 DEF SpliceNext

LEMMA ListensStep == SpliceTypeOK /\ ListensInv /\ [SpliceNext]_spliceVars => ListensInv'
<1> SUFFICES ASSUME SpliceTypeOK, ListensInv, [SpliceNext]_spliceVars PROVE ListensInv'
    OBVIOUS
<1> USE OtherEnd DEF SpliceTypeOK, ListensInv, copyVars, countVars
<1>1. CASE UNCHANGED spliceVars
  BY <1>1 DEF spliceVars
<1>2. ASSUME NEW e \in End, Fails(e) PROVE ListensInv'
  BY <1>2 DEF Fails, Drops
<1>3. CASE ClientOpens \/ HostAccepts \/ HostConnects \/ LinkLost
  BY <1>3 DEF ClientOpens, HostAccepts, HostConnects, LinkLost
<1>4. CASE HostRefuses
  BY <1>2, <1>4 DEF HostRefuses, End
<1>5. ASSUME NEW e \in End, Program(e) PROVE ListensInv'
  BY <1>5 DEF Program, AppWrites, AppShuts, AppCloses, AppResets
<1>6. ASSUME NEW e \in End, Up(e) PROVE ListensInv'
  BY <1>2, <1>6 DEF Up, UpCopies, UpEnds, UpFails
<1>7. ASSUME NEW e \in End, Down(e) PROVE ListensInv'
  BY <1>2, <1>7 DEF Down, DownCopies, DownEnds, DownFails
<1>8. ASSUME NEW e \in End, BridgeEnds(e) PROVE ListensInv'
  BY <1>8 DEF BridgeEnds
<1> QED BY <1>1, <1>3, <1>4, <1>5, <1>6, <1>7, <1>8 DEF SpliceNext

\* What broke the connection stays: a refused connection is not accepted later.
LEMMA DisturbedStays ==
    ASSUME SpliceTypeOK, EndsInv, [SpliceNext]_spliceVars, Disturbed PROVE Disturbed'
<1> USE OtherEnd DEF SpliceTypeOK, copyVars, countVars
<1>1. linked' => linked
  BY DEF SpliceNext, spliceVars, ClientOpens, HostAccepts, HostConnects, HostRefuses, LinkLost,
         Program, AppWrites, AppShuts, AppCloses, AppResets, Up, UpCopies, UpEnds, UpFails,
         Down, DownCopies, DownEnds, DownFails, BridgeEnds, Fails
<1>2. rude \subseteq rude'
  BY DEF SpliceNext, spliceVars, ClientOpens, HostAccepts, HostConnects, HostRefuses, LinkLost,
         Program, AppWrites, AppShuts, AppCloses, AppResets, Up, UpCopies, UpEnds, UpFails,
         Down, DownCopies, DownEnds, DownFails, BridgeEnds, Fails
<1>3. ASSUME Refused PROVE Refused'
  <2> USE <1>3 DEF Refused, End
  <2>1. app'["host"] = "none"
    BY DEF SpliceNext, spliceVars, ClientOpens, HostAccepts, HostConnects, HostRefuses, LinkLost,
           Program, AppWrites, AppShuts, AppCloses, AppResets, Present, Up, UpCopies, UpEnds,
           UpFails, Down, DownCopies, DownEnds, DownFails, BridgeEnds, Fails
  <2>2. bridge'["host"] = "failed"
    BY DEF SpliceNext, spliceVars, ClientOpens, HostAccepts, HostConnects, HostRefuses, LinkLost,
           Program, AppWrites, AppShuts, AppCloses, AppResets, Up, UpCopies, UpEnds,
           UpFails, Down, DownCopies, DownEnds, DownFails, BridgeEnds, Fails, Drops
  <2> QED BY <2>1, <2>2
<1> QED BY <1>1, <1>2, <1>3 DEF Disturbed

\* A bridge does not fail as long as nothing is broken: the failures of a copy need a
\* reset, a stop, a lost link, or a program that went away too early.
LEMMA NoFailure ==
    ASSUME SpliceInv, ~Disturbed, NEW e \in End, UpFails(e) \/ DownFails(e) PROVE FALSE
<1> USE OtherEnd DEF SpliceInv, CalmInv
<1>1. linked /\ app[e] # "reset" /\ e \notin stopped /\ stream[Other(e)] # "reset"
  BY DEF Disturbed
<1>2. DownFails(e)
  BY <1>1 DEF UpFails
<1>3. Gone(e) /\ down[e] = "copying"
  BY <1>1, <1>2 DEF DownFails, Downlink
<1> QED BY <1>3

LEMMA CalmStep == SpliceInv /\ [SpliceNext]_spliceVars => CalmInv'
<1> SUFFICES ASSUME SpliceInv, [SpliceNext]_spliceVars, ~Disturbed' PROVE CalmInv'
    BY DEF CalmInv
<1>1. ~Disturbed
  BY DisturbedStays DEF SpliceInv
<1> USE <1>1, OtherEnd DEF SpliceInv, SpliceTypeOK, CalmInv, Gone, copyVars, countVars
<1>2. CASE UNCHANGED spliceVars
  BY <1>2 DEF spliceVars
<1>3. CASE ClientOpens
  BY <1>3 DEF ClientOpens, End
<1>4. CASE HostAccepts \/ LinkLost
  BY <1>4 DEF HostAccepts, LinkLost
<1>5. CASE HostConnects
  BY <1>5 DEF HostConnects, End
<1>6. CASE HostRefuses
  <2>1. bridge'["host"] = "failed" /\ app'["host"] = "none"
    BY <1>6 DEF HostRefuses, Fails, Drops, EndsInv, End
  <2> QED BY <2>1 DEF Disturbed, Refused
<1>7. ASSUME NEW e \in End, Program(e) PROVE CalmInv'
  <2>1. CASE AppWrites(e) \/ AppShuts(e)
    BY <2>1 DEF AppWrites, AppShuts
  <2>2. CASE AppCloses(e)
    <3>1. heard[e] # "open"
      BY <2>2 DEF AppCloses, Disturbed
    <3> QED BY <2>2, <3>1 DEF AppCloses
  <2>3. CASE AppResets(e)
    BY <2>3 DEF AppResets, Disturbed
  <2> QED BY <1>7, <2>1, <2>2, <2>3 DEF Program
<1>8. ASSUME NEW e \in End, Up(e) PROVE CalmInv'
  <2>1. CASE UpCopies(e)
    <3>1. \A d \in End : heard[d] # "open" => Other(d) # e
      BY <2>1 DEF UpCopies, Uplink
    <3> QED BY <2>1, <3>1 DEF UpCopies
  <2>2. CASE UpEnds(e)
    BY <2>2 DEF UpEnds
  <2> QED BY <1>8, <2>1, <2>2, NoFailure DEF Up
<1>9. ASSUME NEW e \in End, Down(e) PROVE CalmInv'
  <2>1. CASE DownCopies(e)
    <3>1. \A d \in End : heard[d] # "open" => Other(d) # Other(e)
      BY <2>1 DEF DownCopies, Downlink
    <3> QED BY <2>1, <3>1 DEF DownCopies
  <2>2. CASE DownEnds(e)
    <3>1. got[Other(e)] = sent[Other(e)] /\ heard[e] = "open"
      BY <2>2 DEF DownEnds, Downlink
    <3> QED BY <2>2, <3>1 DEF DownEnds
  <2> QED BY <1>9, <2>1, <2>2, NoFailure DEF Down
<1>10. ASSUME NEW e \in End, BridgeEnds(e) PROVE CalmInv'
  BY <1>10 DEF BridgeEnds
<1> QED BY <1>2, <1>3, <1>4, <1>5, <1>6, <1>7, <1>8, <1>9, <1>10 DEF SpliceNext

LEMMA SpliceInductive == SpliceInv /\ [SpliceNext]_spliceVars => SpliceInv'
  BY SpliceTypes, EndsStep, ListensStep, CalmStep DEF SpliceInv

LEMMA SpliceInvariant == SpliceSpec => []SpliceInv
  BY SpliceStart, SpliceInductive, PTL DEF SpliceSpec

LEMMA SpliceClean == SpliceInv => CleanEnd
  BY OtherEnd DEF SpliceInv, EndsInv, CalmInv, CleanEnd

\* While the connection is whole, the end a program hears comes after all the data of
\* the other, for any number of chunks.
THEOREM SpliceEndsClean == SpliceSpec => [](SpliceTypeOK /\ CleanEnd)
  BY SpliceClean, SpliceInvariant, PTL DEF SpliceInv

\* A bridge that fails does so in a connection that is broken.
LEMMA FailsBroken ==
    ASSUME SpliceInv, [SpliceNext]_spliceVars, NEW e \in End, Fails(e),
           UpFails(e) \/ DownFails(e) \/ (e = "host" /\ bridge[e] = "opening")
    PROVE  Disturbed'
<1>1. CASE UpFails(e) \/ DownFails(e)
  BY <1>1, NoFailure, DisturbedStays DEF SpliceInv
<1>2. CASE e = "host" /\ bridge[e] = "opening"
  <2>1. app["host"] = "none" /\ "host" \in End
    BY <1>2 DEF SpliceInv, EndsInv, End
  <2>2. app'["host"] = "none" /\ bridge'["host"] = "failed"
    BY <1>2, <2>1 DEF Fails, Drops, SpliceInv, SpliceTypeOK
  <2> QED BY <2>2 DEF Disturbed, Refused
<1> QED BY <1>1, <1>2

LEMMA WireStep ==
    ASSUME SpliceInv, [SpliceNext]_spliceVars
    PROVE  [Wire!WireNext]_(Wire!wireVars)
<1> USE OtherEnd DEF SpliceInv, SpliceTypeOK, copyVars, countVars
<1> DEFINE over == {e \in End : app[e] \in {"shut", "closed", "reset"}}
<1>1. ASSUME UNCHANGED <<wrote, got, over, heard>>, Disturbed' = Disturbed
      PROVE  UNCHANGED Wire!wireVars
  BY <1>1 DEF Wire!wireVars
<1>2. Disturbed => Disturbed'
  BY DisturbedStays
<1>3. ASSUME Disturbed', UNCHANGED <<wrote, got, over>>,
             heard' \in [End -> {"open", "eof", "reset"}],
             \A d \in End : heard[d] # "open" => heard'[d] = heard[d]
      PROVE  Wire!WireNext
  BY <1>3 DEF Wire!WireNext, Wire!Break
<1>4. ASSUME NEW e \in End, Fails(e), Disturbed' PROVE Wire!WireNext
  <2>1. heard' \in [End -> {"open", "eof", "reset"}]
    BY <1>4 DEF Fails, Drops
  <2>2. \A d \in End : heard[d] # "open" => heard'[d] = heard[d]
    BY <1>4 DEF Fails, Drops
  <2> QED BY <1>3, <1>4, <2>1, <2>2 DEF Fails
<1>5. CASE UNCHANGED spliceVars
  BY <1>1, <1>5 DEF spliceVars, Disturbed, Refused
<1>6. CASE ClientOpens
  <2>1. over' = over /\ app'["host"] = app["host"] /\ bridge'["host"] = bridge["host"]
    BY <1>6 DEF ClientOpens, EndsInv, End
  <2> QED BY <1>1, <1>6, <2>1 DEF ClientOpens, Disturbed, Refused
<1>7. CASE HostAccepts
  <2>1. bridge["host"] # "failed" /\ bridge'["host"] # "failed"
    BY <1>7 DEF HostAccepts, End
  <2> QED BY <1>1, <1>7, <2>1 DEF HostAccepts, Disturbed, Refused
<1>8. CASE HostConnects
  <2>1. bridge["host"] # "failed" /\ bridge'["host"] # "failed"
    BY <1>8 DEF HostConnects, End
  <2>2. over' = over
    BY <1>8 DEF HostConnects, EndsInv, End
  <2> QED BY <1>1, <1>8, <2>1, <2>2 DEF HostConnects, Disturbed, Refused
<1>9. CASE HostRefuses
  <2>1. Fails("host") /\ "host" \in End /\ bridge["host"] = "opening"
    BY <1>9 DEF HostRefuses, End
  <2> QED BY <1>4, <2>1, FailsBroken
<1>10. CASE LinkLost
  BY <1>3, <1>10 DEF LinkLost, Disturbed
<1>11. ASSUME NEW e \in End, AppWrites(e) PROVE Wire!WireNext
  <2>1. e \notin over /\ Disturbed' = Disturbed
    BY <1>11 DEF AppWrites, Disturbed, Refused
  <2>2. Wire!Write(e)
    BY <1>11, <2>1 DEF AppWrites, Wire!Write
  <2> QED BY <2>2 DEF Wire!WireNext
<1>12. ASSUME NEW e \in End, AppShuts(e) \/ AppCloses(e) \/ AppResets(e)
       PROVE  Wire!WireNext
  <2>1. over' = over \cup {e}
    BY <1>12 DEF AppShuts, AppCloses, AppResets
  <2>2. Wire!EndSending(e)
    BY <1>2, <1>12, <2>1 DEF AppShuts, AppCloses, AppResets, Wire!EndSending
  <2> QED BY <2>2 DEF Wire!WireNext
<1>13. ASSUME NEW e \in End, UpCopies(e) \/ UpEnds(e) PROVE UNCHANGED Wire!wireVars
  BY <1>1, <1>13 DEF UpCopies, UpEnds, Disturbed, Refused
<1>14. ASSUME NEW e \in End, UpFails(e) \/ DownFails(e) PROVE Wire!WireNext
  <2>1. Fails(e)
    BY <1>14 DEF UpFails, DownFails
  <2> QED BY <1>4, <1>14, <2>1, FailsBroken
<1>15. ASSUME NEW e \in End, DownCopies(e) PROVE Wire!WireNext
  <2>1. heard[e] = "open" /\ got[Other(e)] < wrote[Other(e)]
    <3>1. /\ got[Other(e)] \in Nat /\ sent[Other(e)] \in Nat /\ wrote[Other(e)] \in Nat
          /\ sent[Other(e)] <= wrote[Other(e)] /\ got[Other(e)] < sent[Other(e)]
      BY <1>15, SpliceAssumption DEF DownCopies
    <3> QED BY <1>15, <3>1 DEF DownCopies, Downlink, ListensInv
  <2>2. Disturbed' = Disturbed
    BY <1>15 DEF DownCopies, Disturbed, Refused
  <2>3. Wire!Deliver(Other(e))
    BY <1>15, <2>1, <2>2 DEF DownCopies, Wire!Deliver
  <2> QED BY <2>3 DEF Wire!WireNext
<1>16. ASSUME NEW e \in End, DownEnds(e) PROVE Wire!WireNext
  <2>1. heard[e] = "open" /\ heard' = [heard EXCEPT ![e] = "eof"]
    BY <1>16 DEF DownEnds, Downlink, ListensInv
  <2>2. Disturbed' = Disturbed
    BY <1>16 DEF DownEnds, Disturbed, Refused
  <2>3. CASE Disturbed
    BY <1>3, <1>16, <2>1, <2>2, <2>3 DEF DownEnds
  <2>4. CASE ~Disturbed
    <3>1. up[Other(e)] = "done" /\ ~Gone(e)
      BY <1>16, <2>1, <2>4 DEF DownEnds, CalmInv
    <3>2. Other(e) \in over /\ got[Other(e)] = wrote[Other(e)]
      BY <1>16, <3>1 DEF DownEnds, EndsInv
    <3>3. Wire!HearEnd(e)
      BY <1>16, <2>1, <2>2, <3>2 DEF DownEnds, Wire!HearEnd
    <3> QED BY <3>3 DEF Wire!WireNext
  <2> QED BY <2>3, <2>4
<1>17. ASSUME NEW e \in End, BridgeEnds(e) PROVE UNCHANGED Wire!wireVars
  <2>1. bridge'["host"] = "failed" <=> bridge["host"] = "failed"
    BY <1>17 DEF BridgeEnds, End
  <2> QED BY <1>1, <1>17, <2>1 DEF BridgeEnds, Disturbed, Refused
<1> QED
  BY <1>5, <1>6, <1>7, <1>8, <1>9, <1>10, <1>11, <1>12, <1>13, <1>14, <1>15, <1>16, <1>17
  DEF SpliceNext, Program, Up, Down

LEMMA SpliceBegins == SpliceInit => Wire!WireInit
  BY DEF SpliceInit, Wire!WireInit, Disturbed, Refused, End

\* The two bridges and the QUIC stream between them are a TCP connection to the two
\* programs, for any number of chunks and whatever fails when.
THEOREM SpliceIsAWire == SpliceSpec => KeepsHalfClose
  BY SpliceBegins, SpliceInvariant, WireStep, PTL DEF SpliceSpec, KeepsHalfClose, Wire!WireSpec

-----------------------------------------------------------------------------
(* The splice of the reverse tunnel *)

\* A frame that is not read yet announces a connection whose task is not spawned,
\* and no two frames announce the same: so no task is spawned twice.
FramesInv ==
    /\ \A k \in DOMAIN frames : frames[k] \in Id =>
          frames[k] \in announced /\ conn[frames[k]] = "none"
    /\ \A k, m \in DOMAIN frames : frames[k] \in Id /\ frames[k] = frames[m] => k = m

\* While nothing disturbs a connection, a copy is done only because its side has
\* ended its sending and all of it is copied, and an end is heard from a copy that
\* is done.
Orderly(i, s) ==
    /\ copy[i][s] = "done" => prog[i][s] = "shut" /\ sideGot[i][s] = sideWrote[i][s]
    /\ sideHeard[i][s] # "open" =>
          sideHeard[i][s] = "eof" /\ copy[i][Opposite(s)] = "done"

OrderlyInv == \A i \in Id : Undisturbed(i) => \A s \in Side : Orderly(i, s)

\* A task that still has to reach the local target has an attempt left.
TriesInv == \A i \in Id : conn[i] \in {"none", "dialing", "accepted"} => tries[i] < MaxTries

\* A side hears nothing while the copy to it goes on.
HearsInv ==
    \A i \in Id : conn[i] # "failed" =>
        \A s \in Side : copy[i][s] = "copying" => sideHeard[i][Opposite(s)] = "open"

TunnelInv == TunnelTypeOK /\ FramesInv /\ TriesInv /\ OrderlyInv /\ HearsInv

LEMMA OppositeSide ==
    \A s \in Side : Opposite(s) \in Side /\ Opposite(s) # s /\ Opposite(Opposite(s)) = s
  BY DEF Side, Opposite

LEMMA TunnelStart == TunnelInit => TunnelInv
<1> SUFFICES ASSUME TunnelInit PROVE TunnelInv
    OBVIOUS
<1>1. TunnelTypeOK
  <2>1. /\ prog \in [Id -> [Side -> {"open", "shut", "closed", "reset"}]]
        /\ sideHeard \in [Id -> [Side -> {"open", "eof", "reset"}]]
        /\ copy \in [Id -> [Side -> {"copying", "done"}]]
    BY DEF TunnelInit
  <2>2. /\ sideWrote \in [Id -> [Side -> 0 .. MaxPiece]]
        /\ sideGot \in [Id -> [Side -> 0 .. MaxPiece]]
        /\ tries \in [Id -> 0 .. MaxTries]
    BY TunnelAssumption DEF TunnelInit
  <2>3. conn \in [Id -> ConnStage] /\ frames \in Seq(Frame)
    BY DEF TunnelInit, ConnStage
  <2> QED BY <2>1, <2>2, <2>3 DEF TunnelInit, TunnelTypeOK
<1>2. FramesInv /\ TriesInv /\ OrderlyInv /\ HearsInv
  BY OppositeSide, TunnelAssumption
  DEF TunnelInit, FramesInv, TriesInv, OrderlyInv, Orderly, HearsInv
<1> QED BY <1>1, <1>2 DEF TunnelInv

LEMMA SetSide ==
    ASSUME NEW R, NEW f \in [Id -> [Side -> R]], NEW i \in Id, NEW s \in Side, NEW v \in R
    PROVE  [f EXCEPT ![i][s] = v] \in [Id -> [Side -> R]]
  OBVIOUS

LEMMA TunnelTypes ==
    ASSUME TunnelTypeOK, FramesInv, TriesInv, [TunnelNext]_tunnelVars PROVE TunnelTypeOK'
<1> USE TunnelAssumption, OppositeSide DEF TunnelTypeOK, ConnStage, ctlVars, sideVars
<1>1. CASE UNCHANGED tunnelVars
  BY <1>1 DEF tunnelVars
<1>2. CASE Start \/ Hello \/ TunnelCancel \/ LoopCancelled
  BY <1>2 DEF Start, Hello, HelloDone, TunnelCancel, LoopCancelled
<1>3. CASE LoopReads
  <2>1. frames # <<>> /\ Head(frames) = frames[1] /\ 1 \in DOMAIN frames
    BY <1>3 DEF LoopReads
  <2>2. frames' \in Seq(Frame)
    BY <1>3, <2>1 DEF LoopReads
  <2>3. conn' \in [Id -> ConnStage] /\ \A i \in Id : conn'[i] # "none" => i \in announced
    BY <1>3, <2>1 DEF LoopReads, FramesInv
  <2> QED BY <1>3, <2>2, <2>3 DEF LoopReads
<1>4. ASSUME NEW f \in Frame, ServerSends(f) PROVE TunnelTypeOK'
  BY <1>4 DEF ServerSends
<1>5. ASSUME NEW i \in Id, Dial(i) \/ Local(i) PROVE TunnelTypeOK'
  <2>1. CASE Dial(i) \/ LocalConnects(i)
    BY <2>1 DEF Dial, DialBack, LocalConnects
  <2>2. CASE LocalRefuses(i)
    <3>1. i \in announced /\ conn'[i] \in ConnStage
      BY <2>2 DEF LocalRefuses
    <3>2. tries[i] \in 0 .. MaxTries
      OBVIOUS
    <3>3. tries[i] + 1 \in 0 .. MaxTries
      BY <2>2, <3>2 DEF LocalRefuses, TriesInv
    <3> QED BY <2>2, <3>1, <3>3 DEF LocalRefuses
  <2> QED BY <1>5, <2>1, <2>2 DEF Local
<1>6. ASSUME NEW i \in Id, CopyFails(i) \/ SpliceOver(i) PROVE TunnelTypeOK'
  <2>1. CASE CopyFails(i)
    <3>1. [s \in Side |-> IF sideHeard[i][s] # "open" THEN sideHeard[i][s]
                          ELSE IF sideGot[i][s] < sideWrote[i][s] THEN "reset" ELSE "eof"]
             \in [Side -> {"open", "eof", "reset"}]
      OBVIOUS
    <3>2. sideHeard' \in [Id -> [Side -> {"open", "eof", "reset"}]]
      BY <2>1, <3>1 DEF CopyFails
    <3>3. i \in announced
      BY <2>1 DEF CopyFails, Copying
    <3> QED BY <2>1, <3>2, <3>3 DEF CopyFails
  <2>2. CASE SpliceOver(i)
    BY <2>2 DEF SpliceOver
  <2> QED BY <1>6, <2>1, <2>2
<1>7. ASSUME NEW i \in Id, NEW s \in Side, SideWrites(i, s) PROVE TunnelTypeOK'
  BY <1>7 DEF SideWrites
<1>8. ASSUME NEW i \in Id, NEW s \in Side, Copy(i, s) PROVE TunnelTypeOK'
  <2>1. CASE Copies(i, s)
    <3>1. sideGot[i][s] + 1 \in 0 .. MaxPiece
      BY <2>1 DEF Copies
    <3> QED BY <2>1, <3>1, SetSide DEF Copies
  <2>2. CASE CopyOver(i, s)
    <3>1. (IF sideHeard[i][Opposite(s)] = "open" THEN "eof" ELSE sideHeard[i][Opposite(s)])
             \in {"open", "eof", "reset"}
      OBVIOUS
    <3>2. copy' \in [Id -> [Side -> {"copying", "done"}]]
      BY <2>2, SetSide DEF CopyOver
    <3>3. sideHeard' \in [Id -> [Side -> {"open", "eof", "reset"}]]
      BY <2>2, <3>1, SetSide DEF CopyOver
    <3> QED BY <2>2, <3>2, <3>3 DEF CopyOver
  <2> QED BY <1>8, <2>1, <2>2 DEF Copy, CopyEnds, CopyBreaks
<1>9. ASSUME NEW i \in Id, NEW s \in Side, NEW how \in {"shut", "closed", "reset"},
             SideEnds(i, s, how)
      PROVE TunnelTypeOK'
  BY <1>9 DEF SideEnds
<1> HIDE DEF TunnelTypeOK
<1> QED BY <1>1, <1>2, <1>3, <1>4, <1>5, <1>6, <1>7, <1>8, <1>9 DEF TunnelNext

\* A task keeps a connection that has one, and reads no frame.
LEMMA FramesKept ==
    ASSUME FramesInv, frames' = frames, announced' = announced,
           \A i \in Id : conn[i] = "none" => conn'[i] = "none"
    PROVE  FramesInv'
  BY DEF FramesInv

LEMMA FramesStep == TunnelTypeOK /\ FramesInv /\ [TunnelNext]_tunnelVars => FramesInv'
<1> SUFFICES ASSUME TunnelTypeOK, FramesInv, [TunnelNext]_tunnelVars PROVE FramesInv'
    OBVIOUS
<1> USE DEF TunnelTypeOK, ctlVars, sideVars
<1>1. CASE UNCHANGED tunnelVars
  BY <1>1, FramesKept DEF tunnelVars
<1>2. CASE Start \/ Hello \/ TunnelCancel \/ LoopCancelled
  BY <1>2, FramesKept DEF Start, Hello, HelloDone, TunnelCancel, LoopCancelled
<1>3. CASE LoopReads
  <2>1. /\ Len(frames) \in Nat \ {0} /\ frames' \in Seq(Frame)
        /\ Len(frames') = Len(frames) - 1 /\ DOMAIN frames = 1 .. Len(frames)
    BY <1>3 DEF LoopReads
  <2>2. \A k \in DOMAIN frames' : k + 1 \in DOMAIN frames /\ frames'[k] = frames[k + 1]
    BY <1>3, <2>1 DEF LoopReads
  <2>3. \A k, m \in DOMAIN frames' : k \in Nat /\ m \in Nat /\ (k + 1 = m + 1 => k = m)
    BY <2>1
  <2>4. \A k, m \in DOMAIN frames' : frames'[k] \in Id /\ frames'[k] = frames'[m] => k = m
    BY <2>2, <2>3 DEF FramesInv
  <2>5. ASSUME NEW k \in DOMAIN frames', frames'[k] \in Id
        PROVE  frames'[k] \in announced' /\ conn'[frames'[k]] = "none"
    <3>1. k + 1 \in DOMAIN frames /\ 1 \in DOMAIN frames /\ k + 1 # 1
      BY <2>1, <2>2
    <3>2. frames[k + 1] # frames[1] /\ Head(frames) = frames[1]
      BY <1>3, <2>2, <2>5, <3>1 DEF FramesInv, LoopReads
    <3> QED BY <1>3, <2>2, <2>5, <3>1, <3>2 DEF FramesInv, LoopReads
  <2> QED BY <2>4, <2>5 DEF FramesInv
<1>4. ASSUME NEW f \in Frame, ServerSends(f) PROVE FramesInv'
  <2>1. /\ Len(frames) \in Nat /\ DOMAIN frames = 1 .. Len(frames)
        /\ DOMAIN frames' = 1 .. Len(frames) + 1 /\ frames'[Len(frames) + 1] = f
        /\ \A k \in DOMAIN frames : frames'[k] = frames[k]
    BY <1>4 DEF ServerSends
  <2>2. f \in Id => f \notin announced /\ f \in announced' /\ conn[f] = "none"
    BY <1>4 DEF ServerSends
  <2>3. announced \subseteq announced' /\ conn' = conn
    BY <1>4 DEF ServerSends
  <2>4. \A k \in DOMAIN frames' : k \in DOMAIN frames \/ k = Len(frames) + 1
    <3>1. \A n \in Nat : \A k \in 1 .. n + 1 : k \in 1 .. n \/ k = n + 1
      OBVIOUS
    <3> QED BY <2>1, <3>1
  <2>5. \A k \in DOMAIN frames : frames[k] \in Id => frames[k] # f
    BY <2>2 DEF FramesInv
  <2>6. ASSUME NEW k \in DOMAIN frames', frames'[k] \in Id
        PROVE  frames'[k] \in announced' /\ conn'[frames'[k]] = "none"
    BY <2>1, <2>2, <2>3, <2>4, <2>6 DEF FramesInv
  <2>7. ASSUME NEW k \in DOMAIN frames', NEW m \in DOMAIN frames',
               frames'[k] \in Id, frames'[k] = frames'[m]
        PROVE  k = m
    <3>1. CASE k \in DOMAIN frames /\ m \in DOMAIN frames
      BY <2>1, <2>7, <3>1 DEF FramesInv
    <3>2. CASE k = Len(frames) + 1 \/ m = Len(frames) + 1
      BY <2>1, <2>4, <2>5, <2>7, <3>2
    <3> QED BY <2>4, <3>1, <3>2
  <2> QED BY <2>6, <2>7 DEF FramesInv
<1>5. ASSUME NEW i \in Id, Dial(i) \/ Local(i) PROVE FramesInv'
  BY <1>5, FramesKept DEF Dial, DialBack, Local, LocalConnects, LocalRefuses
<1>6. ASSUME NEW i \in Id, CopyFails(i) \/ SpliceOver(i) PROVE FramesInv'
  BY <1>6, FramesKept DEF CopyFails, SpliceOver, Copying
<1>7. ASSUME NEW i \in Id, NEW s \in Side, SideWrites(i, s) \/ Copy(i, s) PROVE FramesInv'
  BY <1>7, FramesKept DEF SideWrites, Copy, Copies, CopyEnds, CopyBreaks, CopyOver
<1>8. ASSUME NEW i \in Id, NEW s \in Side, NEW how \in {"shut", "closed", "reset"},
             SideEnds(i, s, how)
      PROVE FramesInv'
  BY <1>8, FramesKept DEF SideEnds
<1> QED BY <1>1, <1>2, <1>3, <1>4, <1>5, <1>6, <1>7, <1>8 DEF TunnelNext

\* A task that has failed is not spawned again.
LEMMA FailedStays ==
    ASSUME TunnelTypeOK, FramesInv, [TunnelNext]_tunnelVars, NEW j \in Id, conn'[j] # "failed"
    PROVE  conn[j] # "failed"
<1> USE DEF TunnelTypeOK, ctlVars, sideVars
<1>1. CASE LoopReads
  <2>1. 1 \in DOMAIN frames /\ Head(frames) = frames[1]
    BY <1>1 DEF LoopReads
  <2> QED BY <1>1, <2>1 DEF LoopReads, FramesInv
<1>2. CASE ~LoopReads
  BY <1>2 DEF TunnelNext, tunnelVars, Start, Hello, HelloDone, TunnelCancel, LoopCancelled,
       ServerSends, Dial, DialBack, Local, LocalConnects, LocalRefuses, SideWrites, SideEnds,
       Copy, Copies, CopyEnds, CopyBreaks, CopyOver, Copying, CopyFails, SpliceOver
<1> QED BY <1>1, <1>2

\* What disturbs a connection stays: nobody comes back, nor does a task that failed.
LEMMA UndisturbedBefore ==
    ASSUME TunnelTypeOK, FramesInv, [TunnelNext]_tunnelVars, NEW j \in Id, Undisturbed(j)'
    PROVE  Undisturbed(j)
<1> USE OppositeSide DEF TunnelTypeOK, ctlVars, sideVars
<1>1. conn'[j] # "failed" /\ \A s \in Side : prog'[j][s] \notin {"closed", "reset"}
  BY DEF Undisturbed, SideGone
<1>2. conn[j] # "failed"
  BY <1>1, FailedStays
<1>3. ASSUME NEW t \in Side PROVE prog[j][t] \notin {"closed", "reset"}
  <2>1. ASSUME NEW i \in Id, NEW s \in Side, NEW how \in {"shut", "closed", "reset"},
               SideEnds(i, s, how)
        PROVE  prog[j][t] \notin {"closed", "reset"}
    <3>1. prog' = [prog EXCEPT ![i][s] = how] /\ prog[i][s] \notin {"closed", "reset"}
      BY <2>1 DEF SideEnds, SideGone
    <3>2. (i = j /\ s = t) \/ prog'[j][t] = prog[j][t]
      BY <3>1
    <3> QED BY <1>1, <3>1, <3>2
  <2>2. CASE prog' = prog
    BY <1>1, <2>2
  <2>3. (\E i \in Id, s \in Side, how \in {"shut", "closed", "reset"} : SideEnds(i, s, how))
        \/ prog' = prog
    BY DEF TunnelNext, tunnelVars, Start, Hello, HelloDone, TunnelCancel, LoopCancelled, LoopReads,
         ServerSends, Dial, DialBack, Local, LocalConnects, LocalRefuses, SideWrites,
         Copy, Copies, CopyEnds, CopyBreaks, CopyOver, CopyFails, SpliceOver
  <2> QED BY <2>1, <2>2, <2>3
<1> QED BY <1>2, <1>3 DEF Undisturbed, SideGone

LEMMA TriesStep ==
    ASSUME TunnelTypeOK, FramesInv, TriesInv, [TunnelNext]_tunnelVars PROVE TriesInv'
<1> USE DEF TunnelTypeOK, ConnStage, TriesInv, ctlVars, sideVars
<1>1. CASE LoopReads
  <2>1. 1 \in DOMAIN frames /\ Head(frames) = frames[1]
    BY <1>1 DEF LoopReads
  <2> QED BY <1>1, <2>1 DEF LoopReads, FramesInv
<1>2. ASSUME NEW i \in Id, Dial(i) \/ LocalConnects(i) PROVE TriesInv'
  BY <1>2 DEF Dial, DialBack, LocalConnects
<1>3. ASSUME NEW i \in Id, LocalRefuses(i) PROVE TriesInv'
  <2>1. \A k \in Id : k # i => tries'[k] = tries[k] /\ conn'[k] = conn[k]
    BY <1>3 DEF LocalRefuses
  <2>2. conn'[i] \in {"none", "dialing", "accepted"} => tries'[i] < MaxTries
    <3>1. conn'[i] = (IF tries[i] + 1 = MaxTries THEN "failed" ELSE "accepted")
          /\ tries'[i] = tries[i] + 1 /\ tries[i] < MaxTries
      BY <1>3 DEF LocalRefuses
    <3>2. tries[i] \in Nat /\ MaxTries \in Nat
      BY TunnelAssumption
    <3> QED BY <3>1, <3>2
  <2> QED BY <2>1, <2>2
<1>4. ASSUME NEW i \in Id, CopyFails(i) \/ SpliceOver(i) PROVE TriesInv'
  BY <1>4 DEF CopyFails, SpliceOver
<1>5. CASE UNCHANGED <<conn, tries>>
  BY <1>5
<1>6. \/ LoopReads \/ UNCHANGED <<conn, tries>>
      \/ \E i \in Id : Dial(i) \/ Local(i) \/ CopyFails(i) \/ SpliceOver(i)
  BY DEF TunnelNext, tunnelVars, Start, Hello, HelloDone, TunnelCancel, LoopCancelled,
       ServerSends, SideWrites, SideEnds, Copy, Copies, CopyEnds, CopyBreaks, CopyOver
<1> HIDE DEF TriesInv
<1> QED BY <1>1, <1>2, <1>3, <1>4, <1>5, <1>6 DEF Local

LEMMA OrderlyStep == TunnelInv /\ [TunnelNext]_tunnelVars => OrderlyInv'
<1> SUFFICES ASSUME TunnelInv, [TunnelNext]_tunnelVars, NEW j \in Id, Undisturbed(j)',
                    NEW t \in Side
             PROVE  Orderly(j, t)'
    BY DEF OrderlyInv
<1>1. Undisturbed(j) /\ Orderly(j, t) /\ Orderly(j, Opposite(t))
  BY UndisturbedBefore, OppositeSide DEF TunnelInv, OrderlyInv
<1>2. conn'[j] # "failed" /\ \A s \in Side : prog[j][s] \in {"open", "shut"}
  BY <1>1 DEF Undisturbed, SideGone, TunnelInv, TunnelTypeOK
<1> USE OppositeSide DEF TunnelInv, TunnelTypeOK, Orderly, ctlVars, sideVars
<1>3. CASE UNCHANGED sideVars
  BY <1>1, <1>3
<1>4. ASSUME NEW i \in Id, CopyFails(i) PROVE Orderly(j, t)'
  <2>1. i # j
    BY <1>2, <1>4 DEF CopyFails
  <2>2. sideHeard'[j] = sideHeard[j]
    BY <1>4, <2>1 DEF CopyFails
  <2> QED BY <1>1, <1>4, <2>2 DEF CopyFails
<1>5. ASSUME NEW i \in Id, NEW s \in Side, SideWrites(i, s) PROVE Orderly(j, t)'
  <2>1. i = j /\ s = t => copy[j][t] = "copying"
    BY <1>1, <1>5 DEF SideWrites
  <2>2. ~(i = j /\ s = t) => sideWrote'[j][t] = sideWrote[j][t]
    BY <1>5 DEF SideWrites
  <2> QED BY <1>1, <1>5, <2>1, <2>2 DEF SideWrites
<1>6. ASSUME NEW i \in Id, NEW s \in Side, NEW how \in {"shut", "closed", "reset"},
             SideEnds(i, s, how)
      PROVE  Orderly(j, t)'
  <2>1. i = j /\ s = t => prog[j][t] # how
    BY <1>6 DEF SideEnds
  <2>2. prog'[j][t] = IF i = j /\ s = t THEN how ELSE prog[j][t]
    BY <1>6 DEF SideEnds
  <2>3. prog'[j][t] \notin {"closed", "reset"}
    BY DEF Undisturbed, SideGone
  <2> QED BY <1>1, <1>2, <1>6, <2>1, <2>2, <2>3 DEF SideEnds
<1>7. ASSUME NEW i \in Id, NEW s \in Side, Copy(i, s) PROVE Orderly(j, t)'
  <2>1. CASE Copies(i, s)
    <3>1. i = j /\ s = t => copy[j][t] = "copying"
      BY <2>1 DEF Copies, Copying
    <3>2. ~(i = j /\ s = t) => sideGot'[j][t] = sideGot[j][t]
      BY <2>1 DEF Copies
    <3> QED BY <1>1, <2>1, <3>1, <3>2 DEF Copies
  <2>2. CASE CopyOver(i, s) /\ (CopyEnds(i, s) \/ CopyBreaks(i, s))
    <3>1. i = j => CopyEnds(i, s) /\ prog[i][s] = "shut" /\ sideGot[i][s] = sideWrote[i][s]
      BY <1>2, <2>2 DEF CopyEnds, CopyBreaks, SideGone
    <3>2. \A u \in Side : copy'[j][u] = IF i = j /\ s = u THEN "done" ELSE copy[j][u]
      BY <2>2 DEF CopyOver
    <3>3. sideHeard'[j][t] = IF i = j /\ Opposite(s) = t /\ sideHeard[j][t] = "open"
                             THEN "eof" ELSE sideHeard[j][t]
      BY <2>2 DEF CopyOver
    <3>4. prog' = prog /\ sideGot' = sideGot /\ sideWrote' = sideWrote
      BY <2>2 DEF CopyOver
    <3> QED BY <1>1, <3>1, <3>2, <3>3, <3>4
  <2> QED BY <1>7, <2>1, <2>2 DEF Copy, CopyEnds, CopyBreaks
<1>8. \/ UNCHANGED sideVars
      \/ \E i \in Id : CopyFails(i) \/ \E s \in Side : SideWrites(i, s) \/ Copy(i, s)
      \/ \E i \in Id, s \in Side, how \in {"shut", "closed", "reset"} : SideEnds(i, s, how)
  BY DEF TunnelNext, tunnelVars, Start, Hello, HelloDone, TunnelCancel, LoopCancelled, LoopReads,
         ServerSends, Dial, DialBack, Local, LocalConnects, LocalRefuses, SpliceOver
<1> QED BY <1>3, <1>4, <1>5, <1>6, <1>7, <1>8

LEMMA HearsStep == TunnelTypeOK /\ FramesInv /\ HearsInv /\ [TunnelNext]_tunnelVars => HearsInv'
<1> SUFFICES ASSUME TunnelTypeOK, FramesInv, HearsInv, [TunnelNext]_tunnelVars,
                    NEW j \in Id, conn'[j] # "failed",
                    NEW t \in Side, copy'[j][t] = "copying"
             PROVE  sideHeard'[j][Opposite(t)] = "open"
    BY DEF HearsInv
<1>1. copy[j][t] = "copying" => sideHeard[j][Opposite(t)] = "open"
  BY FailedStays DEF HearsInv
<1> USE OppositeSide DEF TunnelTypeOK, ctlVars, sideVars
<1>2. CASE UNCHANGED <<copy, sideHeard>>
  BY <1>1, <1>2
<1>3. ASSUME NEW i \in Id, CopyFails(i) PROVE sideHeard'[j][Opposite(t)] = "open"
  BY <1>1, <1>3 DEF CopyFails
<1>4. ASSUME NEW i \in Id, NEW s \in Side, CopyOver(i, s)
      PROVE  sideHeard'[j][Opposite(t)] = "open"
  <2>1. copy'[j][t] = IF i = j /\ s = t THEN "done" ELSE copy[j][t]
    BY <1>4 DEF CopyOver
  <2>2. ~(i = j /\ s = t) => sideHeard'[j][Opposite(t)] = sideHeard[j][Opposite(t)]
    BY <1>4 DEF CopyOver
  <2> QED BY <1>1, <2>1, <2>2
<1>5. \/ UNCHANGED <<copy, sideHeard>>
      \/ \E i \in Id : CopyFails(i) \/ \E s \in Side : CopyOver(i, s)
  BY DEF TunnelNext, tunnelVars, Start, Hello, HelloDone, TunnelCancel, LoopCancelled, LoopReads,
       ServerSends, Dial, DialBack, Local, LocalConnects, LocalRefuses, SideWrites, SideEnds,
       Copy, Copies, CopyEnds, CopyBreaks, SpliceOver
<1> QED BY <1>2, <1>3, <1>4, <1>5

LEMMA TunnelInductive == TunnelInv /\ [TunnelNext]_tunnelVars => TunnelInv'
  BY TunnelTypes, FramesStep, TriesStep, OrderlyStep, HearsStep DEF TunnelInv

LEMMA TunnelInvariant == TunnelSpec => []TunnelInv
  BY TunnelStart, TunnelInductive, PTL DEF TunnelSpec

LEMMA TunnelClean == TunnelInv => TunnelCleanEnd
  BY OppositeSide DEF TunnelInv, TunnelTypeOK, OrderlyInv, Orderly, TunnelCleanEnd

\* While no side goes away, the end a side hears comes after all the data of the
\* other, for any number of announced connections and of chunks.
THEOREM TunnelEndsClean == TunnelSpec => [](TunnelTypeOK /\ TunnelCleanEnd)
  BY TunnelClean, TunnelInvariant, PTL DEF TunnelInv

\* A copy from an undisturbed connection's side that is over has copied everything.
LEMMA CopyOverClean ==
    ASSUME TunnelInv, NEW i \in Id, NEW s \in Side, CopyEnds(i, s) \/ CopyBreaks(i, s),
           Undisturbed(i)
    PROVE  prog[i][s] # "open" /\ sideGot[i][s] = sideWrote[i][s]
  BY OppositeSide DEF CopyEnds, CopyBreaks, Undisturbed, SideGone

LEMMA TunnelWireStep ==
    ASSUME TunnelInv, [TunnelNext]_tunnelVars, NEW j \in Id
    PROVE  [TunnelWire(j)!WireNext]_(TunnelWire(j)!wireVars)
<1> USE OppositeSide DEF TunnelInv, TunnelTypeOK, ctlVars, sideVars
<1> DEFINE over == {s \in Side : prog[j][s] # "open"}
<1>1. ASSUME prog'[j] = prog[j], sideWrote'[j] = sideWrote[j], sideGot'[j] = sideGot[j],
             sideHeard'[j] = sideHeard[j]
      PROVE  [TunnelWire(j)!WireNext]_(TunnelWire(j)!wireVars)
  <2>1. over' = over /\ (Undisturbed(j)' => Undisturbed(j))
    BY <1>1, UndisturbedBefore
  <2>2. CASE Undisturbed(j)' = Undisturbed(j)
    BY <1>1, <2>1, <2>2 DEF TunnelWire!wireVars
  <2>3. CASE Undisturbed(j) /\ ~Undisturbed(j)'
    <3>1. TunnelWire(j)!Break
      BY <1>1, <2>1, <2>3 DEF TunnelWire!Break
    <3> QED BY <3>1 DEF TunnelWire!WireNext
  <2> QED BY <2>1, <2>2, <2>3 DEF Undisturbed
<1>2. ASSUME NEW s \in Side, SideWrites(j, s)
      PROVE  TunnelWire(j)!WireNext
  <2>1. /\ s \notin over /\ over' = over /\ sideGot'[j] = sideGot[j]
        /\ sideHeard'[j] = sideHeard[j]
        /\ sideWrote'[j] = [sideWrote[j] EXCEPT ![s] = @ + 1]
    BY <1>2 DEF SideWrites
  <2>2. Undisturbed(j)' = Undisturbed(j)
    BY <1>2 DEF SideWrites, Undisturbed, SideGone
  <2>3. TunnelWire(j)!Write(s)
    BY <2>1, <2>2 DEF TunnelWire!Write
  <2> QED BY <2>3 DEF TunnelWire!WireNext
<1>3. ASSUME NEW s \in Side, NEW how \in {"shut", "closed", "reset"}, SideEnds(j, s, how)
      PROVE  TunnelWire(j)!WireNext
  <2>1. over' = over \cup {s} /\ (Undisturbed(j)' => Undisturbed(j))
    BY <1>3, UndisturbedBefore DEF SideEnds
  <2>2. TunnelWire(j)!EndSending(s)
    BY <1>3, <2>1 DEF SideEnds, TunnelWire!EndSending
  <2> QED BY <2>2 DEF TunnelWire!WireNext
<1>4. ASSUME NEW s \in Side, Copies(j, s)
      PROVE  TunnelWire(j)!WireNext
  <2>1. /\ over' = over /\ sideWrote'[j] = sideWrote[j] /\ sideHeard'[j] = sideHeard[j]
        /\ sideGot'[j] = [sideGot[j] EXCEPT ![s] = @ + 1]
        /\ sideGot[j][s] < sideWrote[j][s]
    BY <1>4 DEF Copies
  <2>2. Undisturbed(j)' = Undisturbed(j)
    BY <1>4 DEF Copies, Undisturbed, SideGone
  <2>3. sideHeard[j][Opposite(s)] = "open"
    BY <1>4 DEF Copies, Copying, HearsInv
  <2>4. TunnelWire(j)!Deliver(s)
    BY <2>1, <2>2, <2>3 DEF TunnelWire!Deliver
  <2> QED BY <2>4 DEF TunnelWire!WireNext
<1>5. ASSUME NEW s \in Side, CopyOver(j, s), CopyEnds(j, s) \/ CopyBreaks(j, s)
      PROVE  TunnelWire(j)!WireNext
  <2>1. sideHeard[j][Opposite(s)] = "open"
    BY <1>5 DEF CopyEnds, CopyBreaks, Copying, HearsInv
  <2>2. /\ over' = over /\ sideWrote'[j] = sideWrote[j] /\ sideGot'[j] = sideGot[j]
        /\ sideHeard'[j] = [sideHeard[j] EXCEPT ![Opposite(s)] = "eof"]
    BY <1>5, <2>1 DEF CopyOver
  <2>3. Undisturbed(j)' = Undisturbed(j)
    BY <1>5 DEF CopyOver, Undisturbed, SideGone
  <2>4. CASE Undisturbed(j)
    <3>1. s \in over /\ sideGot[j][s] = sideWrote[j][s]
      BY <1>5, <2>4, CopyOverClean
    <3>2. TunnelWire(j)!HearEnd(Opposite(s))
      BY <2>1, <2>2, <2>3, <3>1 DEF TunnelWire!HearEnd
    <3> QED BY <3>2 DEF TunnelWire!WireNext
  <2>5. CASE ~Undisturbed(j)
    <3>1. TunnelWire(j)!Break
      BY <2>1, <2>2, <2>3, <2>5 DEF TunnelWire!Break
    <3> QED BY <3>1 DEF TunnelWire!WireNext
  <2> QED BY <2>4, <2>5
<1>6. ASSUME CopyFails(j)
      PROVE  TunnelWire(j)!WireNext
  <2>1. /\ over' = over /\ sideWrote'[j] = sideWrote[j] /\ sideGot'[j] = sideGot[j]
        /\ ~Undisturbed(j)'
    BY <1>6 DEF CopyFails, Undisturbed
  <2>2. sideHeard'[j] =
           [s \in Side |-> IF sideHeard[j][s] # "open" THEN sideHeard[j][s]
                           ELSE IF sideGot[j][s] < sideWrote[j][s] THEN "reset" ELSE "eof"]
    BY <1>6 DEF CopyFails
  <2>3. TunnelWire(j)!Break
    BY <2>1, <2>2 DEF TunnelWire!Break
  <2> QED BY <2>3 DEF TunnelWire!WireNext
<1>7. \/ UNCHANGED sideVars
      \/ \E i \in Id : CopyFails(i) \/ \E s \in Side : SideWrites(i, s) \/ Copy(i, s)
      \/ \E i \in Id, s \in Side, how \in {"shut", "closed", "reset"} : SideEnds(i, s, how)
  BY DEF TunnelNext, tunnelVars, Start, Hello, HelloDone, TunnelCancel, LoopCancelled, LoopReads,
         ServerSends, Dial, DialBack, Local, LocalConnects, LocalRefuses, SpliceOver
<1>8. ASSUME NEW i \in Id, i # j,
             \/ CopyFails(i) \/ \E s \in Side : SideWrites(i, s) \/ Copy(i, s)
             \/ \E s \in Side, how \in {"shut", "closed", "reset"} : SideEnds(i, s, how)
      PROVE  [TunnelWire(j)!WireNext]_(TunnelWire(j)!wireVars)
  <2>1. /\ prog'[j] = prog[j] /\ sideWrote'[j] = sideWrote[j] /\ sideGot'[j] = sideGot[j]
        /\ sideHeard'[j] = sideHeard[j]
    BY <1>8 DEF CopyFails, SideWrites, SideEnds, Copy, Copies, CopyEnds, CopyBreaks, CopyOver
  <2> QED BY <1>1, <2>1
<1>9. CASE UNCHANGED sideVars
  BY <1>1, <1>9
<1> QED
  BY <1>2, <1>3, <1>4, <1>5, <1>6, <1>7, <1>8, <1>9 DEF Copy, CopyEnds, CopyBreaks

LEMMA TunnelBegins == TunnelInit => \A i \in Id : TunnelWire(i)!WireInit
  BY DEF TunnelInit, TunnelWire!WireInit, Undisturbed, SideGone

LEMMA TunnelsStep ==
    ASSUME TunnelInv, [TunnelNext]_tunnelVars
    PROVE  \A i \in Id : [TunnelWire(i)!WireNext]_(TunnelWire(i)!wireVars)
  BY TunnelWireStep

\* Every connection of the tunnel is a TCP connection to its two sides, for any number
\* of connections and chunks, whatever the control connection does.
THEOREM TunnelsAreWires == TunnelSpec => TunnelKeepsHalfClose
  BY TunnelBegins, TunnelsStep, TunnelInvariant, PTL DEF TunnelSpec, TunnelKeepsHalfClose
==============================================================================

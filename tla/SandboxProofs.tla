---------------------------- MODULE SandboxProofs ----------------------------
(***************************************************************************)
(* Theorems about Sandbox, for any number of concurrent calls and any      *)
(* number of failures of docker.                                           *)
(***************************************************************************)
EXTENDS Sandbox, TLAPS

\* Before the child process, and once the container is as good as gone.
Before == {"new", "spawn"}
After == {"kill_exit", "done"}

\* How the child, the container and the code between them go together.
CallInv(c) ==
  /\ pc[c] \in Before => cli[c] = "none" /\ out[c] = "none"
  /\ pc[c] = "spawn" => profile.whole
  /\ pc[c] \in Waits \ Before => cli[c] # "none"
  /\ cli[c] = "none" => box[c] = "none"
  /\ cli[c] = "working" => box[c] \in {"none", "created"}
  /\ cli[c] = "attached" => box[c] \in {"running", "gone"}
  /\ cli[c] = "killed" => pc[c] = "done"
  /\ c \notin spoiled =>
        /\ cli[c] \in {"exited", "reaped"} => box[c] \in {"none", "gone"}
        /\ pc[c] \in After => cli[c] # "working" /\ box[c] \in {"none", "gone"}

\* What the exit codes tell.
CodeInv(c) ==
  /\ code[c].box # -1 => box[c] = "gone"
  /\ cli[c] = "attached" /\ box[c] = "gone" => code[c].box # -1
  /\ code[c].box = 0 => payload[c] = "ok"
  /\ cli[c] \in {"exited", "reaped"} =>
        \/ box[c] = "gone" /\ code[c].cli = code[c].box /\ code[c].box # -1
        \/ code[c].cli = DockerError
  /\ out[c] \in {"result", "runtime_error"} => cli[c] = "reaped" /\ pc[c] = "done"
  /\ out[c] = "result" => code[c].cli = 0

Inv ==
  /\ TypeOK
  /\ profile.cached => profile.whole
  /\ \A c \in Calls : CallInv(c) /\ CodeInv(c)
  /\ ProfileFirst

LEMMA InitInv == Init => Inv
  BY SandboxAssumption
  DEF Init, Inv, TypeOK, CallInv, CodeInv, ProfileFirst, Before, After, Labels, Waits, Outcomes,
      CliStates, BoxStates

\* The labels and outcomes that the steps set.
LEMMA SetType ==
  ASSUME TypeOK, NEW c \in Calls
  PROVE  /\ \A label \in Labels :
               Goto(c, label) => pc' \in [Calls -> Labels]
         /\ \A outcome \in Outcomes :
               End(c, outcome) => /\ pc' \in [Calls -> Labels]
                                  /\ out' \in [Calls -> {"none"} \cup Outcomes]
         /\ \A state \in CliStates : Cli(c, state) => cli' \in [Calls -> CliStates]
         /\ \A state \in BoxStates : Box(c, state) => box' \in [Calls -> BoxStates]
         /\ Fault(c) => spoiled' \subseteq Calls /\ faults' \in Nat
<1>1. /\ pc \in [Calls -> Labels]
      /\ out \in [Calls -> {"none"} \cup Outcomes]
      /\ cli \in [Calls -> CliStates] /\ box \in [Calls -> BoxStates]
      /\ spoiled \subseteq Calls /\ faults \in Nat
  BY DEF TypeOK
<1>2. \A label \in Labels :
         Goto(c, label) => pc' \in [Calls -> Labels]
  BY <1>1 DEF Goto
<1>3. \A outcome \in Outcomes :
         End(c, outcome) => out' \in [Calls -> {"none"} \cup Outcomes]
  BY <1>1 DEF End
<1>4. "done" \in Labels
  BY DEF Labels
<1> QED BY <1>1, <1>2, <1>3, <1>4 DEF End, Cli, Box, Fault

LEMMA DockerType ==
  ASSUME TypeOK, NEW c \in Calls, Docker(c)
  PROVE  TypeOK'
<1> USE SetType DEF CliStates, BoxStates
<1>1. CASE BoxEnds(c)
  <2>1. payload[c] \in Payloads
    BY DEF TypeOK
  <2>2. ExitCode(payload[c]) \in Int /\ Killed \in Int
    BY <2>1, SandboxAssumption DEF ExitCode, Killed
  <2>3. PICK status \in Int : code' = [code EXCEPT ![c].box = status]
    BY <1>1, <2>2 DEF BoxEnds
  <2> QED BY <1>1, <2>3 DEF BoxEnds, TypeOK
<1>2. CASE CliCreates(c) \/ CliStarts(c) \/ Reap(c)
  BY <1>2 DEF CliCreates, CliStarts, Reap, TypeOK
<1>3. CASE CliRefuses(c)
  <2>1. code' \in [Calls -> [box : Int, cli : Int]]
    BY <1>3 DEF CliRefuses, DockerError, TypeOK
  <2>2. box' \in [Calls -> BoxStates]
    BY <1>3 DEF CliRefuses, TypeOK
  <2> QED BY <1>3, <2>1, <2>2 DEF CliRefuses, TypeOK
<1>4. CASE CliExits(c) \/ CliLosesDaemon(c)
  <2>1. code[c].box \in Int /\ DockerError \in Int
    BY DEF DockerError, TypeOK
  <2>2. PICK status \in Int : code' = [code EXCEPT ![c].cli = status]
    BY <1>4, <2>1 DEF CliExits, CliLosesDaemon
  <2>3. code' \in [Calls -> [box : Int, cli : Int]]
    BY <2>2 DEF TypeOK
  <2> QED BY <1>4, <2>3 DEF CliExits, CliLosesDaemon, TypeOK
<1> QED BY <1>1, <1>2, <1>3, <1>4 DEF Docker

LEMMA RunType ==
  ASSUME TypeOK, NEW c \in Calls,
         Call(c) \/ ProfileFails(c) \/ Run(c) \/ Cancel(c)
  PROVE  TypeOK'
<1> USE SetType DEF CliStates, BoxStates
<1> USE DEF Labels, Waits, Outcomes, docker
<1>1. CASE Call(c)
  <2>1. pc' \in [Calls -> Labels]
    BY <1>1 DEF Call
  <2>2. profile' \in [whole : BOOLEAN, cached : BOOLEAN]
    <3>1. CASE profile.cached
      BY <1>1, <3>1 DEF Call, TypeOK
    <3>2. CASE ~ profile.cached
      <4>1. profile' = [whole |-> TRUE, cached |-> TRUE]
        BY <1>1, <3>2 DEF Call
      <4> QED BY <4>1
    <3> QED BY <3>1, <3>2
  <2> QED BY <1>1, <2>1, <2>2 DEF Call, TypeOK
<1>2. CASE ProfileFails(c) \/ SpawnFails(c) \/ KillReaped(c)
  BY <1>2 DEF ProfileFails, SpawnFails, KillReaped, TypeOK
<1>3. CASE Communicated(c) \/ Cancel(c)
  BY <1>3 DEF Communicated, Cancel, TypeOK
<1>4. CASE Timeout(c) \/ SpawnKill(c) \/ SpawnKillFails(c) \/ KillFails(c)
  BY <1>4 DEF Timeout, SpawnKill, SpawnKillFails, KillFails, TypeOK
<1>5. CASE Spawn(c)
  BY <1>5 DEF Spawn, TypeOK
<1>6. CASE Kill(c)
  <2>1. code' \in [Calls -> [box : Int, cli : Int]]
    BY <1>6 DEF Kill, Killed, TypeOK
  <2> QED BY <1>6, <2>1 DEF Kill, TypeOK
<1>7. CASE KillMisses(c)
  <2>1. spoiled' \subseteq Calls
    BY <1>7 DEF KillMisses, TypeOK
  <2> QED BY <1>7, <2>1 DEF KillMisses, TypeOK
<1>8. CASE KillChild(c)
  <2>1. cli' \in [Calls -> CliStates]
    BY <1>8 DEF KillChild, TypeOK
  <2> QED BY <1>8, <2>1 DEF KillChild, TypeOK
<1> QED
  BY <1>1, <1>2, <1>3, <1>4, <1>5, <1>6, <1>7, <1>8 DEF Run

LEMMA DockerInv ==
  ASSUME Inv, NEW c \in Calls, Docker(c), TypeOK'
  PROVE  Inv'
<1> USE DEF Cli, Box, Fault, DockerError, Killed, Inv, TypeOK, CallInv, CodeInv,
        ProfileFirst, Before, After, Labels, Waits, CliStates, BoxStates
<1>1. CASE BoxEnds(c)
  <2>1. PICK status \in {ExitCode(payload[c]), Killed} :
           code' = [code EXCEPT ![c].box = status]
    BY <1>1 DEF BoxEnds
  <2>2. status \in Nat /\ (status = 0 => payload[c] = "ok")
    BY <2>1, SandboxAssumption DEF ExitCode
  <2> QED BY <1>1, <2>1, <2>2 DEF BoxEnds
<1>2. CASE CliCreates(c)
  BY <1>2 DEF CliCreates
<1>3. CASE CliStarts(c)
  BY <1>3 DEF CliStarts
<1>4. CASE CliRefuses(c)
  <2>1. CASE box[c] = "created"
    BY <1>4, <2>1 DEF CliRefuses
  <2>2. CASE box[c] # "created"
    BY <1>4, <2>2 DEF CliRefuses
  <2> QED BY <2>1, <2>2
<1>5. CASE CliExits(c)
  BY <1>5 DEF CliExits
<1>6. CASE CliLosesDaemon(c)
  BY <1>6 DEF CliLosesDaemon
<1>7. CASE Reap(c)
  BY <1>7 DEF Reap
<1> QED BY <1>1, <1>2, <1>3, <1>4, <1>5, <1>6, <1>7 DEF Docker

LEMMA RunInv ==
  ASSUME Inv, NEW c \in Calls, TypeOK',
         Call(c) \/ ProfileFails(c) \/ Run(c) \/ Cancel(c)
  PROVE  Inv'
<1> USE DEF At, Goto, End, Cli, Box, docker, Fault, DockerError, Killed, Inv,
        TypeOK, CallInv, CodeInv, ProfileFirst, Before, After, Labels, Waits, CliStates, BoxStates
<1>1. CASE Spawn(c)
  BY <1>1 DEF Spawn
<1>2. CASE SpawnFails(c)
  BY <1>2 DEF SpawnFails
<1>3. CASE Communicated(c)
  BY <1>3 DEF Communicated
<1>4. CASE Timeout(c) \/ SpawnKill(c)
  BY <1>4 DEF Timeout, SpawnKill
<1>5. CASE SpawnKillFails(c) \/ KillFails(c)
  BY <1>5 DEF SpawnKillFails, KillFails
<1>6. CASE Kill(c)
  BY <1>6 DEF Kill
<1>7. CASE KillMisses(c)
  <2>1. CASE cli[c] = "working"
    BY <1>7, <2>1 DEF KillMisses
  <2>2. CASE cli[c] # "working"
    BY <1>7, <2>2 DEF KillMisses
  <2> QED BY <2>1, <2>2
<1>8. CASE KillChild(c)
  <2>1. CASE cli[c] = "exited"
    BY <1>8, <2>1 DEF KillChild
  <2>2. CASE cli[c] # "exited"
    BY <1>8, <2>2 DEF KillChild
  <2> QED BY <2>1, <2>2
<1>9. CASE KillReaped(c)
  BY <1>9 DEF KillReaped
<1>10. CASE Call(c)
  <2>1. CASE profile.cached
    BY <1>10, <2>1 DEF Call
  <2>2. CASE ~ profile.cached
    BY <1>10, <2>2 DEF Call
  <2> QED BY <2>1, <2>2
<1>11. CASE ProfileFails(c)
  BY <1>11 DEF ProfileFails
<1>12. CASE Cancel(c)
  BY <1>12 DEF Cancel
<1> QED
  BY <1>1, <1>2, <1>3, <1>4, <1>5, <1>6, <1>7, <1>8, <1>9, <1>10, <1>11,
     <1>12 DEF Run

LEMMA NextInv == Inv /\ [Next]_vars => Inv'
<1> SUFFICES ASSUME Inv, [Next]_vars PROVE Inv'
  OBVIOUS
<1>1. CASE UNCHANGED vars
  BY <1>1 DEF vars, Inv, TypeOK, CallInv, CodeInv, ProfileFirst
<1>2. CASE Next
  <2>1. TypeOK
    BY DEF Inv
  <2> QED BY <1>2, <2>1, DockerType, RunType, DockerInv, RunInv DEF Next
<1> QED BY <1>1, <1>2

LEMMA Invariance == Spec => []Inv
BY InitInv, NextInv, PTL DEF Spec

-----------------------------------------------------------------------------
(***************************************************************************)
(* Theorems                                                                *)
(***************************************************************************)

\* Every variable keeps its type.
THEOREM TypeCorrect == Spec => []TypeOK
<1>1. Inv => TypeOK
  BY DEF Inv
<1> QED BY <1>1, Invariance, PTL

\* A container outlives its call only if the call was cancelled, docker
\* failed or docker kill came too early.
THEOREM OrphanFree == Spec => []NoOrphans
<1>1. Inv => NoOrphans
  BY DEF Inv, NoOrphans, CallInv, After, At
<1> QED BY <1>1, Invariance, PTL

\* Results and exit codes come from the tool of the call, run to its end.
THEOREM ReportsAreTrue == Spec => []ReportsTheTool
<1>1. Inv => ReportsTheTool
  <2> SUFFICES ASSUME Inv, NEW c \in Calls, out[c] \in {"result", "runtime_error"}
               PROVE  /\ out[c] = "result" =>
                            box[c] = "gone" /\ code[c].box = 0 /\ payload[c] = "ok"
                      /\ \/ box[c] = "gone" /\ code[c].box = code[c].cli
                         \/ code[c].cli = DockerError
    BY DEF ReportsTheTool
  <2>1. CodeInv(c)
    BY DEF Inv
  <2> QED BY <2>1 DEF CodeInv, DockerError
<1> QED BY <1>1, Invariance, PTL

\* No container is started before the seccomp profile is on disk.
THEOREM ProfileIsFirst == Spec => []ProfileFirst
<1>1. Inv => ProfileFirst
  BY DEF Inv
<1> QED BY <1>1, Invariance, PTL

=============================================================================

------------------------------ MODULE Sandbox ------------------------------
(***************************************************************************)
(* SandboxExecutor.run (sandbox/executor.py): concurrent calls, each of    *)
(* which starts "docker run" as a child process (cli), waits for it under  *)
(* a timeout and then has the container (box) killed by "docker kill".     *)
(*                                                                         *)
(* The container belongs to the daemon and not to the child: it appears    *)
(* some time after the child starts, and outlives a child that is killed.  *)
(* What Docker does is modelled as far as run can tell.                    *)
(***************************************************************************)
EXTENDS Integers

CONSTANTS Calls,       \* calls of run()
          Payloads,    \* what the calls ask for
          MaxFaults    \* bound on the failures of docker in a behaviour

ASSUME SandboxAssumption ==
  /\ Payloads \subseteq {"ok", "invalid", "unknown_tool", "value_error",
                         "bad_arguments", "tool_error", "unserialisable"}
  /\ MaxFaults \in Nat

VARIABLES pc,          \* what each call waits for
          payload,     \* agent_payload
          profile,     \* the seccomp profile: is the file whole, is it cached
          cli,         \* the docker run process and what asyncio knows of it
          box,         \* the container
          code,        \* exit codes of the container, and of docker run
          out,         \* how run() ended
          spoiled,     \* no container of this call is sure to be killed
          faults

vars == <<pc, payload, profile, cli, box, code, out, spoiled, faults>>
docker == <<cli, box, code>>

\* The awaits; those of the log change nothing and are left out.
Waits == {"spawn", "communicate", "kill", "kill_wait", "kill_exit"}
Labels == {"new", "done"} \cup Waits
CliStates == {"none", "working", "attached", "exited", "reaped", "killed"}
BoxStates == {"none", "created", "running", "gone"}
Outcomes == {"result", "runtime_error", "timeout", "unavailable", "os_error",
             "no_process", "cancelled"}

At(c, label) == pc[c] = label
Goto(c, label) == pc' = [pc EXCEPT ![c] = label]
End(c, outcome) == Goto(c, "done") /\ out' = [out EXCEPT ![c] = outcome]
Cli(c, state) == cli' = [cli EXCEPT ![c] = state]
Box(c, state) == box' = [box EXCEPT ![c] = state]

\* A failure of docker, after which nobody can tell what became of the
\* container.
Fault(c) ==
  /\ faults < MaxFaults
  /\ faults' = faults + 1
  /\ spoiled' = spoiled \cup {c}

-----------------------------------------------------------------------------
(***************************************************************************)
(* In the container: sandbox/entrypoint.py                                 *)
(***************************************************************************)

\* sys.exit of main.  A ValueError counts as the caller's mistake, whoever
\* raises it; arguments that do not fit are a TypeError, hence 1.
ExitCode(p) ==
  CASE p \in {"invalid", "unknown_tool", "value_error"} -> 2
    [] p \in {"bad_arguments", "tool_error", "unserialisable"} -> 1
    [] p = "ok" -> 0

\* Out of memory, or killed.
Killed == 137

\* docker run itself failed.
DockerError == 125

BoxEnds(c) ==
  /\ box[c] = "running"
  /\ Box(c, "gone")
  /\ \E status \in {ExitCode(payload[c]), Killed} :
        code' = [code EXCEPT ![c].box = status]
  /\ UNCHANGED <<pc, payload, profile, cli, out, spoiled, faults>>

-----------------------------------------------------------------------------
(***************************************************************************)
(* docker run                                                              *)
(***************************************************************************)

CliCreates(c) ==
  /\ cli[c] = "working" /\ box[c] = "none"
  /\ Box(c, "created")
  /\ UNCHANGED <<pc, payload, profile, cli, code, out, spoiled, faults>>

CliStarts(c) ==
  /\ cli[c] = "working" /\ box[c] = "created"
  /\ Box(c, "running")
  /\ Cli(c, "attached")
  /\ UNCHANGED <<pc, payload, profile, code, out, spoiled, faults>>

\* No image, no such runtime...; --rm takes a container that was created.
CliRefuses(c) ==
  /\ cli[c] = "working"
  /\ Cli(c, "exited")
  /\ code' = [code EXCEPT ![c].cli = DockerError]
  /\ IF box[c] = "created" THEN Box(c, "gone") ELSE UNCHANGED box
  /\ UNCHANGED <<pc, payload, profile, out, spoiled, faults>>

CliExits(c) ==
  /\ cli[c] = "attached" /\ box[c] = "gone"
  /\ Cli(c, "exited")
  /\ code' = [code EXCEPT ![c].cli = code[c].box]
  /\ UNCHANGED <<pc, payload, profile, box, out, spoiled, faults>>

\* The connection to the daemon breaks; the container does not notice.
CliLosesDaemon(c) ==
  /\ cli[c] = "attached"
  /\ Cli(c, "exited")
  /\ code' = [code EXCEPT ![c].cli = DockerError]
  /\ Fault(c)
  /\ UNCHANGED <<pc, payload, profile, box, out>>

\* asyncio has the exit status and the end of both pipes, and forgets the
\* process.
Reap(c) ==
  /\ cli[c] = "exited"
  /\ Cli(c, "reaped")
  /\ UNCHANGED <<pc, payload, profile, box, code, out, spoiled, faults>>

Docker(c) ==
  \/ BoxEnds(c) \/ CliCreates(c) \/ CliStarts(c) \/ CliRefuses(c)
  \/ CliExits(c) \/ CliLosesDaemon(c) \/ Reap(c)

-----------------------------------------------------------------------------
(***************************************************************************)
(* run                                                                     *)
(***************************************************************************)

\* The profile is there, or is written and cached before anything is awaited.
Call(c) ==
  /\ At(c, "new")
  /\ profile' = IF profile.cached THEN profile ELSE [whole |-> TRUE, cached |-> TRUE]
  /\ Goto(c, "spawn")
  /\ UNCHANGED <<payload, docker, out, spoiled, faults>>

\* Mutant of ProfileFails: the path is cached before the file is written.
CachesFirst(c) ==
  /\ At(c, "new")
  /\ ~ profile.cached
  /\ profile' = [profile EXCEPT !.cached = TRUE]
  /\ End(c, "os_error")
  /\ UNCHANGED <<payload, docker, spoiled, faults>>

\* mkdir or write_text raises.
ProfileFails(c) ==
  /\ At(c, "new")
  /\ ~ profile.cached
  /\ End(c, "os_error")
  /\ UNCHANGED <<payload, profile, docker, spoiled, faults>>

Spawn(c) ==
  /\ At(c, "spawn")
  /\ Cli(c, "working")
  /\ Goto(c, "communicate")
  /\ UNCHANGED <<payload, profile, box, code, out, spoiled, faults>>

\* FileNotFoundError, or an OSError that run lets through (a payload beyond
\* what one environment string may hold, for one).
SpawnFails(c) ==
  /\ At(c, "spawn")
  /\ End(c, "unavailable") \/ End(c, "os_error")
  /\ UNCHANGED <<payload, profile, docker, spoiled, faults>>

\* docker run has ended and its output is read.
Communicated(c) ==
  /\ At(c, "communicate")
  /\ cli[c] = "reaped"
  /\ End(c, IF code[c].cli = 0 THEN "result" ELSE "runtime_error")
  /\ UNCHANGED <<payload, profile, docker, spoiled, faults>>

\* Mutant of Timeout: communicate() without wait_for.
NoTimeout(c) == FALSE

\* wait_for may time out although docker run has just ended.
Timeout(c) ==
  /\ At(c, "communicate")
  /\ Goto(c, "kill")
  /\ UNCHANGED <<payload, profile, docker, out, spoiled, faults>>

\* Mutant of SpawnKill: only docker run is killed, not the container.
KillsOnlyTheChild(c) ==
  /\ At(c, "kill")
  /\ Goto(c, "kill_exit")
  /\ UNCHANGED <<payload, profile, docker, out, spoiled, faults>>

SpawnKill(c) ==
  /\ At(c, "kill")
  /\ Goto(c, "kill_wait")
  /\ UNCHANGED <<payload, profile, docker, out, spoiled, faults>>

SpawnKillFails(c) ==
  /\ At(c, "kill")
  /\ Goto(c, "kill_exit")
  /\ Fault(c)
  /\ UNCHANGED <<payload, profile, docker, out>>

\* docker kill at the daemon.
Kill(c) ==
  /\ At(c, "kill_wait")
  /\ box[c] = "running"
  /\ Box(c, "gone")
  /\ code' = [code EXCEPT ![c].box = Killed]
  /\ Goto(c, "kill_exit")
  /\ UNCHANGED <<payload, profile, cli, out, spoiled, faults>>

\* No running container of that name: docker kill exits with an error, which
\* nobody reads.  It may have come too early.
KillMisses(c) ==
  /\ At(c, "kill_wait")
  /\ box[c] # "running"
  /\ Goto(c, "kill_exit")
  /\ spoiled' = IF cli[c] = "working" THEN spoiled \cup {c} ELSE spoiled
  /\ UNCHANGED <<payload, profile, docker, out, faults>>

KillFails(c) ==
  /\ At(c, "kill_wait")
  /\ Goto(c, "kill_exit")
  /\ Fault(c)
  /\ UNCHANGED <<payload, profile, docker, out>>

\* Mutant of KillChild: "if timed_out" is gone, and no returncode is 0.
IgnoresTimedOut(c) ==
  /\ At(c, "kill_exit")
  /\ cli[c] # "reaped"
  /\ IF cli[c] = "exited" THEN UNCHANGED cli ELSE Cli(c, "killed")
  /\ End(c, IF code[c].cli \in {-1, 0} THEN "result" ELSE "runtime_error")
  /\ UNCHANGED <<payload, profile, box, code, spoiled, faults>>

\* proc.kill(), once docker kill has exited: SandboxTimeoutError.
KillChild(c) ==
  /\ At(c, "kill_exit")
  /\ cli[c] # "reaped"
  /\ IF cli[c] = "exited" THEN UNCHANGED cli ELSE Cli(c, "killed")
  /\ End(c, "timeout")
  /\ UNCHANGED <<payload, profile, box, code, spoiled, faults>>

\* ProcessLookupError: asyncio has forgotten the process.
KillReaped(c) ==
  /\ At(c, "kill_exit")
  /\ cli[c] = "reaped"
  /\ End(c, "no_process")
  /\ UNCHANGED <<payload, profile, docker, spoiled, faults>>

\* The caller is cancelled; only a timeout makes run kill anything.
Cancel(c) ==
  /\ pc[c] \in Waits
  /\ End(c, "cancelled")
  /\ spoiled' = spoiled \cup {c}
  /\ UNCHANGED <<payload, profile, docker, faults>>

Run(c) ==
  \/ Spawn(c) \/ SpawnFails(c) \/ Communicated(c) \/ Timeout(c)
  \/ SpawnKill(c) \/ SpawnKillFails(c) \/ Kill(c) \/ KillMisses(c) \/ KillFails(c)
  \/ KillChild(c) \/ KillReaped(c)

-----------------------------------------------------------------------------
Init ==
  /\ pc = [c \in Calls |-> "new"]
  /\ payload \in [Calls -> Payloads]
  /\ profile = [whole |-> FALSE, cached |-> FALSE]
  /\ cli = [c \in Calls |-> "none"]
  /\ box = [c \in Calls |-> "none"]
  /\ code = [c \in Calls |-> [box |-> -1, cli |-> -1]]
  /\ out = [c \in Calls |-> "none"]
  /\ spoiled = {}
  /\ faults = 0

Next == \E c \in Calls : Call(c) \/ ProfileFails(c) \/ Run(c) \/ Docker(c) \/ Cancel(c)

Spec == Init /\ [][Next]_vars

\* The event loop goes on, timers fire, log lines are written and "docker
\* kill" exits; a container may run for ever.
FairSpec == Spec /\ \A c \in Calls : WF_vars(Run(c))

-----------------------------------------------------------------------------
(***************************************************************************)
(* Properties                                                              *)
(***************************************************************************)

\* Every variable has its type.
TypeOK ==
  /\ pc \in [Calls -> Labels]
  /\ payload \in [Calls -> Payloads]
  /\ profile \in [whole : BOOLEAN, cached : BOOLEAN]
  /\ cli \in [Calls -> CliStates]
  /\ box \in [Calls -> BoxStates]
  /\ code \in [Calls -> [box : Int, cli : Int]]
  /\ out \in [Calls -> {"none"} \cup Outcomes]
  /\ spoiled \subseteq Calls
  /\ faults \in Nat

\* No container outlives its call, unless the call was cancelled, docker
\* failed, or docker kill came before the container ran.
NoOrphans ==
  \A c \in Calls :
     At(c, "done") /\ c \notin spoiled => box[c] \in {"none", "gone"}

\* A result is that of a tool that ran to its end, and an error that names an
\* exit code is the tool's or docker's own, never that of the kill or of a
\* container still at work.
ReportsTheTool ==
  \A c \in Calls :
     /\ out[c] = "result" =>
           box[c] = "gone" /\ code[c].box = 0 /\ payload[c] = "ok"
     /\ out[c] = "runtime_error" =>
           \/ box[c] = "gone" /\ code[c].box = code[c].cli
           \/ code[c].cli = DockerError

\* Every container is given a profile that is on disk and whole.
ProfileFirst == \A c \in Calls : cli[c] # "none" => profile.whole

\* A call ends, whatever its container does.
EveryRunEnds == \A c \in Calls : pc[c] \in Waits ~> At(c, "done")

\* "If the container exceeds execution_timeout_seconds it is force-killed
\* (docker kill) and a SandboxTimeoutError is raised" (executor.py:36-37).
Late == {"kill", "kill_wait", "kill_exit"}
TimeoutsAreReported ==
  [][\A c \in Calls :
        pc[c] \in Late /\ pc'[c] = "done" => out'[c] \in {"timeout", "cancelled"}]_vars

=============================================================================

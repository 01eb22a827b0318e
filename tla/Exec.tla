-------------------------------- MODULE Exec --------------------------------
(***************************************************************************)
(* The external commands of one job, and the calls that act on it while    *)
(* they run: execMiddleware around each exec.Cmd, the tree handle that     *)
(* kills a command with its descendants (process group on unix, Job Object *)
(* on windows), KillAll, the environment a command gets, the end of the    *)
(* job's goroutine, and the handlers JobKill, JobWait and JobStdin.        *)
(*                                                                         *)
(* External: the interpreter, which runs a foreground command to its end   *)
(* and leaves a background one (cmd &) behind; exec.Cmd, whose goroutine   *)
(* calls Cancel once when the context ends, kills the direct child after   *)
(* WaitDelay and lets Wait give up on an output pipe that a descendant     *)
(* holds; the kernel.  A command has one descendant at most, kid, which    *)
(* inherits its output and never leaves its process group.                 *)
(***************************************************************************)
EXTENDS Integers

CONSTANTS
    Commands,    \* external commands of the script
    Callers,     \* RPCs that act on the running job
    Scenes,      \* platform, worker's environ, CA bundle on disk, request's
                 \* variables, variables its script exports
    Vars,        \* environment variables told apart
    Pass,        \* the allowlist of jobEnv
    WinPass,     \* what it adds on windows
    PipeCap,     \* writes to stdin held by the interpreter's copier
    Codes,       \* exit codes of a process, by platform
    Iters        \* bound: polls of a JobWait

Unset == "unset"

ASSUME ExecAssumption ==
    /\ {"PATH", "SSL_CERT_FILE"} \subseteq Vars
    /\ Pass \cup WinPass \subseteq Vars
    /\ Codes["unix"] \subseteq 0 .. 255
    /\ Codes["windows"] \subseteq Nat
    /\ \A s \in Scenes : /\ s.os \in {"unix", "windows"}
                         /\ s.bundle \in BOOLEAN
                         /\ s.environ \in [Vars -> {Unset, "worker"}]
                         /\ s.request \in [Vars -> {Unset, "request"}]
                         /\ s.exports \subseteq Vars
                         /\ s.os = "windows" =>
                               \E v \in Pass \cup WinPass : s.environ[v] # Unset
    /\ PipeCap \in Nat \ {0}
    /\ Iters \in Nat

VARIABLES
    scene,      \* the worker and the request
    cancelled,  \* jobCtx is cancelled
    jpc,        \* control of the goroutine started by Execute
    state,      \* Job.State
    exit,       \* Job.ExitCode
    shell,      \* exported variables of the interpreter
    cmd,        \* each call of execMiddleware: control, watchCtx, treeHandle
    proc,       \* its processes
    tracked,    \* Runner.childs
    jobByPid,   \* registry of Job Objects
    doomed,     \* pids KillAll has still to kill
    stdin,      \* the stdin pipes of the job
    call        \* each RPC

jobVars  == <<cancelled, jpc, state, exit, shell>>
procVars == <<cmd, proc, tracked, jobByPid, doomed>>
vars == <<scene, jobVars, procVars, stdin, call>>

unix == scene.os = "unix"
Live == {"live", "early"}

-----------------------------------------------------------------------------
(* jobEnv and RunWithEnv                                                   *)

\* Mutant of jobEnv: the worker's own environment is inherited.
InheritedEnv == scene.environ

\* The worker's variables on the allowlist, and a default for two of them.  It
\* is never empty (exec.Cmd would take a nil Env for the worker's own): unix has
\* a PATH, and a windows process has SystemRoot or it would not have started.
jobEnv ==
    [v \in Vars |->
        IF v \in Pass /\ scene.environ[v] # Unset THEN scene.environ[v]
        ELSE IF v = "SSL_CERT_FILE" /\ scene.bundle THEN "bundle"
        ELSE IF v \in WinPass /\ ~unix THEN scene.environ[v]
        ELSE IF v = "PATH" /\ unix THEN "default"
        ELSE Unset]

\* The request's variables come last, and the last one wins.
RunWithEnv ==
    [v \in Vars |-> IF scene.request[v] # Unset THEN scene.request[v]
                                                ELSE jobEnv[v]]

-----------------------------------------------------------------------------
(* Killing a tree                                                          *)

\* A process that is killed reports -1 on unix and 1 on windows.
Killed(p) ==
    IF p.child = "live"
    THEN [p EXCEPT !.child = "dead", !.code = IF unix THEN -1 ELSE 1]
    ELSE p
Gone(k) == IF k \in Live THEN "gone" ELSE k

\* Mutant of KillGroup: the child has no process group of its own.
KillChildOnly(c) == Killed(proc[c])

\* kill(-pid) and kill(pid): Setpgid made the child the leader of its group.
KillGroup(c) == [Killed(proc[c]) EXCEPT !.kid = Gone(@)]

\* The members of the Job Object: kid is one unless it was born before Assign.
KillJob(c) == [Killed(proc[c]) EXCEPT !.kid = IF @ = "live" THEN "gone" ELSE @]

\* taskkill /T /F finds the tree through a child that is still there.
TaskKill(c) == IF proc[c].child = "live" THEN KillGroup(c) ELSE proc[c]

\* treeHandle.terminate.  TerminateJobObject may fail.
Terminate(c) ==
    IF ~cmd[c].pid THEN {proc[c]}
    ELSE IF unix THEN {KillGroup(c)}
    ELSE IF cmd[c].job = "open" THEN {KillJob(c), TaskKill(c)}
    ELSE {TaskKill(c)}

Set(c, p) == proc' = [proc EXCEPT ![c] = p]
Goto(c, to) == cmd' = [cmd EXCEPT ![c].pc = to]

-----------------------------------------------------------------------------
(* execMiddleware, one step per call it makes                              *)

\* The interpreter waits for no foreground command.
Prompt == \A c \in Commands : cmd[c].bg \/ cmd[c].pc \in {"idle", "ended"}

\* The interpreter reaches a command: no statement begins after the cancel.
Invoke(c) ==
    /\ jpc = "run"
    /\ ~cancelled
    /\ Prompt
    /\ cmd[c].pc = "idle"
    /\ \E bg \in BOOLEAN :
          cmd' = [cmd EXCEPT ![c].pc = "invoked", ![c].bg = bg,
                             ![c].env = RunWithEnv, ![c].shell = shell]
    /\ UNCHANGED <<scene, jobVars, proc, tracked, jobByPid, doomed, stdin, call>>

\* cmd.Start: refused when the context has ended, and when the program is not
\* found, which is looked for in the worker's own PATH.
StartFails(c) ==
    /\ cmd[c].pc = "invoked"
    /\ cmd' = [cmd EXCEPT ![c].pc = "ended", ![c].status = 127]
    /\ UNCHANGED <<scene, jobVars, proc, tracked, jobByPid, doomed, stdin, call>>

Start(c) ==
    /\ cmd[c].pc = "invoked"
    /\ ~cancelled
    /\ scene.environ["PATH"] # Unset
    /\ Set(c, [proc[c] EXCEPT !.child = "live"])
    /\ cmd' = [cmd EXCEPT ![c].pc = "started", ![c].watch = "armed"]
    /\ UNCHANGED <<scene, jobVars, tracked, jobByPid, doomed, stdin, call>>

\* treeHandle.attach: the pid, and then, on windows, the Job Object, each step
\* of which may fail and leave the handle without one.
Attach(c) ==
    /\ cmd[c].pc = "started"
    /\ cmd' = [cmd EXCEPT ![c].pc = IF unix THEN "attached" ELSE "assign",
                          ![c].pid = TRUE]
    /\ UNCHANGED <<scene, jobVars, proc, tracked, jobByPid, doomed, stdin, call>>

Assign(c) ==
    /\ cmd[c].pc = "assign"
    /\ \/ /\ cmd' = [cmd EXCEPT ![c].pc = "attached", ![c].job = "open"]
          /\ jobByPid' = jobByPid \cup {c}
          /\ proc[c].child = "live"
       \/ /\ Goto(c, "attached")
          /\ UNCHANGED jobByPid
    /\ UNCHANGED <<scene, jobVars, proc, tracked, doomed, stdin, call>>

track(c) ==
    /\ cmd[c].pc = "attached"
    /\ tracked' = tracked \cup {c}
    /\ Goto(c, "wait")
    /\ UNCHANGED <<scene, jobVars, proc, jobByPid, doomed, stdin, call>>

\* watchCtx: Cancel is called, and returns nil whatever terminate found.
Cancel(c) ==
    /\ cmd[c].watch = "armed"
    /\ cancelled
    /\ \E p \in Terminate(c) : Set(c, p)
    /\ cmd' = [cmd EXCEPT ![c].watch = IF cmd[c].pid THEN "fired" ELSE "missed"]
    /\ UNCHANGED <<scene, jobVars, tracked, jobByPid, doomed, stdin, call>>

\* Mutant of KillAfterDelay: no WaitDelay.
NoWaitDelay(c) == FALSE /\ UNCHANGED vars

\* watchCtx, WaitDelay later: Process.Kill, of the direct child alone.
KillAfterDelay(c) ==
    /\ cmd[c].watch \in {"fired", "missed"}
    /\ proc[c].child = "live"
    /\ Set(c, Killed(proc[c]))
    /\ UNCHANGED <<scene, jobVars, cmd, tracked, jobByPid, doomed, stdin, call>>

\* cmd.Wait: the child is reaped and the watcher stopped, which may have seen
\* the context end or not.
Reap(c) ==
    /\ cmd[c].pc = "wait"
    /\ proc[c].child # "live"
    /\ cmd' = [cmd EXCEPT ![c].pc = "reaped",
                          ![c].watch = IF @ = "armed" THEN "off" ELSE @]
    /\ UNCHANGED <<scene, jobVars, proc, tracked, jobByPid, doomed, stdin, call>>

\* cmd.Wait, awaitGoroutines: the output ends with the last process that holds
\* it, or WaitDelay passes and Wait fails.
Cut(c) == proc[c].kid \in Live

\* Mutant of Status: the exit code alone.
StatusByCode(c) == proc[c].code % 256

\* The status execMiddleware makes of Wait's error.  ExitStatus is a byte.
Status(c) ==
    CASE proc[c].code = 0 /\ cmd[c].watch = "off" /\ ~Cut(c) -> 0
      [] OTHER -> IF cancelled THEN 130
                  ELSE IF proc[c].code # 0 THEN proc[c].code % 256
                  ELSE 127

\* treeHandle.close ends what is left in the Job Object (KILL_ON_JOB_CLOSE).
close(c) == IF cmd[c].job = "open" THEN KillJob(c) ELSE proc[c]

\* Mutant of Return: the deferred untrack and close are missing.
NoDefer(c) ==
    /\ cmd[c].pc = "reaped"
    /\ cmd' = [cmd EXCEPT ![c].pc = "ended", ![c].status = Status(c), ![c].cut = Cut(c)]
    /\ UNCHANGED <<scene, jobVars, proc, tracked, jobByPid, doomed, stdin, call>>

\* Wait and execMiddleware return; the deferred untrack and treeHandle.close.
Return(c) ==
    /\ cmd[c].pc = "reaped"
    /\ cmd' = [cmd EXCEPT ![c].pc = "ended", ![c].status = Status(c),
                          ![c].cut = Cut(c),
                          ![c].job = IF @ = "open" THEN "closed" ELSE @]
    /\ tracked' = tracked \ {c}
    /\ jobByPid' = jobByPid \ {c}
    /\ Set(c, close(c))
    /\ UNCHANGED <<scene, jobVars, doomed, stdin, call>>

\* Runner.KillAll (no handler calls it): a snapshot of the pids under the lock,
KillAll ==
    /\ doomed = {}
    /\ tracked # {}
    /\ doomed' = tracked
    /\ UNCHANGED <<scene, jobVars, cmd, proc, tracked, jobByPid, stdin, call>>

\* and killProcessTree for each: of the group, or of a registered Job Object.
killProcessTree(c) ==
    /\ c \in doomed
    /\ doomed' = doomed \ {c}
    /\ jobByPid' = jobByPid \ {c}
    /\ Set(c, IF unix THEN KillGroup(c)
              ELSE IF c \in jobByPid THEN KillJob(c) ELSE proc[c])
    /\ UNCHANGED <<scene, jobVars, cmd, tracked, stdin, call>>

-----------------------------------------------------------------------------
(* The processes                                                           *)

Spawn(c) ==
    /\ proc[c].child = "live"
    /\ proc[c].kid = "none"
    /\ Set(c, [proc[c] EXCEPT !.kid = IF unix \/ cmd[c].job = "open"
                                      THEN "live" ELSE "early"])
    /\ UNCHANGED <<scene, jobVars, cmd, tracked, jobByPid, doomed, stdin, call>>

Exit(c) ==
    /\ \/ /\ proc[c].child = "live"
          /\ \E n \in Codes[scene.os] :
                Set(c, [proc[c] EXCEPT !.child = "dead", !.code = n])
       \/ /\ proc[c].kid \in Live
          /\ Set(c, [proc[c] EXCEPT !.kid = "gone"])
    /\ UNCHANGED <<scene, jobVars, cmd, tracked, jobByPid, doomed, stdin, call>>

-----------------------------------------------------------------------------
(* The interpreter and the end of the job                                  *)

\* export V=..., a builtin statement: it changes the interpreter's variables
\* only.
Export(v) ==
    /\ jpc = "run"
    /\ ~cancelled
    /\ Prompt
    /\ v \in scene.exports
    /\ shell[v] # "script"
    /\ shell' = [shell EXCEPT ![v] = "script"]
    /\ UNCHANGED <<scene, cancelled, jpc, state, exit, procVars, stdin, call>>

\* runner.Run returns once no foreground command runs: the status of the last
\* command or of a builtin, or the context's error; exitCodeOf, and the
\* ExitCode of the job.
ScriptEnds ==
    /\ jpc = "run"
    /\ Prompt
    /\ exit' \in {0} \cup {cmd[c].status : c \in {b \in Commands : ~cmd[b].bg}}
                     \cup (IF cancelled THEN {130} ELSE {})
    /\ jpc' = "classify"
    /\ UNCHANGED <<scene, cancelled, state, shell, procVars, stdin, call>>

\* Mutant of Classify: the state is only written to the store.
StateNotSet ==
    /\ jpc = "classify"
    /\ jpc' = "closing"
    /\ UNCHANGED <<scene, cancelled, state, exit, shell, procVars, stdin, call>>

\* job.State, after job.ExitCode.  The script has been parsed, so RunWithEnv
\* returned no error; the end of one that does not parse is in Job.
Classify ==
    /\ jpc = "classify"
    /\ state' = IF cancelled THEN "killed"
                ELSE IF exit = 0 THEN "done" ELSE "failed"
    /\ jpc' = "closing"
    /\ UNCHANGED <<scene, cancelled, exit, shell, procVars, stdin, call>>

\* Mutant of CloseStdin: w.Close is not deferred.
StdinLeftOpen ==
    /\ jpc = "closing"
    /\ jpc' = "ending"
    /\ UNCHANGED <<scene, cancelled, state, exit, shell, procVars, stdin, call>>

\* The deferred w.Close and close(done).
CloseStdin ==
    /\ jpc = "closing"
    /\ stdin' = [stdin EXCEPT !.open = FALSE]
    /\ jpc' = "ending"
    /\ UNCHANGED <<scene, cancelled, state, exit, shell, procVars, call>>

CloseDone ==
    /\ jpc = "ending"
    /\ jpc' = "done"
    /\ UNCHANGED <<scene, cancelled, state, exit, shell, procVars, stdin, call>>

-----------------------------------------------------------------------------
(* JobKill, JobWait, JobStdin                                              *)

JobKill ==
    /\ ~cancelled
    /\ cancelled' = TRUE
    /\ UNCHANGED <<scene, jpc, state, exit, shell, procVars, stdin, call>>

done == jpc = "done"

Call(r) ==
    /\ call[r].pc = "idle"
    /\ \E op \in {"poll", "write", "shut"} :
          call' = [call EXCEPT ![r].pc = op, ![r].late = done /\ op = "poll"]
    /\ UNCHANGED <<scene, jobVars, procVars, stdin>>

Answer(r, st, ex) ==
    call' = [call EXCEPT ![r].pc = "answered", ![r].state = st, ![r].exit = ex]

\* What an unsynchronised read of State can return while Classify is near: a
\* string is two words.
RacyStates == CASE jpc \in {"run", "classify"} -> {"running"}
                [] done                        -> {state}
                [] OTHER                       -> {"running", "torn", state}
RacyExits == IF jpc = "run" \/ done THEN {exit} ELSE {0, exit}

\* Mutant of JobWait: no deadline.
PollForever(r) ==
    /\ call[r].pc = "poll"
    /\ done
    /\ Answer(r, state, exit)
    /\ UNCHANGED <<scene, jobVars, procVars, stdin>>

\* One turn of the poll loop: the done channel, the deadline, the sleep.
JobWait(r) ==
    /\ call[r].pc = "poll"
    /\ \/ /\ done
          /\ Answer(r, state, exit)
       \/ /\ ~done
          /\ call[r].i >= Iters
          /\ \E st \in RacyStates, ex \in RacyExits : Answer(r, st, ex)
       \/ /\ ~done
          /\ call[r].i < Iters
          /\ call' = [call EXCEPT ![r].i = @ + 1]
    /\ UNCHANGED <<scene, jobVars, procVars, stdin>>

\* The caller hangs up: JobWait sees ctx.Done in its sleep, JobStdin does not.
HangUp(r) ==
    /\ call[r].pc = "poll"
    /\ ~done
    /\ call' = [call EXCEPT ![r].pc = "idle", ![r].i = 0]
    /\ UNCHANGED <<scene, jobVars, procVars, stdin>>

\* Job.Stdin: the write ends when the copier takes the data or the pipe is
\* closed; with Close the pipe is closed.  The caller may call again.
JobStdin(r) ==
    /\ \/ /\ call[r].pc = "write"
          /\ stdin.open
          /\ stdin.held < PipeCap
          /\ stdin' = [stdin EXCEPT !.held = @ + 1]
          /\ call' = [call EXCEPT ![r].pc = "idle"]
       \/ /\ call[r].pc = "write"
          /\ ~stdin.open
          /\ call' = [call EXCEPT ![r].pc = "idle"]
          /\ UNCHANGED stdin
       \/ /\ call[r].pc = "shut"
          /\ stdin' = [stdin EXCEPT !.open = FALSE]
          /\ call' = [call EXCEPT ![r].pc = "idle"]
    /\ UNCHANGED <<scene, jobVars, procVars>>

\* A command reads what the interpreter's copier has passed on.
Consume(c) ==
    /\ proc[c].child = "live"
    /\ stdin.held > 0
    /\ stdin' = [stdin EXCEPT !.held = @ - 1]
    /\ UNCHANGED <<scene, jobVars, procVars, call>>

-----------------------------------------------------------------------------
Init ==
    /\ scene \in Scenes
    /\ cancelled = FALSE
    /\ jpc = "run"
    /\ state = "running"
    /\ exit = 0
    /\ shell = RunWithEnv
    /\ cmd = [c \in Commands |->
                [pc |-> "idle", bg |-> FALSE, watch |-> "none", pid |-> FALSE,
                 job |-> "none", cut |-> FALSE, status |-> 0,
                 env |-> RunWithEnv, shell |-> shell]]
    /\ proc = [c \in Commands |-> [child |-> "none", code |-> 0, kid |-> "none"]]
    /\ tracked = {}
    /\ jobByPid = {}
    /\ doomed = {}
    /\ stdin = [open |-> TRUE, held |-> 0]
    /\ call = [r \in Callers |->
                 [pc |-> "idle", i |-> 0, late |-> FALSE,
                  state |-> "none", exit |-> 0]]

\* What the worker and its library do about a command.
Serve(c) ==
    \/ StartFails(c) \/ Start(c) \/ Attach(c) \/ Assign(c) \/ track(c)
    \/ Cancel(c) \/ KillAfterDelay(c) \/ Reap(c) \/ Return(c)

EndJob == Classify \/ CloseStdin \/ CloseDone

Next ==
    \/ \E c \in Commands : Invoke(c) \/ Serve(c) \/ Spawn(c) \/ Exit(c)
                           \/ killProcessTree(c) \/ Consume(c)
    \/ \E v \in Vars : Export(v)
    \/ \E r \in Callers : Call(r) \/ JobWait(r) \/ HangUp(r) \/ JobStdin(r)
    \/ ScriptEnds \/ EndJob \/ KillAll \/ JobKill

\* Goroutines and timers run.  Nothing is assumed of the script, which may run
\* for ever unless it is cancelled, of its processes, or of the callers.
Fairness ==
    /\ \A c \in Commands : WF_vars(Serve(c)) /\ WF_vars(Cancel(c))
                           /\ WF_vars(KillAfterDelay(c))
    /\ WF_vars(cancelled /\ ScriptEnds)
    /\ WF_vars(EndJob)
    /\ \A r \in Callers : WF_vars(JobWait(r)) /\ WF_vars(JobStdin(r))

Spec == Init /\ [][Next]_vars /\ Fairness

-----------------------------------------------------------------------------
\* A command's environment (jobEnv, RunWithEnv, cmd.Env) holds nothing of the
\* worker's own but the allowlist, what the request sets it holds, and a unix
\* command has a PATH, whatever the script has run before it.
EnvConfined ==
    \A c \in Commands, v \in Vars : cmd[c].pc # "idle" =>
        /\ cmd[c].env[v] = "worker" => v \in Pass \cup WinPass
        /\ scene.request[v] # Unset => cmd[c].env[v] = scene.request[v]
        /\ unix => cmd[c].env["PATH"] # Unset

\* A command that execMiddleware reports as successful was not cut short: its
\* child exited by itself before any cancel was acted on, and its output was
\* read to the end; or its exit code is a multiple of 256 (ExitStatus).
StatusHonest ==
    \A c \in Commands :
        cmd[c].pc = "ended" /\ cmd[c].status = 0 =>
            /\ proc[c].child = "dead"
            /\ proc[c].code \in Codes[scene.os]
            /\ proc[c].code % 256 = 0
            /\ proc[c].code = 0 => cmd[c].watch = "off" /\ ~cmd[c].cut

\* terminate takes the tree with it: once it has run with a pid, no descendant
\* it can reach is alive when the command returns, in the group on unix, in the
\* Job Object on windows.
KillTakesTree ==
    \A c \in Commands :
        cmd[c].pc = "ended" /\ (cmd[c].watch = "fired" \/ cmd[c].job = "closed")
            => proc[c].kid # "live"

\* A command that has returned left no running child, no entry in Runner.childs
\* or in the registry, and no open Job Object; a running child always has
\* someone who will notice the cancel (watchCtx).
NothingAbandoned ==
    \A c \in Commands :
        /\ cmd[c].pc = "ended" =>
              /\ proc[c].child # "live"
              /\ c \notin tracked \cup jobByPid
              /\ cmd[c].job # "open"
        /\ proc[c].child = "live" => cmd[c].watch \in {"armed", "fired", "missed"}

\* A JobWait that begins after the job has ended answers its final state and
\* exit code, and no JobWait answers a final state that is not the job's.
WaitFinal ==
    \A r \in Callers : call[r].pc = "answered" =>
        /\ call[r].late => /\ call[r].state = state
                           /\ call[r].exit = exit
                           /\ state = "done" => exit = 0
                           /\ state # "running"
        /\ call[r].state \in {"running", "torn", state}

\* JobKill ends the job, the children of its background commands too, whatever
\* they do (Cancel, and Process.Kill after WaitDelay).
KillEnds ==
    cancelled ~> (done /\ \A c \in Commands : proc[c].child # "live")

\* JobWait answers, whether the job ends or not (the count of polls).
WaitEnds == \A r \in Callers : call[r].pc = "poll" ~> call[r].pc # "poll"

\* A JobStdin blocked on a pipe nobody reads returns when the job ends
\* (the deferred w.Close).
StdinReleased ==
    \A r \in Callers : (done /\ call[r].pc = "write") ~> call[r].pc # "write"

\* What the comment in execMiddleware says, "Kill the whole tree on ctx cancel
\* via the per-command handle ... race-free": a command that ended because of
\* the cancel left no descendant.
KilledTreeIsGone ==
    \A c \in Commands :
        cmd[c].pc = "ended" /\ cmd[c].watch \in {"fired", "missed"}
            => proc[c].kid \notin Live

\* What the package comment says, "identical bash semantics": a command sees
\* what the script has exported before it.
ExportsReachChildren ==
    \A c \in Commands : cmd[c].pc # "idle" => cmd[c].env = cmd[c].shell
=============================================================================

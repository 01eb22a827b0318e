----------------------------- MODULE ExecProofs -----------------------------
(***************************************************************************)
(* Proofs about Exec: what a command, its processes and the handle that    *)
(* kills them may be in together, for every number of commands and calls,  *)
(* on both platforms and for every allowlist and every environment.        *)
(***************************************************************************)
EXTENDS Exec, TLAPS

-----------------------------------------------------------------------------
(* The invariant                                                           *)

Environs == [Vars -> {Unset, "worker", "bundle", "default", "request", "script"}]

\* Control of execMiddleware while the command has a process.
Running == {"started", "assign", "attached", "wait"}

CmdType == [pc : {"idle", "invoked", "reaped", "ended"} \cup Running, bg : BOOLEAN,
            watch : {"none", "armed", "fired", "missed", "off"}, pid : BOOLEAN,
            job : {"none", "open", "closed"}, cut : BOOLEAN, status : Int,
            env : Environs, shell : Environs]

ProcType == [child : {"none", "live", "dead"}, code : Int,
             kid : {"none", "live", "early", "gone"}]

\* The code of a process that was killed.
KillCode == IF unix THEN -1 ELSE 1

\* The context is watched from Start until Reap, and so while a child runs.
WatchInv(k, p) ==
    /\ k.pc \in {"idle", "invoked"} => p.child = "none" /\ k.watch = "none"
    /\ k.pc \in Running \cup {"reaped"} => p.child # "none"
    /\ p.child = "live" => k.pc \in Running /\ k.watch \in {"armed", "fired", "missed"}
    /\ k.watch = "armed" => k.pc \in Running

\* A child that is dead exited by itself or was killed.
CodeInv(p) == p.child = "dead" => p.code \in Codes[scene.os] \cup {KillCode}

\* On unix the group dies with the child when the cancel is acted on; on
\* windows a descendant in reach is in a Job Object that is open until Return.
TreeInv(k, p) ==
    /\ p.child = "none" => p.kid = "none"
    /\ unix => k.job = "none" /\ k.pc # "assign"
    /\ unix /\ k.watch = "fired" => p.child # "live" /\ p.kid # "live"
    /\ ~unix /\ p.kid = "live" => k.job = "open"
    /\ k.job = "open" => k.pc \in {"attached", "wait", "reaped"}
    /\ k.job = "closed" => k.pc = "ended"

\* Runner.childs and the registry hold what has been started and not returned.
BooksInv(k, t, j) ==
    /\ t => k.pc \in {"wait", "reaped"}
    /\ j => k.job = "open"

\* What a status of 0 says of the command.
Honest(k, p) ==
    k.pc = "ended" /\ k.status = 0 =>
        /\ p.child = "dead"
        /\ p.code \in Codes[scene.os]
        /\ p.code % 256 = 0
        /\ p.code = 0 => k.watch = "off" /\ ~k.cut

\* One command: its record, its processes, and whether it is tracked and
\* registered.
CmdInv(k, p, t, j) ==
    /\ WatchInv(k, p)
    /\ CodeInv(p)
    /\ TreeInv(k, p)
    /\ BooksInv(k, t, j)
    /\ Honest(k, p)
    /\ k.env = RunWithEnv

CommandsInv ==
    \A c \in Commands : CmdInv(cmd[c], proc[c], c \in tracked, c \in jobByPid)

TypeInv ==
    /\ scene \in Scenes
    /\ cancelled \in BOOLEAN
    /\ shell \in Environs
    /\ cmd \in [Commands -> CmdType]
    /\ proc \in [Commands -> ProcType]

\* The goroutine's state, and what the calls have been told of it.
CallType == [pc : {"idle", "poll", "write", "shut", "answered"}, i : Nat,
             late : BOOLEAN,
             state : {"none", "running", "torn", "killed", "done", "failed"},
             exit : Int]

EndInv ==
    /\ jpc \in {"run", "classify", "closing", "ending", "done"}
    /\ exit \in Int
    /\ jpc \in {"run", "classify"} => state = "running"
    /\ jpc \notin {"run", "classify"} =>
          state \in {"killed", "done", "failed"} /\ (state = "done" => exit = 0)

CallInv(k) ==
    /\ k.late => done
    /\ k.pc = "answered" =>
          /\ k.late => k.state = state /\ k.exit = exit
          /\ k.state \in {"running", "torn", state}

CallsInv == call \in [Callers -> CallType] /\ \A r \in Callers : CallInv(call[r])

Inv == TypeInv /\ CommandsInv /\ EndInv /\ CallsInv

-----------------------------------------------------------------------------
(* A step of one command                                                   *)

\* The environment of a job is made once, from the scene.
LEMMA SceneFixed ==
    ASSUME scene' = scene
    PROVE  RunWithEnv' = RunWithEnv /\ unix' = unix /\ KillCode' = KillCode
<1>1. unix' = unix
  BY DEF unix
<1>2. jobEnv' = jobEnv
  BY <1>1 DEF jobEnv
<1>3. RunWithEnv' = RunWithEnv
  BY <1>2 DEF RunWithEnv
<1> QED BY <1>1, <1>3 DEF KillCode

\* A step that concerns one command leaves the others as they are.
LEMMA OneCommand ==
    ASSUME TypeInv, CommandsInv, NEW c \in Commands,
           NEW k \in CmdType, NEW p \in ProcType,
           cmd' = [cmd EXCEPT ![c] = k], proc' = [proc EXCEPT ![c] = p],
           scene' = scene, cancelled' = cancelled, shell' = shell,
           \A d \in Commands \ {c} : /\ d \in tracked' <=> d \in tracked
                                     /\ d \in jobByPid' <=> d \in jobByPid,
           CmdInv(k, p, c \in tracked', c \in jobByPid')
    PROVE  TypeInv' /\ CommandsInv'
<1>1. /\ cmd' \in [Commands -> CmdType] /\ proc' \in [Commands -> ProcType]
      /\ cmd'[c] = k /\ proc'[c] = p
      /\ \A d \in Commands \ {c} : cmd'[d] = cmd[d] /\ proc'[d] = proc[d]
  BY DEF TypeInv
<1>2. TypeInv'
  BY <1>1 DEF TypeInv
<1>3. CommandsInv'
  <2>1. SUFFICES ASSUME NEW d \in Commands
                 PROVE  CmdInv(cmd[d], proc[d], d \in tracked, d \in jobByPid)'
    BY DEF CommandsInv
  <2>2. CASE d = c
    BY <1>1, <2>2, SceneFixed
       DEF CmdInv, WatchInv, CodeInv, TreeInv, BooksInv, Honest
  <2>3. CASE d # c
    BY <1>1, <2>3, SceneFixed
       DEF CommandsInv, CmdInv, WatchInv, CodeInv, TreeInv, BooksInv, Honest
  <2> QED BY <2>2, <2>3
<1> QED BY <1>2, <1>3

\* A step that leaves the commands and their processes alone.
LEMMA NoCommand ==
    ASSUME TypeInv, CommandsInv, UNCHANGED <<scene, cmd, proc, tracked, jobByPid>>,
           cancelled' \in BOOLEAN, shell' \in Environs
    PROVE  TypeInv' /\ CommandsInv'
<1>1. TypeInv'
  BY DEF TypeInv
<1>2. CommandsInv'
  BY SceneFixed DEF CommandsInv, CmdInv, WatchInv, CodeInv, TreeInv, BooksInv, Honest
<1> QED BY <1>1, <1>2

-----------------------------------------------------------------------------
(* The steps of a command                                                  *)

\* What a kill may do to the processes of a command: a running child dies with
\* the code of a killed process, a running descendant is gone.
Killing(p, q) ==
    /\ q \in ProcType
    /\ \/ q.child = p.child /\ q.code = p.code
       \/ p.child = "live" /\ q.child = "dead" /\ q.code = KillCode
    /\ q.kid = p.kid \/ (p.kid \in Live /\ q.kid = "gone")

\* The kills of the model, and what each of them is sure to reach.
LEMMA Kills ==
    ASSUME TypeInv, NEW c \in Commands
    PROVE  /\ Killing(proc[c], proc[c])
           /\ Killing(proc[c], Killed(proc[c]))
           /\ Killing(proc[c], KillGroup(c))
           /\ KillGroup(c).child # "live" /\ KillGroup(c).kid \notin Live
           /\ Killing(proc[c], KillJob(c))
           /\ KillJob(c).child # "live" /\ KillJob(c).kid # "live"
           /\ Killing(proc[c], TaskKill(c))
<1>1. proc[c] \in ProcType
  BY DEF TypeInv
<1>2. Killing(proc[c], proc[c])
  BY <1>1 DEF Killing
<1>3. /\ Killed(proc[c]) \in ProcType
      /\ Killed(proc[c]).kid = proc[c].kid
      /\ Killed(proc[c]).child # "live"
      /\ \/ Killed(proc[c]) = proc[c]
         \/ /\ proc[c].child = "live" /\ Killed(proc[c]).child = "dead"
            /\ Killed(proc[c]).code = KillCode
  <2>1. CASE proc[c].child = "live"
    <3>1. Killed(proc[c]) = [proc[c] EXCEPT !.child = "dead", !.code = KillCode]
      BY <2>1 DEF Killed, KillCode
    <3>2. KillCode \in Int
      BY DEF KillCode
    <3> QED BY <1>1, <2>1, <3>1, <3>2 DEF ProcType
  <2>2. CASE proc[c].child # "live"
    BY <1>1, <2>2 DEF Killed
  <2> QED BY <2>1, <2>2
<1>4. /\ KillGroup(c) \in ProcType
      /\ KillGroup(c).kid = Gone(proc[c].kid)
      /\ KillGroup(c).child = Killed(proc[c]).child
      /\ KillGroup(c).code = Killed(proc[c]).code
  BY <1>3 DEF KillGroup, ProcType, Gone
<1>5. /\ KillJob(c) \in ProcType
      /\ KillJob(c).kid = IF proc[c].kid = "live" THEN "gone" ELSE proc[c].kid
      /\ KillJob(c).child = Killed(proc[c]).child
      /\ KillJob(c).code = Killed(proc[c]).code
  BY <1>3 DEF KillJob, ProcType
<1>6. /\ Killing(proc[c], KillGroup(c)) /\ KillGroup(c).kid \notin Live
      /\ Killing(proc[c], KillJob(c)) /\ KillJob(c).kid # "live"
  BY <1>3, <1>4, <1>5 DEF Killing, Gone, Live
<1>7. Killing(proc[c], Killed(proc[c]))
  BY <1>3 DEF Killing
<1>8. Killing(proc[c], TaskKill(c))
  BY <1>2, <1>6 DEF TaskKill
<1> QED BY <1>2, <1>3, <1>4, <1>5, <1>6, <1>7, <1>8

\* A kill keeps what is known of a command.
LEMMA KillKeeps ==
    ASSUME NEW k \in CmdType, NEW p \in ProcType, NEW q, Killing(p, q),
           NEW t, NEW j, CmdInv(k, p, t, j)
    PROVE  q \in ProcType /\ CmdInv(k, q, t, j)
  BY DEF Killing, CmdInv, WatchInv, CodeInv, TreeInv, BooksInv, Honest, ProcType, CmdType, Live

\* Invoke, StartFails, Attach, Assign, track and Reap change the control record
\* of the command, and the books.
LEMMA ControlStep ==
    ASSUME Inv, NEW c \in Commands,
           Invoke(c) \/ StartFails(c) \/ Attach(c) \/ Assign(c) \/ track(c) \/ Reap(c)
    PROVE  TypeInv' /\ CommandsInv'
<1> DEFINE k0 == cmd[c]
           p0 == proc[c]
<1>0. /\ TypeInv /\ CommandsInv
      /\ k0 \in CmdType /\ p0 \in ProcType
      /\ CmdInv(k0, p0, c \in tracked, c \in jobByPid)
      /\ proc = [proc EXCEPT ![c] = p0]
      /\ cmd \in [Commands -> CmdType]
      /\ shell \in Environs
  BY DEF Inv, TypeInv, CommandsInv
<1>e. RunWithEnv = k0.env /\ k0.env \in Environs
  BY <1>0 DEF CmdInv, CmdType
<1>1. CASE Invoke(c)
  <2>1. PICK bg \in BOOLEAN :
          cmd' = [cmd EXCEPT ![c].pc = "invoked", ![c].bg = bg,
                             ![c].env = RunWithEnv, ![c].shell = shell]
    BY <1>1 DEF Invoke
  <2> DEFINE k == [k0 EXCEPT !.pc = "invoked", !.bg = bg, !.env = RunWithEnv,
                             !.shell = shell]
  <2>2. cmd' = [cmd EXCEPT ![c] = k] /\ k \in CmdType
    BY <1>0, <1>e, <2>1 DEF CmdType
  <2>3. k0.pc = "idle"
    BY <1>1 DEF Invoke
  <2>4. CmdInv(k, p0, c \in tracked, c \in jobByPid)
    BY <1>0, <1>e, <2>3 DEF CmdInv, WatchInv, CodeInv, TreeInv, BooksInv, Honest, CmdType, Running
  <2>5. UNCHANGED <<scene, cancelled, shell, proc, tracked, jobByPid>>
    BY <1>1 DEF Invoke, jobVars
  <2> HIDE DEF k, k0, p0
  <2> QED BY <1>0, <2>2, <2>4, <2>5, OneCommand
<1>2. CASE StartFails(c)
  <2> DEFINE k == [k0 EXCEPT !.pc = "ended", !.status = 127]
  <2>1. 127 \in Int
    OBVIOUS
  <2>2. cmd' = [cmd EXCEPT ![c] = k] /\ k \in CmdType
    BY <1>0, <1>2, <2>1 DEF StartFails, CmdType
  <2>3. k0.pc = "invoked"
    BY <1>2 DEF StartFails
  <2>4. CmdInv(k, p0, c \in tracked, c \in jobByPid)
    BY <1>0, <2>3 DEF CmdInv, WatchInv, CodeInv, TreeInv, BooksInv, Honest, CmdType, Running
  <2>5. UNCHANGED <<scene, cancelled, shell, proc, tracked, jobByPid>>
    BY <1>2 DEF StartFails, jobVars
  <2> HIDE DEF k, k0, p0
  <2> QED BY <1>0, <2>2, <2>4, <2>5, OneCommand
<1>3. CASE Attach(c)
  <2> DEFINE k == [k0 EXCEPT !.pc = IF unix THEN "attached" ELSE "assign", !.pid = TRUE]
  <2>2. cmd' = [cmd EXCEPT ![c] = k] /\ k \in CmdType
    BY <1>0, <1>3 DEF Attach, CmdType, Running
  <2>3. k0.pc = "started"
    BY <1>3 DEF Attach
  <2>4. CmdInv(k, p0, c \in tracked, c \in jobByPid)
    BY <1>0, <2>3 DEF CmdInv, WatchInv, CodeInv, TreeInv, BooksInv, Honest, CmdType, Running
  <2>5. UNCHANGED <<scene, cancelled, shell, proc, tracked, jobByPid>>
    BY <1>3 DEF Attach, jobVars
  <2> HIDE DEF k, k0, p0
  <2> QED BY <1>0, <2>2, <2>4, <2>5, OneCommand
<1>4. CASE Assign(c)
  <2>1. /\ k0.pc = "assign" /\ UNCHANGED <<scene, jobVars, proc, tracked>>
        /\ \/ /\ cmd' = [cmd EXCEPT ![c].pc = "attached", ![c].job = "open"]
              /\ jobByPid' = jobByPid \cup {c}
           \/ /\ cmd' = [cmd EXCEPT ![c].pc = "attached"]
              /\ jobByPid' = jobByPid
    BY <1>4 DEF Assign, Goto
  <2>2. PICK jb \in {k0.job, "open"} :
          /\ cmd' = [cmd EXCEPT ![c] = [k0 EXCEPT !.pc = "attached", !.job = jb]]
          /\ \/ jb = "open" /\ jobByPid' = jobByPid \cup {c}
             \/ jb = k0.job /\ jobByPid' = jobByPid
    BY <1>0, <2>1 DEF CmdType
  <2> DEFINE k == [k0 EXCEPT !.pc = "attached", !.job = jb]
  <2>3. k \in CmdType
    BY <1>0 DEF CmdType, Running
  <2>4. CmdInv(k, p0, c \in tracked, c \in jobByPid')
    BY <1>0, <2>1, <2>2 DEF CmdInv, WatchInv, CodeInv, TreeInv, BooksInv, Honest, CmdType, Running
  <2> QED BY <1>0, <2>1, <2>2, <2>3, <2>4, OneCommand DEF jobVars
<1>5. CASE track(c)
  <2> DEFINE k == [k0 EXCEPT !.pc = "wait"]
  <2>2. cmd' = [cmd EXCEPT ![c] = k] /\ k \in CmdType
    BY <1>0, <1>5 DEF track, Goto, CmdType, Running
  <2>3. k0.pc = "attached"
    BY <1>5 DEF track
  <2>4. CmdInv(k, p0, c \in tracked', c \in jobByPid)
    BY <1>0, <2>3 DEF CmdInv, WatchInv, CodeInv, TreeInv, BooksInv, Honest, CmdType, Running
  <2> QED BY <1>0, <1>5, <2>2, <2>4, OneCommand DEF track, jobVars
<1>6. CASE Reap(c)
  <2> DEFINE k == [k0 EXCEPT !.pc = "reaped",
                             !.watch = IF @ = "armed" THEN "off" ELSE @]
  <2>2. cmd' = [cmd EXCEPT ![c] = k] /\ k \in CmdType
    BY <1>0, <1>6 DEF Reap, CmdType
  <2>3. k0.pc = "wait" /\ p0.child # "live"
    BY <1>6 DEF Reap
  <2>4. CmdInv(k, p0, c \in tracked, c \in jobByPid)
    BY <1>0, <2>3 DEF CmdInv, WatchInv, CodeInv, TreeInv, BooksInv, Honest, CmdType, Running
  <2>5. UNCHANGED <<scene, cancelled, shell, proc, tracked, jobByPid>>
    BY <1>6 DEF Reap, jobVars
  <2> HIDE DEF k, k0, p0
  <2> QED BY <1>0, <2>2, <2>4, <2>5, OneCommand
<1> QED BY <1>1, <1>2, <1>3, <1>4, <1>5, <1>6

\* Start: the child runs and the context is watched.
LEMMA StartStep ==
    ASSUME Inv, NEW c \in Commands, Start(c)
    PROVE  TypeInv' /\ CommandsInv'
<1> DEFINE k0 == cmd[c]
           p0 == proc[c]
<1>0. /\ TypeInv /\ CommandsInv
      /\ k0 \in CmdType /\ p0 \in ProcType
      /\ CmdInv(k0, p0, c \in tracked, c \in jobByPid)
      /\ cmd = [cmd EXCEPT ![c] = k0]
      /\ cmd \in [Commands -> CmdType]
  BY DEF Inv, TypeInv, CommandsInv
<1> DEFINE k == [k0 EXCEPT !.pc = "started", !.watch = "armed"]
           p == [p0 EXCEPT !.child = "live"]
<1>1. /\ cmd' = [cmd EXCEPT ![c] = k] /\ k \in CmdType
      /\ proc' = [proc EXCEPT ![c] = p] /\ p \in ProcType
  BY <1>0 DEF Start, Set, CmdType, ProcType, Running
<1>2. k0.pc = "invoked"
  BY DEF Start
<1>3. CmdInv(k, p, c \in tracked, c \in jobByPid)
  BY <1>0, <1>2 DEF CmdInv, WatchInv, CodeInv, TreeInv, BooksInv, Honest,
     CmdType, ProcType, Running
<1>4. UNCHANGED <<scene, cancelled, shell, tracked, jobByPid>>
  BY DEF Start, jobVars
<1> HIDE DEF k, p, k0, p0
<1> QED BY <1>0, <1>1, <1>3, <1>4, OneCommand

\* Cancel: with a pid, what terminate reaches is dead before the watcher is
\* said to have fired.
LEMMA CancelStep ==
    ASSUME Inv, NEW c \in Commands, Cancel(c)
    PROVE  TypeInv' /\ CommandsInv'
<1> DEFINE k0 == cmd[c]
           p0 == proc[c]
<1>0. /\ TypeInv /\ CommandsInv
      /\ k0 \in CmdType /\ p0 \in ProcType
      /\ CmdInv(k0, p0, c \in tracked, c \in jobByPid)
      /\ cmd = [cmd EXCEPT ![c] = k0]
      /\ cmd \in [Commands -> CmdType]
  BY DEF Inv, TypeInv, CommandsInv
<1>1. PICK p \in Terminate(c) : proc' = [proc EXCEPT ![c] = p]
  BY DEF Cancel, Set
<1> DEFINE k == [k0 EXCEPT !.watch = IF k0.pid THEN "fired" ELSE "missed"]
<1>2. cmd' = [cmd EXCEPT ![c] = k] /\ k \in CmdType
  BY <1>0 DEF Cancel, CmdType
<1>3. /\ Killing(p0, p)
      /\ unix /\ k0.pid => p.child # "live" /\ p.kid # "live"
  BY <1>0, <1>1, Kills DEF Terminate, Live
<1>4. p \in ProcType /\ CmdInv(k0, p, c \in tracked, c \in jobByPid)
  BY <1>0, <1>3, KillKeeps
<1>5. k0.watch = "armed"
  BY DEF Cancel
<1>6. CmdInv(k, p, c \in tracked, c \in jobByPid)
  BY <1>0, <1>3, <1>4, <1>5 DEF CmdInv, WatchInv, CodeInv, TreeInv, BooksInv, Honest,
     CmdType, ProcType, Running
<1>7. UNCHANGED <<scene, cancelled, shell, tracked, jobByPid>>
  BY DEF Cancel, jobVars
<1> HIDE DEF k, k0, p0
<1> QED BY <1>0, <1>1, <1>2, <1>4, <1>6, <1>7, OneCommand

\* KillAfterDelay and KillAll's killProcessTree.
LEMMA KillStep ==
    ASSUME Inv, NEW c \in Commands, KillAfterDelay(c) \/ killProcessTree(c)
    PROVE  TypeInv' /\ CommandsInv'
<1> DEFINE k0 == cmd[c]
           p0 == proc[c]
<1>0. /\ TypeInv /\ CommandsInv
      /\ k0 \in CmdType /\ p0 \in ProcType
      /\ CmdInv(k0, p0, c \in tracked, c \in jobByPid)
      /\ cmd = [cmd EXCEPT ![c] = k0]
      /\ cmd \in [Commands -> CmdType]
  BY DEF Inv, TypeInv, CommandsInv
<1>1. PICK p : Killing(p0, p) /\ proc' = [proc EXCEPT ![c] = p]
  BY <1>0, Kills DEF KillAfterDelay, killProcessTree, Set
<1>2. p \in ProcType /\ CmdInv(k0, p, c \in tracked, c \in jobByPid)
  BY <1>0, <1>1, KillKeeps
<1>3. UNCHANGED <<scene, cancelled, shell, cmd, tracked>>
  BY DEF KillAfterDelay, killProcessTree, jobVars
<1>4. jobByPid' = jobByPid \/ jobByPid' = jobByPid \ {c}
  BY DEF KillAfterDelay, killProcessTree
<1>5. CmdInv(k0, p, c \in tracked', c \in jobByPid')
  BY <1>2, <1>3, <1>4 DEF CmdInv, BooksInv
<1> HIDE DEF k0, p0
<1> QED BY <1>0, <1>1, <1>2, <1>3, <1>4, <1>5, OneCommand

\* The child starts a descendant, or a process exits.
LEMMA ProcessStep ==
    ASSUME Inv, NEW c \in Commands, Spawn(c) \/ Exit(c)
    PROVE  TypeInv' /\ CommandsInv'
<1> DEFINE k0 == cmd[c]
           p0 == proc[c]
<1>0. /\ TypeInv /\ CommandsInv
      /\ k0 \in CmdType /\ p0 \in ProcType
      /\ CmdInv(k0, p0, c \in tracked, c \in jobByPid)
      /\ cmd = [cmd EXCEPT ![c] = k0]
      /\ cmd \in [Commands -> CmdType]
  BY DEF Inv, TypeInv, CommandsInv
<1>s. scene.os \in {"unix", "windows"} /\ Codes[scene.os] \subseteq Int
  BY <1>0, ExecAssumption DEF TypeInv
<1>1. UNCHANGED <<scene, cancelled, shell, cmd, tracked, jobByPid>>
  BY DEF Spawn, Exit, jobVars
<1>2. \E p \in ProcType : /\ proc' = [proc EXCEPT ![c] = p]
                          /\ CmdInv(k0, p, c \in tracked, c \in jobByPid)
  <2>1. CASE Spawn(c)
    <3> DEFINE p == [p0 EXCEPT !.kid = IF unix \/ k0.job = "open" THEN "live" ELSE "early"]
    <3>1. proc' = [proc EXCEPT ![c] = p] /\ p \in ProcType
      BY <1>0, <2>1 DEF Spawn, Set, ProcType
    <3>2. p0.child = "live" /\ p0.kid = "none"
      BY <2>1 DEF Spawn
    <3>3. CmdInv(k0, p, c \in tracked, c \in jobByPid)
      BY <1>0, <3>2 DEF CmdInv, WatchInv, CodeInv, TreeInv, BooksInv, Honest,
         CmdType, ProcType, Running
    <3> QED BY <3>1, <3>3
  <2>2. CASE Exit(c) /\ p0.child = "live"
              /\ \E n \in Codes[scene.os] :
                    Set(c, [proc[c] EXCEPT !.child = "dead", !.code = n])
    <3>1. PICK n \in Codes[scene.os] :
             proc' = [proc EXCEPT ![c] = [p0 EXCEPT !.child = "dead", !.code = n]]
      BY <2>2 DEF Set
    <3> DEFINE p == [p0 EXCEPT !.child = "dead", !.code = n]
    <3>2. n \in Int
      BY <1>s
    <3>3. p \in ProcType
      BY <1>0, <3>2 DEF ProcType
    <3>4. CmdInv(k0, p, c \in tracked, c \in jobByPid)
      BY <1>0, <2>2, <3>2 DEF CmdInv, WatchInv, CodeInv, TreeInv, BooksInv, Honest,
         CmdType, ProcType, Running
    <3> QED BY <3>1, <3>3, <3>4
  <2>3. CASE Exit(c) /\ p0.kid \in Live /\ Set(c, [proc[c] EXCEPT !.kid = "gone"])
    <3> DEFINE p == [p0 EXCEPT !.kid = "gone"]
    <3>1. proc' = [proc EXCEPT ![c] = p] /\ p \in ProcType
      BY <1>0, <2>3 DEF Set, ProcType
    <3>2. CmdInv(k0, p, c \in tracked, c \in jobByPid)
      BY <1>0, <2>3 DEF CmdInv, WatchInv, CodeInv, TreeInv, BooksInv, Honest,
         CmdType, ProcType, Running, Live
    <3> QED BY <3>1, <3>2
  <2> QED BY <2>1, <2>2, <2>3 DEF Exit
<1> HIDE DEF k0, p0
<1> QED BY <1>0, <1>1, <1>2, OneCommand

\* Return: the status of a command that was killed or cut short is not 0, and
\* the handle's close takes what is left of the Job Object.
LEMMA ReturnStep ==
    ASSUME Inv, NEW c \in Commands, Return(c)
    PROVE  TypeInv' /\ CommandsInv'
<1> DEFINE k0 == cmd[c]
           p0 == proc[c]
<1>0. /\ TypeInv /\ CommandsInv
      /\ k0 \in CmdType /\ p0 \in ProcType
      /\ CmdInv(k0, p0, c \in tracked, c \in jobByPid)
      /\ cmd = [cmd EXCEPT ![c] = k0]
      /\ cmd \in [Commands -> CmdType]
  BY DEF Inv, TypeInv, CommandsInv
<1> DEFINE k == [k0 EXCEPT !.pc = "ended", !.status = Status(c), !.cut = Cut(c),
                           !.job = IF @ = "open" THEN "closed" ELSE @]
           p == close(c)
<1>1. /\ k0.pc = "reaped" /\ p0.child = "dead" /\ p0.code \in Int
      /\ p0.code \in Codes[scene.os] \cup {KillCode}
  BY <1>0 DEF Return, CmdInv, WatchInv, CodeInv, CmdType, ProcType, Running
<1>2. /\ Status(c) \in Int
      /\ Status(c) = 0 =>
            /\ p0.code \in Codes[scene.os]
            /\ p0.code % 256 = 0
            /\ p0.code = 0 => k0.watch = "off" /\ ~Cut(c)
  <2>1. p0.code = KillCode => p0.code % 256 # 0
    BY DEF KillCode
  <2>2. p0.code % 256 \in Int
    BY <1>1
  <2>3. CASE p0.code = 0 /\ k0.watch = "off" /\ ~Cut(c)
    <3>1. Status(c) = 0
      BY <2>3 DEF Status
    <3>2. p0.code % 256 = 0
      BY <2>3
    <3> QED BY <1>1, <2>1, <2>3, <3>1, <3>2
  <2>4. CASE ~(p0.code = 0 /\ k0.watch = "off" /\ ~Cut(c))
    <3>1. Status(c) = IF cancelled THEN 130
                      ELSE IF p0.code # 0 THEN p0.code % 256 ELSE 127
      BY <2>4 DEF Status
    <3> QED BY <1>1, <2>1, <2>2, <3>1
  <2> QED BY <2>3, <2>4
<1>3. Cut(c) \in BOOLEAN
  BY DEF Cut
<1>4. cmd' = [cmd EXCEPT ![c] = k] /\ k \in CmdType
  <2>1. k \in CmdType
    BY <1>0, <1>2, <1>3 DEF CmdType
  <2>2. cmd' = [cmd EXCEPT ![c] = k]
    BY <1>0 DEF Return
  <2> QED BY <2>1, <2>2
<1>5. /\ k.pc = "ended" /\ k.status = Status(c) /\ k.cut = Cut(c) /\ k.watch = k0.watch
      /\ k.env = k0.env
      /\ k.job = IF k0.job = "open" THEN "closed" ELSE k0.job
  BY <1>0 DEF CmdType
<1>6. /\ p \in ProcType /\ CmdInv(k0, p, c \in tracked, c \in jobByPid)
      /\ p.child = "dead" /\ p.code = p0.code
      /\ k0.job = "open" => p.kid # "live"
  <2>1. Killing(p0, p)
    BY <1>0, Kills DEF close
  <2>2. p \in ProcType /\ CmdInv(k0, p, c \in tracked, c \in jobByPid)
    BY <1>0, <2>1, KillKeeps
  <2>3. k0.job = "open" => p.kid # "live"
    BY <1>0, Kills DEF close
  <2> QED BY <1>1, <2>1, <2>2, <2>3 DEF Killing
<1>7. /\ UNCHANGED <<scene, cancelled, shell>> /\ proc' = [proc EXCEPT ![c] = p]
      /\ tracked' = tracked \ {c} /\ jobByPid' = jobByPid \ {c}
  BY DEF Return, jobVars, Set
<1> HIDE DEF k, p
<1>8. CmdInv(k, p, c \in tracked', c \in jobByPid')
  <2>1. WatchInv(k, p) /\ CodeInv(p)
    BY <1>0, <1>1, <1>5, <1>6 DEF CmdInv, WatchInv, CodeInv, Running
  <2>2. TreeInv(k, p)
    BY <1>0, <1>1, <1>5, <1>6 DEF CmdInv, TreeInv
  <2>3. Honest(k, p)
    BY <1>2, <1>5, <1>6 DEF Honest
  <2>4. BooksInv(k, c \in tracked', c \in jobByPid')
    BY <1>7 DEF BooksInv
  <2> QED BY <1>0, <1>5, <2>1, <2>2, <2>3, <2>4 DEF CmdInv
<1> HIDE DEF k0, p0
<1> QED BY <1>0, <1>4, <1>6, <1>7, <1>8, OneCommand

-----------------------------------------------------------------------------
(* The job and the calls                                                   *)

\* A call is not affected by what happens before the job has its final state,
\* and nothing happens to that afterwards.
LEMMA CallsKept ==
    ASSUME EndInv, CallsInv, call' = call, done => done',
           UNCHANGED <<state, exit>> \/ (jpc \in {"run", "classify"} /\ state = "running")
    PROVE  CallsInv'
<1>1. ASSUME NEW r \in Callers PROVE CallInv(call[r])'
  <2>1. CallInv(call[r]) /\ call'[r] = call[r]
    BY DEF CallsInv
  <2>2. CASE UNCHANGED <<state, exit>>
    BY <2>1, <2>2 DEF CallInv
  <2>3. CASE jpc \in {"run", "classify"} /\ state = "running"
    <3>1. ~done
      BY <2>3 DEF done
    <3> QED BY <2>1, <2>3, <3>1 DEF CallInv
  <2> QED BY <2>2, <2>3
<1> QED BY <1>1 DEF CallsInv

\* The end of the script and the job's last steps.
LEMMA EndStep ==
    ASSUME Inv, ScriptEnds \/ EndJob
    PROVE  EndInv' /\ CallsInv'
<1>0. EndInv /\ CallsInv /\ TypeInv /\ call' = call
  BY DEF Inv, ScriptEnds, EndJob, Classify, CloseStdin, CloseDone
<1>1. CASE ScriptEnds
  <2>1. /\ jpc = "run" /\ jpc' = "classify" /\ state' = state
        /\ exit' \in {0} \cup {cmd[c].status : c \in {b \in Commands : ~cmd[b].bg}}
                         \cup (IF cancelled THEN {130} ELSE {})
    BY <1>1 DEF ScriptEnds
  <2>2. \A c \in Commands : cmd[c].status \in Int
    BY <1>0 DEF TypeInv, CmdType
  <2>3. exit' \in Int
    BY <2>1, <2>2
  <2>4. EndInv'
    BY <1>0, <2>1, <2>3 DEF EndInv
  <2> QED BY <1>0, <2>1, <2>4, CallsKept DEF EndInv, done
<1>2. CASE Classify
  <2>1. /\ jpc = "classify" /\ jpc' = "closing" /\ exit' = exit
        /\ state' = IF cancelled THEN "killed"
                    ELSE IF exit = 0 THEN "done" ELSE "failed"
    BY <1>2 DEF Classify
  <2>2. EndInv'
    BY <1>0, <2>1 DEF EndInv
  <2> QED BY <1>0, <2>1, <2>2, CallsKept DEF EndInv, done
<1>3. CASE CloseStdin \/ CloseDone
  <2>1. /\ UNCHANGED <<state, exit>>
        /\ jpc \in {"closing", "ending"} /\ jpc' \in {"ending", "done"}
    BY <1>3 DEF CloseStdin, CloseDone
  <2>2. EndInv'
    BY <1>0, <2>1 DEF EndInv
  <2> QED BY <1>0, <2>1, <2>2, CallsKept DEF done
<1> QED BY <1>1, <1>2, <1>3 DEF EndJob

\* Call, JobWait, HangUp and JobStdin act on one call.
LEMMA CallStep ==
    ASSUME Inv, NEW r \in Callers, Call(r) \/ JobWait(r) \/ HangUp(r) \/ JobStdin(r)
    PROVE  EndInv' /\ CallsInv'
<1>0. /\ EndInv /\ CallsInv /\ UNCHANGED <<jpc, state, exit>> /\ done' = done
      /\ call \in [Callers -> CallType] /\ call[r] \in CallType /\ CallInv(call[r])
  BY DEF Inv, CallsInv, Call, JobWait, HangUp, JobStdin, jobVars, done
<1>1. EndInv'
  BY <1>0 DEF EndInv
<1>2. \E k \in CallType : CallInv(k) /\ call' = [call EXCEPT ![r] = k]
  <2>1. CASE Call(r)
    <3>1. PICK op \in {"poll", "write", "shut"} :
            call' = [call EXCEPT ![r].pc = op, ![r].late = done /\ op = "poll"]
      BY <2>1 DEF Call
    <3>2. (done /\ op = "poll") \in BOOLEAN
      OBVIOUS
    <3> DEFINE l == done /\ op = "poll"
               k == [call[r] EXCEPT !.pc = op, !.late = l]
    <3>3. l \in BOOLEAN /\ (l => done) /\ call' = [call EXCEPT ![r] = k]
      BY <1>0, <3>1
    <3> HIDE DEF l
    <3>4. k \in CallType /\ CallInv(k)
      BY <1>0, <3>3 DEF CallType, CallInv
    <3> QED BY <3>3, <3>4
  <2>2. CASE JobWait(r)
    <3>1. CASE done /\ Answer(r, state, exit)
      <4> DEFINE k == [call[r] EXCEPT !.pc = "answered", !.state = state, !.exit = exit]
      <4>1. call' = [call EXCEPT ![r] = k]
        BY <1>0, <3>1 DEF Answer
      <4>2. state \in {"running", "killed", "done", "failed"} /\ exit \in Int
        BY <1>0 DEF EndInv
      <4>3. k \in CallType /\ CallInv(k)
        BY <1>0, <3>1, <4>2 DEF CallType, CallInv
      <4> QED BY <4>1, <4>3
    <3>2. CASE ~done /\ \E st \in RacyStates, ex \in RacyExits : Answer(r, st, ex)
      <4>1. PICK st \in RacyStates, ex \in RacyExits : Answer(r, st, ex)
        BY <3>2
      <4> DEFINE k == [call[r] EXCEPT !.pc = "answered", !.state = st, !.exit = ex]
      <4>2. call' = [call EXCEPT ![r] = k]
        BY <1>0, <4>1 DEF Answer
      <4>3. /\ st \in {"running", "torn", state} /\ ex \in Int
            /\ state \in {"running", "killed", "done", "failed"}
        BY <1>0, <3>2 DEF RacyStates, RacyExits, EndInv, done
      <4>4. k \in CallType /\ CallInv(k)
        BY <1>0, <3>2, <4>3 DEF CallType, CallInv
      <4> QED BY <4>2, <4>4
    <3>3. CASE call[r].pc = "poll" /\ call' = [call EXCEPT ![r].i = @ + 1]
      <4> DEFINE k == [call[r] EXCEPT !.i = @ + 1]
      <4>1. call' = [call EXCEPT ![r] = k]
        BY <1>0, <3>3
      <4>2. k \in CallType /\ CallInv(k)
        BY <1>0, <3>3 DEF CallType, CallInv
      <4> QED BY <4>1, <4>2
    <3> QED BY <2>2, <3>1, <3>2, <3>3 DEF JobWait
  <2>3. CASE HangUp(r)
    <3> DEFINE k == [call[r] EXCEPT !.pc = "idle", !.i = 0]
    <3>1. call' = [call EXCEPT ![r] = k] /\ 0 \in Nat
      BY <1>0, <2>3 DEF HangUp
    <3>2. k \in CallType /\ CallInv(k)
      BY <1>0, <3>1 DEF CallType, CallInv
    <3> QED BY <3>1, <3>2
  <2>4. CASE JobStdin(r)
    <3> DEFINE k == [call[r] EXCEPT !.pc = "idle"]
    <3>1. call' = [call EXCEPT ![r] = k]
      BY <1>0, <2>4 DEF JobStdin
    <3>2. k \in CallType /\ CallInv(k)
      BY <1>0 DEF CallType, CallInv
    <3> QED BY <3>1, <3>2
  <2> QED BY <2>1, <2>2, <2>3, <2>4
<1>3. PICK k \in CallType : CallInv(k) /\ call' = [call EXCEPT ![r] = k]
  BY <1>2
<1>4. call' \in [Callers -> CallType] /\ \A q \in Callers : call'[q] = call[q] \/ call'[q] = k
  BY <1>0, <1>3
<1>5. ASSUME NEW q \in Callers PROVE CallInv(call[q])'
  BY <1>0, <1>3, <1>4 DEF CallsInv, CallInv
<1> QED BY <1>1, <1>4, <1>5 DEF CallsInv

-----------------------------------------------------------------------------
(* Inv is inductive                                                        *)

\* RunWithEnv is an environment, of values whose origin is known.
LEMMA EnvType ==
    ASSUME scene \in Scenes
    PROVE  RunWithEnv \in Environs
<1>1. /\ scene.environ \in [Vars -> {Unset, "worker"}]
      /\ scene.request \in [Vars -> {Unset, "request"}]
  BY ExecAssumption
<1>2. ASSUME NEW v \in Vars
      PROVE  jobEnv[v] \in {Unset, "worker", "bundle", "default"}
  BY <1>1 DEF jobEnv
<1>3. ASSUME NEW v \in Vars
      PROVE  RunWithEnv[v] \in {Unset, "worker", "bundle", "default", "request"}
  BY <1>1, <1>2 DEF RunWithEnv
<1>4. RunWithEnv = [v \in Vars |-> RunWithEnv[v]]
  BY DEF RunWithEnv
<1> QED BY <1>3, <1>4 DEF Environs

\* Inv holds when the job's goroutine starts.
LEMMA InitInv == Init => Inv
<1> SUFFICES ASSUME Init PROVE Inv
  OBVIOUS
<1>1. RunWithEnv \in Environs /\ shell = RunWithEnv
  BY EnvType DEF Init
<1> DEFINE k == [pc |-> "idle", bg |-> FALSE, watch |-> "none", pid |-> FALSE,
                 job |-> "none", cut |-> FALSE, status |-> 0,
                 env |-> RunWithEnv, shell |-> shell]
           p == [child |-> "none", code |-> 0, kid |-> "none"]
<1>2. k \in CmdType /\ p \in ProcType
  BY <1>1 DEF CmdType, ProcType
<1>3. cmd = [c \in Commands |-> k] /\ proc = [c \in Commands |-> p]
  BY DEF Init
<1>4. TypeInv
  <2>1. cmd \in [Commands -> CmdType] /\ proc \in [Commands -> ProcType]
    <3> HIDE DEF k, p
    <3> QED BY <1>2, <1>3
  <2> QED BY <1>1, <2>1 DEF Init, TypeInv
<1>5. CommandsInv
  <2> SUFFICES ASSUME NEW c \in Commands
               PROVE  CmdInv(cmd[c], proc[c], c \in tracked, c \in jobByPid)
    BY DEF CommandsInv
  <2>1. cmd[c] = k /\ proc[c] = p /\ c \notin tracked /\ c \notin jobByPid
    BY <1>3 DEF Init
  <2>2. WatchInv(k, p) /\ CodeInv(p) /\ TreeInv(k, p) /\ Honest(k, p)
    BY DEF WatchInv, CodeInv, TreeInv, Honest, Running
  <2>3. BooksInv(k, c \in tracked, c \in jobByPid)
    BY <2>1 DEF BooksInv
  <2> QED BY <2>1, <2>2, <2>3 DEF CmdInv
<1>6. EndInv
  BY DEF Init, EndInv
<1>7. CallsInv
  BY DEF Init, CallsInv, CallType, CallInv
<1> QED BY <1>4, <1>5, <1>6, <1>7 DEF Inv

\* Every step keeps Inv.
LEMMA NextInv == Inv /\ [Next]_vars => Inv'
<1> SUFFICES ASSUME Inv, [Next]_vars PROVE Inv'
  OBVIOUS
<1>0. TypeInv /\ CommandsInv /\ EndInv /\ CallsInv
  BY DEF Inv
<1>c. ASSUME UNCHANGED <<jpc, state, exit, call>>
      PROVE  EndInv' /\ CallsInv'
  BY <1>0, <1>c, CallsKept DEF EndInv, done
<1>1. CASE \E c \in Commands : Invoke(c) \/ Serve(c) \/ Spawn(c) \/ Exit(c)
                               \/ killProcessTree(c)
  <2>1. UNCHANGED <<jpc, state, exit, call>>
    BY <1>1 DEF Invoke, Serve, StartFails, Start, Attach, Assign, track, Cancel,
       KillAfterDelay, Reap, Return, Spawn, Exit, killProcessTree, jobVars
  <2>2. TypeInv' /\ CommandsInv'
    BY <1>1, ControlStep, StartStep, CancelStep, KillStep, ProcessStep, ReturnStep DEF Serve
  <2> QED BY <1>c, <2>1, <2>2 DEF Inv
<1>2. CASE ScriptEnds \/ EndJob
  <2>1. UNCHANGED <<scene, cmd, proc, tracked, jobByPid, cancelled, shell>>
    BY <1>2 DEF ScriptEnds, EndJob, Classify, CloseStdin, CloseDone, procVars
  <2>2. TypeInv' /\ CommandsInv'
    BY <1>0, <2>1, NoCommand DEF TypeInv
  <2> QED BY <1>2, <2>2, EndStep DEF Inv
<1>3. CASE \E r \in Callers : Call(r) \/ JobWait(r) \/ HangUp(r) \/ JobStdin(r)
  <2>1. UNCHANGED <<scene, cmd, proc, tracked, jobByPid, cancelled, shell>>
    BY <1>3 DEF Call, JobWait, HangUp, JobStdin, procVars, jobVars
  <2>2. TypeInv' /\ CommandsInv'
    BY <1>0, <2>1, NoCommand DEF TypeInv
  <2> QED BY <1>3, <2>2, CallStep DEF Inv
<1>4. CASE \/ \E c \in Commands : Consume(c)
           \/ \E v \in Vars : Export(v)
           \/ KillAll \/ JobKill \/ UNCHANGED vars
  <2>1. UNCHANGED <<scene, cmd, proc, tracked, jobByPid, jpc, state, exit, call>>
    BY <1>4 DEF Consume, Export, KillAll, JobKill, vars, jobVars, procVars
  <2>2. cancelled' \in BOOLEAN /\ shell' \in Environs
    <3>1. cancelled' \in {TRUE, cancelled}
      BY <1>4 DEF Consume, Export, KillAll, JobKill, vars, jobVars
    <3>2. shell' = shell \/ \E v \in Vars : shell' = [shell EXCEPT ![v] = "script"]
      BY <1>4 DEF Consume, Export, KillAll, JobKill, vars, jobVars
    <3> QED BY <1>0, <3>1, <3>2 DEF TypeInv, Environs
  <2>3. TypeInv' /\ CommandsInv'
    BY <1>0, <2>1, <2>2, NoCommand
  <2> QED BY <1>c, <2>1, <2>3 DEF Inv
<1> QED BY <1>1, <1>2, <1>3, <1>4 DEF Next

-----------------------------------------------------------------------------
(* What the runner and the handlers promise                                *)

\* Inv is an invariant of the job's commands and calls.
THEOREM InvHolds == Spec => []Inv
  BY InitInv, NextInv, PTL DEF Spec

\* Nothing of the worker's own environment but the allowlist reaches a
\* command, for every environment, request and allowlist.
THEOREM EnvConfinedHolds == Spec => []EnvConfined
<1>1. Inv => EnvConfined
  <2> SUFFICES ASSUME Inv, NEW c \in Commands, NEW v \in Vars
               PROVE  /\ cmd[c].env[v] = "worker" => v \in Pass \cup WinPass
                      /\ scene.request[v] # Unset => cmd[c].env[v] = scene.request[v]
                      /\ unix => cmd[c].env["PATH"] # Unset
    BY DEF EnvConfined
  <2>1. cmd[c].env = RunWithEnv
    BY DEF Inv, CommandsInv, CmdInv
  <2>2. /\ scene.environ \in [Vars -> {Unset, "worker"}]
        /\ scene.request \in [Vars -> {Unset, "request"}]
        /\ "PATH" \in Vars
    BY ExecAssumption DEF Inv, TypeInv
  <2>3. scene.request[v] # "worker"
    BY <2>2 DEF Unset
  <2>4. jobEnv[v] = "worker" => v \in Pass \cup WinPass
    BY <2>2 DEF jobEnv, Unset
  <2>5. unix => jobEnv["PATH"] # Unset
    BY <2>2 DEF jobEnv, Unset
  <2> QED BY <2>1, <2>2, <2>3, <2>4, <2>5 DEF RunWithEnv
<1> QED BY <1>1, InvHolds, PTL

\* A command reported as successful was neither killed nor cut short, for every
\* set of exit codes of either platform.
THEOREM StatusHonestHolds == Spec => []StatusHonest
<1>1. Inv => StatusHonest
  BY DEF Inv, CommandsInv, CmdInv, Honest, StatusHonest
<1> QED BY <1>1, InvHolds, PTL

\* terminate and the close of the Job Object leave no descendant in their reach.
THEOREM KillTakesTreeHolds == Spec => []KillTakesTree
<1>1. Inv => KillTakesTree
  BY DEF Inv, CommandsInv, CmdInv, TreeInv, KillTakesTree
<1> QED BY <1>1, InvHolds, PTL

\* No command returns with a running child, an entry in the books or an open
\* Job Object, and no child runs unwatched.
THEOREM NothingAbandonedHolds == Spec => []NothingAbandoned
<1>1. Inv => NothingAbandoned
  <2> SUFFICES ASSUME Inv, NEW c \in Commands
               PROVE  /\ cmd[c].pc = "ended" =>
                            /\ proc[c].child # "live"
                            /\ c \notin tracked \cup jobByPid
                            /\ cmd[c].job # "open"
                      /\ proc[c].child = "live" =>
                            cmd[c].watch \in {"armed", "fired", "missed"}
    BY DEF NothingAbandoned
  <2>1. CmdInv(cmd[c], proc[c], c \in tracked, c \in jobByPid)
    BY DEF Inv, CommandsInv
  <2> QED BY <2>1 DEF CmdInv, WatchInv, TreeInv, BooksInv, Running
<1> QED BY <1>1, InvHolds, PTL

\* JobWait answers the job's own final state, and a JobWait that begins after
\* the end nothing else, for any number of callers and polls.
THEOREM WaitFinalHolds == Spec => []WaitFinal
<1>1. Inv => WaitFinal
  BY DEF Inv, EndInv, CallsInv, CallInv, WaitFinal, done
<1> QED BY <1>1, InvHolds, PTL
=============================================================================

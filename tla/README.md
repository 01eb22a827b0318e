# easyworker: verification project

TLA+ models of easyworker, a worker process that runs shell commands as jobs,
streams and records their output, and is owned by the controller that claimed
it. The models are written from the Go code under `internal/`, `client/` and
`cmd/easyworker`; `PROJECT.json` maps every definition to its lines.

## The system

### Components and their state

| Component | State | Operations | Modelled by |
|---|---|---|---|
| Live job (`jobsvc/manager.go` `Execute`, `Job`; `shellh/runner.go` `LineBuffer`) | sequence counter, two line rings with a partial line each, subscriber channels, `State`, `ExitCode`, `done` | `Execute`, `LineBuffer.Write`/`FlushLine`, `onLine`, `Subscribe`, `publishLine`, `finishSubs`, `Kill`, `Result` | `Job` |
| Job store (`jobsvc/store.go`) | queue, writer's batch, tables `jobs` and `job_lines` | `OpenStore`/`recover`, `EnqueueJob`, `TryEnqueueLine`, `FinishJob`, writer goroutine, `Retention`, `Close`, queries | `Store`, `History` |
| Enrollment (`auth/auth.go`, `auth/filestore.go`, `enroll.go`, `client/client.go`) | token, code, claimed, failure count and window, state file | `New`, `Claim`, `Release`, `Authorized`, `FileStore` reads and writes, `Enroll` and `Release` of the client | `Gate`, `Ownership` |
| RPC service (`internal/service.go`) | none of its own | `WatchJob`, `JobKill`, `JobWait`, `JobStdin`, `JobOutput`, `ListJobs`, file calls | `WatchJob` (live path) and `JobKill` in `Job`; `WatchJob` (store path), `JobOutput` and `ListJobs` in `Registry`; `JobWait`, `JobStdin`, `JobKill` in `Exec`; file calls in `Files` |
| Registry (`jobsvc/manager.go`) | map of jobs in memory | `Get`, `List`, `Prune`, `readMerged`, `OutputLines`, `ReplayTail` | `Registry`, on top of `Store` |
| Shell runner and process tree (`shellh/runner.go`, `exec_*.go`, `jobEnv` of `cmd/easyworker`) | tracked children, tree handles, job-object registry, the processes | `RunWithEnv`, `execMiddleware`, `attach`, `terminate`, `close`, `KillAll` | `Exec` |
| File service (`filesvc/`) | the workspace | `resolve`, `Read`, `Write`, `List`, `SyncFolder` | `Files` |
| Interceptors and routing (`auth/interceptor.go`, `client.Dial`, generated client and handlers, `main`) | none of their own | `Bearer`, `check`, `Status` | `Access`, on top of `Gate` |

The rest of the start-up code, command-line tools, message encoding, images
and manifests keep no state that a property here is about; `PROJECT.json`
lists them with the reason.

### How they interact

`Execute` registers a job in memory, inserts its row in the store and starts a
goroutine that runs the command. The interpreter's goroutines write to two
`LineBuffer`s; each completed line gets the job's next sequence number and
enters the buffer's ring under the buffer's mutex, and after the mutex is
released `onLine` publishes it to the subscriber channels (under `subMu`) and
offers it to the store's queue. When the command has ended the goroutine
flushes partial lines, chooses the terminal state, offers the finish record,
and its deferred calls close the subscriber channels and then `done`. Commands
that the script left behind with `&` are not waited for: they may write lines
after all of that, which enter the rings and are offered to the store.
`WatchJob` subscribes, sends the ring, then the channel until it is closed,
then `Done`. One writer goroutine moves records from the queue to the
database. The gate is asked for every call of the service, once, when the call
begins; it keeps its state in a file that is written at every claim and
release. The interpreter hands each external command to `execMiddleware`, which
starts it, gives its pid to a tree handle, and waits; the library calls the
handle's `terminate` when the job's context ends. The file calls go straight to
the operating system, without a lock.

### What is hard

Lines cross two locks on their way to a watcher, and a watcher subscribes
between any two of their steps; channels, rings and the queue drop what they
cannot hold; the writer's transactions fail; the process dies at any point and
a later one finds the tables and the state file as they were; replies to
controllers are lost. Commands left behind write to a job that has ended, to
channels that are closed, and under a row that retention deletes. A kill arrives between the start of a process and the
moment the worker can reach its descendants; descendants hold pipes the worker
waits for; `JobWait` polls fields another goroutine assigns; file calls meet in
one directory and fail half-way. The hazards, line by line, with the properties
that watch over them, are in `PROJECT.json`.

What makes each component correct:

* live job: a watcher that is told *Done* has been sent everything that was
  not dropped on its account, with the final exit code; the store is offered
  no line twice, and the finish record after every line that the job waited
  for; no watcher can hold up a job; a kill is not reported as success;
* store: a row with an outcome has all the lines offered before it; no row
  stays running after a restart; nothing changes a finished row, and nothing is
  added to its lines but by commands left behind; accepted lines land;
* gate: the owner keeps its access through restarts and loses it for good on
  release; a code is worth one token; guessing is limited;
* registry: history reads have no gaps, a replay from the store is complete
  down to its cut, done means that no line follows (both for jobs that keep
  order and wait for their commands), recent jobs stay, a list has the newest
  jobs with states they have had;
* process tree: a kill ends the job and what it can reach of its processes,
  nothing is left behind by a command that has returned, a command that was
  cut short is not a success, a command sees none of the worker's secrets;
* waiting calls: `JobWait` answers in time and truly, a blocked `JobStdin` is
  freed at the end;
* file service: what a reply says of the workspace is true, whatever step
  failed; a list misses nothing that stayed and could be looked at; nothing
  that is outside is touched;
* access: the owner is never refused, everyone else always is.

## The modules

`Job` — one job. `seq`, `ring`, `partial`, `lock` are the `LineBuffer`s and
`Job.seq`; `pend` and `pub` are the lines that `Write` has completed and not
yet passed to `onLine`, and where the current `onLine` call stands; `offered`
and `finish` are what the store is given; `jpc`, `res`, `cancelled`, `state`,
`exit`, `done` are the goroutine of `Execute`; `subMu`, `chst`, `chan` the
subscriptions; `wpc`, `replay` the `WatchJob` calls. `replayed`, `live`,
`doneExit`, `evicted`, `lost` only record what happened. A `Write` is several
steps, because its mutex is what separates it from `Subscribe`; `Subscribe` is
three, because it takes the two rings one after the other. `Kill` may come at
any time. That the interpreter waits for its foreground writers before it
returns (`Joined`) is taken from `exec.Cmd.Wait` and from pipelines of the
interpreter. It does not wait for commands left in the background with `&`:
when it returns, any of the writers in `Background` may be left `behind`, with a
line half written, completed or half handed on, and go on for as long as the
worker lives. So `FinishIsLast` says that every line is offered but those in the
hands of a command left behind (`InHand`), which may offer theirs after the
finish record; `WatchComplete` excuses lines that such a command completed or
handed on too late for the channels (noted as `lost`); and `StreamOrder` is about
jobs that leave none behind, as `FlushLine` may overtake a late `Write`. Exit
codes are 0, 1 for any other status, 130 and 127.

`Store` — the store, with `n` jobs as its clients. The writer goroutine is
split at its database calls, so that retention, clients and a crash come in
between. A transaction commits any prefix of its batch: all of it, none when
begin, prepare or commit fails, part of it when an insert fails. A committed
transaction survives the death of the process. Which finished rows are old is
a matter of the clock, so `Retention` takes any set of them. Jobs have
distinct ids. A job may go on offering lines after its finish record, as long as
the worker lives: these are `late`. `FinishAfterLines` is about the lines that
were accepted before the record, which is also what the comment at `store.go:112`
can mean. Late lines may be committed under a finished row, and after Retention
has deleted it; then they have no row until the next Retention deletes them too,
and `NoOrphanLines` allows these and no others. `accepted`, `late`, `spoilt`,
`logged` are observations.

`History` — what the readers of the tables may rely on: a job's log grows
while it runs, is frozen by its outcome and is forgotten as a whole; beside it
there are `strays`, written by commands left behind, which may come at any time
and for which no more is promised than that they belong to a job that this
process ran. `Store` implements it under the mapping `statusBar`, `logBar`,
`straysBar`; the queue, the batch and the writer are hidden.

`Gate` — one worker with its state file and the controllers. Codes and tokens
are numbers minted in order, which stands for the randomness of `randomHex`;
0 is the empty string. `mode` (disabled, pre-authorized, enrolling) is the
worker's configuration and is the same at every start. `New` reads the file
twice, as the code does, and with disk faults each read may fail by itself.
A controller knows the codes printed at start-up or handed back by a release;
a call that is lost, request or reply, is `Lose`. Owner ids are left out.

`Ownership` — what the controllers may rely on: a worker has at most one owner,
who got it for the code that was open and keeps it until its own token comes
with a release; codes and tokens are used up by that. `Gate` implements it with
its token as the owner, the requests on their way as `asked` and, as `spent`,
the codes that were claimed and the tokens that were released. The process and
its state file are hidden: on a worker that enrolls and whose file works
(`kept`) a crash and a restart are no steps at all. Without such a file
`Restart` may bring any owner or code back, because the code says no more.

`Registry` — the job map, the sweep of `retentionLoop` and the calls that read
a job, composed with `Store`: the store's variables are declared under its own
names, each client step of `Store` is conjoined with the step of the job that
makes it, and the other steps of `Store` leave the registry alone. `made` are
the completed lines, of which the ring of a stream is the last `MemLines` and
the ones not yet `offered` are waiting for `onLine`. A job is tidy or `loose`. A
tidy one has one writer per stream, which hands its lines on in order, and none
that is left behind. A loose one stands for scripts with several writers to a
stream (stderr of a pipeline) and for scripts that leave commands behind: its
lines are offered in any order and go on after its end. `StreamHistory` and
`DoneIsLast` are about tidy jobs, since the code breaks them for others: a line
of a pipeline may hide from `readMerged` below a later one that was persisted
first, and the output of a job that is done may grow. `ReplayCap` is the cut of
`ReplayTail`, `Limit` that of `QueryJobs` and `List`; jobs are ordered by
`started`, which is any reading of a clock (`Times`). `jpc`, `verdict`, `state`, `stamp` follow the goroutine of `Execute`
assignment by assignment. `call` is a read in progress: the table, the job map
and each ring are read in steps of their own. `HourPasses` is the clock: an
hour is longer than any call and than the writer's lag, and a row past the 24
hours has left memory at an earlier sweep. `Store.Close` has no caller in the
worker, so that the registry does not take it. `ListSound` has a list show a
job as running that has ended: `Merge` keeps the store's row when there is one,
against the comment beside it, and no property here catches that.

`Exec` — the external commands of one job. `cmd` is each call of
`execMiddleware` (its place, the library's watcher of the context, the pid and
Job Object of its tree handle), `proc` the processes: the child and at most one
descendant, `kid`, which inherits the output and stays in the group. A kid born
before the Job Object was assigned is `early`: the Job Object does not have it.
`tracked`, `jobByPid`, `doomed` are `Runner.childs`, the windows registry and
the pids a `KillAll` has still to visit. One step per call of `execMiddleware`,
so that the cancel falls between any two. A command runs in the foreground or
is left behind (`bg`); the interpreter begins no statement after a cancel and
returns when no foreground command runs. `jobEnv` and `RunWithEnv` are
functions of the `scene`: platform, the worker's environ, a CA bundle on disk,
the variables of the request and those its script exports. On unix the default
`PATH` is always in the result; on windows a worker that has none of the allowed
variables in its environ is excluded by assumption, because `exec.Cmd` would take
an empty environment to mean the worker's own. A script that does not parse ends
in `Job`; here the script has parsed. `call` is a `JobWait` or `JobStdin` of a job in
memory; the fields that its timeout answer reads without synchronisation may be
old, new, or, for a string of two words, torn (`RacyStates`, `RacyExits`).
`stdin` counts the writes the interpreter's copier has taken and no command has
read, up to `PipeCap`. Lines of output are the matter of `Job`.

`Files` — the workspace as a function from paths to nothing, a directory or a
file of two blocks, and the handlers as processes that make one call of the os
package per step; each may fail (`Faults`). A path is a sequence of components
with its dots (`Target` cleans it). A file that is removed while open is
written to no effect. `alone` notes that nobody else wrote during a call.
The workspace may hold symbolic links (`Leads`). The kernel follows them at
every use of a path (`Real`); `resolve` follows them once, at its beginning, and
only when the target exists (`Resolve`, `EvalSymlinks`), otherwise the path is
used as it is. The service removes links and never makes one; a link leads to
where no other link is, in one hop; links that jobs make while a call runs, and a
workspace whose own path leads through one, are not modelled. `Contained` says
what is left of the containment: nothing that is outside the workspace is changed
or removed, but where a link leads to nothing yet, something may appear
(`Leak`). `PutResult` is about requests whose paths do not lead through links.
`RemoveAll` takes one object per step and may stop at any of them; `MkdirAll` is
one step. An entry whose `Info` fails is `skipped`. An error of `f.Close`, which
the code does not look at, is not modelled. Names compare as on unix. An entry of
an archive that is neither file nor directory is a `link`, and one without a name
`nameless`; one that leaves the workspace ends the call, whatever its kind,
because it is resolved before its kind is looked at.
`gzip` says whether the bytes are an archive at all, `end` whether it ends
properly, is cut inside its last file, or is broken after its last entry.

`Access` — `Gate`, extended by one call of the service at a time (`rpc`): the
client's interceptor, the generated client and handler, the worker's
interceptor, and `WorkerEnroll.Status`, which no interceptor guards. Between
the sending and the check the gate may take any of its steps; time passes only
when no call is on its way (`GateStep`), since the clock matters to the limiter
alone.

`MCJob`, `MCStore`, `MCRegistry`, `MCAccess`, `MCExec` and `MCFiles` give TLC
values, symmetries and, for three runs, a constraint on the states. `JobProofs`, `StoreProofs`, `GateProofs`, `AccessProofs`,
`RegistryProofs`, `ExecProofs`, `FilesProofs` and `SyncProofs` (`PutResult`)
hold the proofs.

## The runs

| Run | Checks | Shows |
|---|---|---|
| `job_safety` | `TypeOK`, `WatchComplete`, `DoneIsFinal`, `FinishIsLast`, `StreamOrder` | one writer per stream, the one of stderr possibly left behind, a watcher at any moment |
| `job_live` | `KilledIsNotDone`, `JobEnds`, `EarlyOrLateWatchEnds` | a job ends whatever its watchers do; a kill is never success; an early and a late watcher are told of the end |
| `store_safety` | `TypeOK`, `FinishAfterLines`, `RunningIsOurs`, `NoOrphanLines` | the tables after any failures, crashes and restarts, with lines that come after a job's finish record |
| `store_live` | `LineLands`, `TerminalIsStable`, `ImplementsHistory` | accepted lines land; the refinement |
| `gate_safety` | `TypeOK`, `OwnerStaysAuthorized`, `RevokedStaysRevoked`, `OneWinnerPerCode`, `RateLimit`, `OwnerIsServed`, `FailClosed`, `ImplementsOwnership` | ownership through restarts, with a working, a faulty and no state file; calls of the owner and of others that cross claims, releases and restarts; the limiter at every spacing of attempts |
| `registry_reads` | `TypeOK`, `StreamHistory`, `StoreReplayComplete`, `ListSound`, `DoneIsLast` | reads of one stream of a tidy job have no gap; a replay from the store is complete down to its cut; a list is sound; done means that no line of a tidy job follows |
| `exec` | `EnvConfined`, `StatusHonest`, `KillTakesTree`, `NothingAbandoned`, `WaitFinal`, `KillEnds`, `WaitEnds`, `StdinReleased` | a command with a descendant on both platforms, killed at any moment; waits, writes and kills come to an end |
| `files` | `PutResult`, `QuerySound`, `Contained` | two concurrent file calls in a workspace with links, with failing system calls and bad archives |

Four runs show a disagreement between the code and what is said of it:

* `job_watch_hangs`: a `WatchJob` that subscribes after `finishSubs` and before
  `close(done)` never ends, contrary to "terminal Done event always sent last";
* `registry_prune`: a sweep that falls between the assignments of `State` and
  `FinishedAt` drops a job that has just ended, and its readers are served from
  a table that lags;
* `exec_kill_race`: a cancel between `cmd.Start` and `attach` finds no pid,
  `terminate` does nothing and is not called again, and only the direct child
  is killed, contrary to "Kill the whole tree ... race-free";
* `exec_env`: commands get the environment of the job's start, so that what the
  script exports never reaches them, contrary to "identical bash semantics".

Others were met while modelling and are stated here without a run of their own:
the live feed is not in sequence order across the two streams, although a test
comments that it is (`service_test.go:94`); `Store.Close` may lose queued
records, although its comment says that it drains (it has no caller); a claim
whose state file cannot be written is acknowledged and lost at the next restart
(`filestore.go:110`); `List` keeps the store's row beside a comment that memory
is fresher (`manager.go:195`); a file that is new below a link out of the
workspace is made where the link leads, since `resolve` does not follow links to
a target that does not exist, although a comment calls it the defence against
links (`service.go:27`, `sync.go:15`); the lines of commands left behind follow
the finish record of their job (`manager.go:161`); `KillAll` has no caller, although its comment
says that `JobKill` uses it; `exec.Command` looks a program up in the worker's
own `PATH`, so that the default `PATH` of `jobEnv` and a `PATH` of the request
do not help to find it; and a windows exit code that is a multiple of 256 is
reported as 0, which `StatusHonest` therefore excepts.

### Bounds

`MemLines` and `SubCap` are 1 in `job_safety`, so that rings overflow and
channels refuse; the writers complete two lines (`MaxLines`) and the goroutine
up to three more (two partial lines and the error of a command that does not
parse), which is enough for every order of two lines of one or two streams
around a subscription. One writer may be left behind (`Background`); a second
would show no more than its own lines. Watchers do not interact except through
`subMu`, so two are enough, and one where only its own feed matters. Both runs
leave out the kill of a job whose command was left behind (`Spared`), and
`job_live` a second watcher of it as well; its watchers are alike, so that the
first to subscribe is named (`Small`). Neither touches what is checked of the
first watcher and of the store, and all but the liveness is proved without these
bounds. In `Store` two jobs, a queue and a batch of two make each drop, early
flush and batch with lines of both jobs happen. In `Gate` four secrets allow two claims and a release around
restarts; two failures per window, a lockout of one unit and three units of
time give every position of two bursts relative to the window (`MaxTime`). In
`Registry` one job with two lines and rings of two is what it takes for a later
line to be persisted before an earlier one that the ring still has; a
queue of one makes lines and finish records be dropped. Its constraint `Small`
has either one job that writes, tidy or loose, and the reads of it, or two jobs
that write nothing and lists with room for one (`Limit`), started in either
order or at the same time; a list does not look at lines, nor a read of one job
at another. A replay is cut to one line (`ReplayCap`). In `Exec` commands act
on each other only through the context and the interpreter's order, so that one
command, in the foreground or behind, shows each race of its own steps with the
kill; one variable of each sort (allowed, allowed on windows only, a token, one
of the request) and exit codes 0, 1 and 256 tell the cases apart; `Iters` polls
and `PipeCap` writes of one make the deadline and the full pipe happen. In
`Files` two callers let two writers, or a writer and a reader, meet; two blocks
to a file let it be cut, overwritten, unlinked while open, and turned into a
directory; there are three links, to a directory beside the workspace, to one in
it and to nothing; and the archives are of up to three entries, one of which
names its file twice. `Access` has a unary procedure, the stream and `Status`
(`Called`), called at time 0 (`MaxCallTime`), because a check does not depend on
the clock. Deadlock is not checked where the system may rest: a job that has
ended, a store without work.

### Fairness

`Job.Fairness`: goroutines that can run do run (`Emit`, `WriteEnd`,
`Finalise`, a `Subscribe` in progress). For `Finalise` and `Subscribe` it is
strong fairness, because a command left behind may take and release the same
mutexes for ever: `sync.Mutex` hands itself to a waiter that has waited for a
millisecond (its starvation mode), so that whoever waits for it gets it. Nothing
is assumed of the command,
which may run for ever, of `Kill`, or of the clients; the properties about the
end of a watch have clients that keep reading (`ClientsRead`) as their
hypothesis.
`Store.Fairness`: the writer goroutine runs and its ticker fires.
`Exec.Fairness`: the goroutines of the worker and of exec.Cmd and the timer of
`WaitDelay` run, a cancelled script ends once its foreground commands have, and
a poll or a write that can go on does. (A script that is opening a FIFO in a
redirection is not freed by the cancel, `runner.go:333`; redirections are left
out.) Nothing is assumed of the processes,
which may never exit by themselves, of the script, or of the callers. The gate
and the file service have only safety properties.

## The proofs

`JobProofs` proves, for any number of writers (several to a stream), watchers
and lines and any capacity of rings and channels, `TypeOK`, `WatchComplete`,
`DoneIsFinal` and `FinishIsLast`. None is inductive, and not even `TypeOK`
stands alone (that the finish record holds a verdict needs `Final`). `Inv` adds:
who may still hold lines at which stage of the end, which is only the goroutine
itself and commands left behind (`Control`); what is final
when (`Final`); each sequence number is either offered or waits in one process
(`Numbered`, `Placed`); `Subscribe` as a critical section, and feeds that are
over and empty (`Mutex`); and, the heart of it, `NoneEscapes`: once a watcher
has copied a ring, each line of that stream is in its hands, or noted as lost,
or has not been published yet. A line completed later is unpublished; a line is
published to a watcher that is owed it because a subscriber holds `subMu` until
its channel is registered, and because channels are closed only after the last
line that the job waited for; a later one is noted as lost when it is published.
When a watcher is sent `Done` nothing is unpublished but what commands left
behind hold, and its channel is empty, which is `WatchComplete`.

`StoreProofs` proves, for every number of jobs and lines and every capacity,
the invariants of `store_safety`, `TerminalIsStable` and `ImplementsHistory`.
None of the invariants is inductive. `Inv` adds: a retired job (terminal,
dead, not begun, or deleted) has nothing but late lines in the queue, the batch
or the writer's hands (`RetiredIsClear`) - this is why a later commit cannot
touch its log; nothing but late lines follows a finish record (`NoEarlyFinish`,
`FinishLast`); the batch
is empty when a row is updated (`WriterInv`); how rows follow jobs
(`RowsAndPhases`); and every accepted line of a running row is committed,
spoilt or on its way (`Accounted`). The refinement uses `Inv` at each step:
a flush is a `Commit` because the lines in the batch that are of a retired job
are strays.

`GateProofs` proves, for every number of controllers, secrets and restarts,
`TypeOK`, `FileFollows`, `OwnerStaysAuthorized`, `RevokedStaysRevoked` and
`OneWinnerPerCode`; `FileFollows` says that the file has what the gate holds.
`Inv` adds: nothing is in use that was not minted (`Bounded`), so that a fresh
secret is new; the file follows the gate (`FileInv`); won codes and revoked tokens are neither in the gate nor in the
file, and an issued token is revoked or in the file (`Ledger`); controllers
hold only issued tokens (`HeldInv`). What the configuration and the state file
are (`mode`, `disk`) stays arbitrary.

`GateImplementsOwnership` shows the refinement step by step. It adds that the
file has what the gate held while the worker is down, too (`FileKeeps`), so that
`New` is a stutter, or `Open` when there was nothing to go on with; and that a
request is a claim or a release (`SentInv`). A claim that wins is `Claim`
because an enrolling gate that is not claimed has no token; that its token was
never used before is `Bounded` again (`FreshIsFresh`).

`RateLimit` is about one run of the worker between two releases, since a start
and a release reset the code's counter. It counts, and its invariant `LimitInv`
is about positions instead:
the bad codes since the last start or release come in groups of `maxFailures`,
the counter counts the last group and `window` is when that one began, more
than a lockout after the group before it. So two failures that are
`2 * maxFailures - 1` apart are more than a lockout apart; the ones in a period
of one lockout therefore have positions that differ by less, and they are as
many as an interval of that length has. That the period has a first position is
taken from the well-foundedness of `<` (`LeastNat`), since the induction rule of
the library is out of the prover's reach.

`JobProofs` has two more results. `StreamOrderHolds` has the
hypothesis that a stream has one writer (`OneWriterPerStream`), without which
the property is false: two writers may complete lines in one order and publish
them in the other. So may a command left behind and `FlushLine`, which is why the
property itself has `behind = {}`. `OrderInv` says that what waits is behind what was offered,
and that what a watcher has been sent or will be sent is before what is yet to
be published. `KilledIsNotDoneHolds` is proved by an invariant of its own
(`Doomed`) that holds from the kill on.

`AccessProofs` builds on `GateProofs`: `AccessInv` adds that a pre-authorized
worker keeps its token, and what a call on its way may carry (`Carried`). The
step of the gate between the sending and the check is an arbitrary one; what
`OwnerIsServed` and `FailClosed` need of it is that the books only grow
(`GateGrows`) and that an issued token that is not released is the gate's own
(`OwnersToken`). `AccessImplementsGate` says that calls change nothing of the
gate, so that all that is proved of `Gate`, `Ownership` included, holds under
them; this is also what lets the run check `Gate`'s properties under `Access`.

`RegistryProofs` proves all the properties of `registry_reads`, for any jobs,
lines, callers, rings, queues and batches. It first shows that the registry
implements `Store` (`RegistryImplementsStore`), so that the invariant of
`StoreProofs` holds under it and the tables implement `History` here as well
(`RegistryImplementsHistory`), and adds: how the goroutine of a job goes with the
client that the store sees (`Life`); lines are numbered once, and the tables
know of no others (`Numbers`); an outcome in a row, or on its way there, is the
job's verdict (`Verdicts`); and the lines of one stream pass the queue and the
batch in order if the job is tidy (`Order`). From this and the store's `Accounted` comes
`TableIsPrefix`: a line of a tidy job that the table lacks, and should have, is
above all lines of its stream that it has. That is why a read that takes from the ring
only what is above the highest persisted line has no gap, and why it holds for
one stream at a time and not for both together. For a call in progress
(`OutputInv`, `WatchInv`, `ListInv`) the proof needs what the steps of all
others may do to its job: `Moves` says that a job does not come back to memory,
that its lines and what happened to them stay, and that its outcome is final.

`ExecProofs` proves the five invariants of `Exec` for any number of commands and
calls on both platforms, for every allowlist and environment. `Inv` is a
conjunction per command (`CmdInv`) and per call (`CallInv`): the context is
watched from `Start` to `Reap` and so while a child runs (`WatchInv`); on unix
the group dies with the child when the cancel is acted on, on windows a
descendant in reach is in a Job Object that is open until the return
(`TreeInv`); the books hold only what was started and has not returned
(`BooksInv`).

`FilesProofs` proves `Contained` and `QuerySound` for every file system, every
workspace in it, any links of one hop, any number of concurrent calls and any
archives and paths. `Inv` has that the tree stays a tree and that only what is
below the workspace changes, or appears where a link leads (`TreeInv`); that what
a writing call is about to touch was resolved and what it has open is below the
workspace, leaked or unlinked (`PutInv`); that what a list has still to look at and what it returns covers all
that has stayed (`ListInv`); and that a read which nobody disturbs has so far
what the file holds (`ReadInv`).

`SyncProofs` proves `PutResult` for archives of any length, whatever they name.
What an archive leaves behind looks like a fold over its entries, which would
take induction; the proof goes by the steps of the call instead, and states for
each prefix of the archive that is done what it has left (`Regs`, `Made`).
`PutsInv` has per call: what is left of the archive is its rest, the count is of
the files among what is done, and all of that was resolved (`Told`); those files
are whole, except one that the archive names again and that is being written
(`AtHand`), and the open one is written up to where the copy is (`Whole`); and
under the destination of a clean call is at first only what is still to be
removed, then exactly what the call has made (`Cleared`, `Stands`). The last two
hold while nobody else writes, the first always. The proof found two things: an
earlier form of the property excused itself for archives that name a file twice,
where the exception above is enough; and the model had skipped links before
resolving them.

All rest only on the assumptions stated in the modules on their constants. Every
invariant and every action property of a passing run is proved. Only
model-checked is what is about liveness (`LineLands`, `JobEnds`,
`EarlyOrLateWatchEnds`, `KillEnds`, `WaitEnds`, `StdinReleased`): the prover does
not reason about fairness.

## Not modelled, and the plan

What remains to be done:

1. The page arithmetic of `OutputLines` as operators against a reference
   definition.
2. What `Retention` and `Prune` together keep (that a recent job is always in
   memory or in the table), which is so far only seen through `StreamHistory`.

Left out, with the reason: the case folding of windows in `filesvc` (a rule of
the operating system's names), links of several hops and links that jobs make
while a file call runs; `JobWait` of a job
that is only in the store, which returns its row; the text of tails and listed
paths; redirections (`openHandler`) and the rewriting of batch wrappers
(`prepareExec`), which keep no state; the double close of a windows handle after
`KillAll`, which nothing calls; the RPC transport and message encoding, logging,
the command-line tools (sequential drivers of the interface), images and
manifests.

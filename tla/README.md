# TLA+ specifications of sockd

sockd turns a program into a local daemon: a server process that keeps a state
warm behind a Unix socket, and clients that start it when it is not there. What
is hard about it is not any one function but who owns what when: several
processes share two paths (the PID file and the socket), each handles them with
separate system calls, and every one of them may be slow, killed, or beaten to it
by another. These modules model that, TLC checks it on small instances, and TLAPS
proves it for any number of processes, clients, threads and bytes.

Paths are relative to the repository; line numbers are those of the commit the
modules were written from.

## The system

| Component | State | Operations | Hard behaviour | Module |
|---|---|---|---|---|
| PID file, `src/pidfile.rs` | the file, the guard, who is alive | `PidGuard::claim`, `read_pid`, `is_process_alive`, `drop` | check and act are separate calls of several processes; a crash between `create_new` and `writeln!`; zombies and reused pids | `PidFile` |
| Socket path, `src/socket.rs` | the path, the listener | `bind` with its probe, `cleanup`, `connect` | bind(2) and listen(2) are two steps; removal of a path someone else took over | `SocketPath` |
| Daemon lifecycle, `src/daemon.rs` `Daemon::run` | where `run` is, the application state | claim, `on_start`, bind, loop, close, cleanup, `on_stop`, drop | order of release; errors and panics at each step; crashes | `DaemonRun` |
| Event loop, `src/daemon.rs` `run_event_loop`, `process_connection`, `poll_listener` | connection in service, backlog, shutdown flag, last activity | accept, read, handle, reply, idle exit, signal | blocking clients, signals between check and poll, rounding of time, errors that end the loop | `EventLoop` |
| Client, `src/client.rs`, `src/process.rs` | where the call is, its connection, its deadline and backoff | `request`, `ping`, `shutdown`, recovery, `spawn_detached` | a retry that could repeat an execution, a PID file that is stale when read, two clients spawning, waits that overrun | `Client`, `Sockd` |
| Frame codec, `src/frame.rs` | the bytes on a connection | encode, decode, `read_frame`, `write_frame` | widths, limits, pieces, a peer that closes or dies in the middle | `Frame`, `Exchange` |
| C interface, `src/ffi.rs`, `include/sockd.h` | configuration, buffers, error strings | `sockd_client_*`, `sockd_buffer_free`, `sockd_string_free` | ownership across the boundary, sizes that the free functions recompute, order of the checks, threads | `Ffi` |
| Configuration, builder, errors | plain data | none that changes state | none | not modelled |
| Reference router, `reference/` | its own | its own | it is the predecessor of sockd | not modelled |
| Examples, test daemon, language bindings | none of their own | callers of the library | none | not modelled |

How they interact: processes share nothing but files. A daemon claims the PID
file, makes its state, binds the socket, serves, and releases in the order
listener, socket file, state, PID file. A client connects to the socket; if that
fails it reads the PID file, sends signal 0 to the pid, and decides from the
outcome to wait, to spawn, or to report "not running". A second daemon does the
same two things (pid, then a probe connection) before it replaces anything. On a
connection each end writes one frame and reads one, with limits of its own. A C
program reaches the client through a configuration that its threads share.

## The modules

    Ownership            a lease: at most one holder until two startups overlap
       ^        ^
    PidFile     |        the PID file, one action per system call
       ^        |
    DaemonRun --+        Daemon::run = PidFile + SocketPath + callbacks
       ^   ^ SocketPath
       |
    Sockd                the whole system = DaemonRun + Client
           ^ Client
    EventLoop            one daemon's loop, its clients, time
    Frame <- Exchange    the header of a frame; both ends of one connection
    Ffi                  the C interface (stands alone)

(an arrow leads from a module to those it uses). Three modules are abstract; what
implements them is a property that TLC checks and a theorem:

    Ownership   <= PidFile (holding the file), DaemonRun (having the state)
    LoopView    <= EventLoop, and every daemon of Sockd
    Service     <= Sockd

`MCPidFile`, `MCDaemonRun`, `MCEventLoop`, `MCSockd`, `MCExchange` and `MCFfi` only
hold values for TLC. `PidFileProofs`, `DaemonRunProofs`, `SockdProofs`,
`EventLoopProofs`, `FrameProofs`, `ExchangeProofs` and `FfiProofs` hold the
theorems about the module they are named after.

**PidFile.** `claim[d]` is the program counter of `PidGuard::claim`
(`src/pidfile.rs:10-47`) and of what follows: `exists` → `read` → `probe` →
`remove` → `create` → `write` → `held`, with the ways out `refused`
(`DaemonAlreadyRunning`) and `failed` (`Io`). `file` is what the path names; a
file is named after the daemon that created it, and `written` says which files
have their pid. A file that exists but is not in `written` is the empty file
between `create_new` and `writeln!`. `ReadablePid` and `IsProcessAlive` are the
two helpers. `Drop` removes whatever is at the path, as the code does, and ignores
it if that fails, so the file of a daemon that has ended may stay. The
environment may fail any call (`io`), kill a process (`crash`), and let a dead
pid answer `kill(pid, 0)` (`recycle`: a zombie, or a new process). `overlap` is a
history variable: it becomes true when a startup begins during another one.

**SocketPath.** `sock[d]` is the program counter of `bind`
(`src/socket.rs:12-50`) and the life of the listener, `path` what the socket path
names. `UnixListener::bind` is two steps, because between bind(2) and listen(2)
the socket refuses connections just like a stale one. `probed` records listeners
that have the probe of another `bind` in their backlog.

**DaemonRun.** `phase[d]` is the statement of `Daemon::run`
(`src/daemon.rs:192-221`); `Claim` and `Bind` take the steps of the two modules
below. Each fallible statement has its error path, `on_request` may panic (which
drops listener, state and guard but skips `cleanup` and `on_stop`), a crash skips
everything. `withPid` says which daemons are configured with the PID file.

**EventLoop.** `pc` is the program counter of `run_event_loop` and
`process_connection`. Connections queue in `backlog`; their clients send a frame,
stall or hang up, whenever they like. Time is counted in ticks of less than a
millisecond, `Timeout` rounds as `poll_listener` does. `deaf` and `unseen` are
history variables (time asleep with the flag set; connections the loop had no
occasion to see). Every error of a connection ends the loop: `set_nonblocking` of a
stream just accepted (`AcceptFails`), a frame that does not come or does not decode
(`ReadFails`), and an answer that cannot be written (`ReplyFails`): because the client
hung up, because the response, or the message of the error that `on_request`
returned, is longer than a `u32` can say (`src/frame.rs:131-136`), or because the
system call failed. Time passes wherever the daemon may take long (in `poll`, a
blocked `read_frame`, `on_request`), but not between its look at the clock and
`poll`: a daemon that is preempted there oversleeps by that much, and
`NeverOversleeps` is about the arithmetic of the timeout, not about the scheduler.

**Client, Sockd.** `at[c]` is the program point of a call, `exchange[c]` the fate
of its connection. `Client` takes what the outside answers as parameters; `Sockd`
supplies it from `DaemonRun`: a connect succeeds iff the path names a listening
socket, and `ClientSpawns` adds a process that then begins `run`.
`pid_file_points_to_live_process` (`src/client.rs:214-223`) is two system calls and
two steps: `ClientReadsPid` keeps what `read_pid` returned in `told[c]`, and the step
that decides asks `PidIsAlive`, when the process may be gone, a zombie, or another
one with the same number (`PidReuse`), and the file may name the next daemon. All
other errors are the result of the call (`CallFails`; a PID file that is no text is
one even without faults, `CannotRead`), and a spawn may fail. The event loop is
reduced to what a client sees: executed, answered, or cut off when the listener closes or the process dies.
`waited[c]` is the time that a call has slept in its wait and `backoff[c]` its next
sleep, which `wait_for_ready` doubles up to a limit; attempts take no time.

**LoopView** is what clients see of one event loop: what becomes of each connection
(`stage`) and whether the daemon serves (`loop`). Requests are executed one at a
time, in the loop, and answered before the next; a `ShutdownAck` ends the loop; only
a loop that has ended, or whose daemon dies, cuts anybody off. It is the contract
between `EventLoop`, which has the backlog, frames, signals and time, and `Sockd`,
which has many daemons that start, stop and crash and reduces each one's loop. Both
refine it (`EventLoop!ImplementsView`, `Sockd!ServesAsEventLoop`), so what `Sockd`
lets a daemon do is within what is stated of the loop. That every behaviour of
`EventLoop` also appears in `Sockd` is not claimed: a refinement says nothing about
that direction.

**Service** is what callers are promised, without sockets, files or processes: the
state is a lease, a call takes effect at one moment between its begin and its
return, in a daemon that holds the lease, and the result tells whether it did. What
`shutdown` returns tells of a moment as well, and not of the time of its return:
`Ok(true)` and `Ok(false)` say that at some moment during the call nobody held the
lease. Between the two system calls that look at the PID file another daemon may
claim it and be warm when `shutdown` returns; so no stronger promise would be true.
`free` is the set of callers who remember such a moment.
`Sockd!ImplementsService` maps `owners` to the daemons whose state is alive and
promises nothing of the lease (`contended`) once startups have overlapped or a daemon
runs without the PID file.

**Frame, Exchange.** `Frame` has `Header::encode` and `Header::decode` as functions
over twelve bytes, big-endian, with the widths of the fields and the order of
the checks. Bytes have `Base` values (256 in the code), so that TLC can count them
and the proofs need no particular number. `Exchange` is one connection: the client
writes a frame and reads one, the daemon reads one, answers and closes, over socket
buffers that take and give any number of bytes at a time. The length of a payload
is a natural number, of which the header holds only the part that a `u32` holds
(`src/frame.rs:141`); the payload itself is counted, not stored. Either end may die
at any point, and a foreign client may send twelve bytes that are no header.

**Ffi.** Threads (`Callers`) of a C program share one configuration. Every function
of `src/ffi.rs` is an action; `ping`, `request` and `shutdown` are two, the checks
with `build_client` and the end of the call, and between them other threads may
change or free the configuration. The heap has an allocation for every error string
(as bytes, because `CString` counts them again) and for every response buffer (as
its size). Callers keep to the rules of `include/sockd.h`: each gives back what a
call returned, and only then calls again. Two threads inside the setters at once
would be a data race of the C program, which Rust's `&mut` does not permit.

## What is checked

Passing runs (`expect: pass`):

* `pid_file` (3 daemons, symmetric, every leftover including the pid of a daemon
  to come, all faults, two attempts): without overlapping startups the PID file
  names its holder (`FileNamesHolder`), needs no retry (`RetryNeedsOverlap`), and is
  exclusive, which is what an implementation of `Ownership` means (`OwnershipSpec`;
  `ExclusiveUnlessOverlap` says the same as an invariant and follows from it).
* `daemon_run` (2 daemons, all faults, all leftovers at the socket path, with and
  without PID file): for guarded daemons (`Guarded`: all use the PID file, no
  startups overlapped) a bound daemon owns the path (`OwnsPath`), `bind` removes
  only dead sockets (`RemovesOnlyStale`), the PID file outlives the state
  (`PidOutlivesState`), a startup leaves a running daemon alone
  (`StartupLeavesOthersAlone`), and the application state itself is a lease
  (`WarmOwnership`). A guarded daemon is alone between its claim and its end, so for
  the window between bind(2) and listen(2), and for the removal of a stale socket, the
  first two say that the PID file protects them; they do not say what happens in a
  race without it. For all daemons: every state goes to `on_stop` unless there
  was a panic (`StateHandedBack`), racing startups are refused only beside another
  that is past its checks, has failed or is over, or beside a number that another
  process has (`RefusedByAnother`, which thus does not exclude that a zombie or a
  reused pid keeps every daemon from starting: it does), and `run` gets to the loop or to its end (`RunSettles`).
* `event_loop` (2 clients that reconnect for ever, every kind of frame, a signal,
  `io` and `panic`, idle timeout 4 ticks, poll interval 2, 2 ticks per ms):
  `AckIsLast`, `IdleCutsOnlyNewcomers`, `NeverOversleeps`, `SignalLatency`,
  `UnansweredMeansFailure` (a request that was executed and never answered, to a
  client that stayed, is the last thing a daemon did before it ended with an error or
  a panic), the refinement `ImplementsView`, and the liveness properties
  `ConnectionEnds` and `EndsWhenQuiet`.
* `sockd` (2 clients that request or ping with auto-start, or shut down, 2 daemons, one
  started by hand and one by whichever client needs it, crashes): a request is
  executed at most once (`AtMostOnce`), `shutdown` returning true means the daemon is
  past `on_stop` (`ShutdownMeansStopped`), and the whole is an implementation of
  `Service` (`ImplementsService`). The latter implies that the result of a request
  tells whether it was executed (`ResultTellsExecution`, a theorem of its own and not
  checked apart).
* `sockd_live` (2 clients that request or shut down, one of which knows no PID file and
  does not auto-start, 1 daemon, started by hand or by a client, failing calls, crashes,
  zombies and reused pids; the PID file of an earlier process, or one that is no text,
  is there at the start): every call returns (`EveryCallReturns`), neither wait gives up
  before its timeout or more than one sleep after it (`GivesUpInTime`), and the daemon
  serves as `LoopView` says (`ServesAsEventLoop`; that this also holds when clients go
  from one daemon to the next is shown by the theorem only).
* `exchange` (every split of header and payload over buffers of five bytes,
  payloads that are empty, at the limits, above them and beyond `u32`, garbage,
  deaths): a frame arrives whole and as it was meant, or not at all
  (`FrameArrives`); nobody takes more than its limit (`WithinLimit`); legal frames
  between ends that live always succeed (`LegalExchangeSucceeds`); the ends never
  wait for each other (`NeverBothWait`); and both ends finish (`ExchangeEnds`). A
  foreign client sends twelve bytes that no reader accepts; one that sends fewer, or
  less payload than it announces, and stays is not in this run: the daemon then waits
  as in `event_loop_signal`.
* `ffi` (2 threads, every function with null, bad and good arguments, messages with
  NULs inside and at the end, empty responses): every allocation has one owner and
  the size that the free functions compute (`OwnedOnce`), the code tells what a
  caller holds (`CodeTellsOutputs`), a client never has the arguments of another
  program (`AutoStartPaired`), and a failed call changes no configuration
  (`FailedCallKeepsConfig`).

Runs that TLC refutes, each one a statement of the documentation that the code
does not keep. The findings in `PROJECT.json` quote it.

* `pid_file_overlap`: two startups at the same time both claim the PID file
  (`docs/LIFECYCLE.md:9-11` calls the write atomic). The trace: `d1` creates the
  empty file, `d2` reads no pid, removes it and creates its own.
* `daemon_run_probe`: without a PID file, starting a second daemon ends the first
  (its loop takes the frameless probe for an error), and the second gives up too.
* `event_loop_signal`: a client that connects and sends nothing makes the daemon
  deaf to SIGTERM.
* `event_loop_malformed`: a frame that does not decode is not answered with
  `Error`; it ends the daemon.
* `sockd_wait`: a request that cannot connect is to start the daemon and be sent
  again (`src/client.rs:101-102`); beside a daemon that has closed its listener and is
  still stopping, whose pid is alive, the client starts none and waits for nobody.

Smaller differences, read off the code, that need no run: a live process with the
pid of a leftover is not killed, the startup is refused (`docs/LIFECYCLE.md:5-7`);
a null string, or a null `argv`, is reported as `SOCKD_ERR_UTF8`, not
`SOCKD_ERR_NULL` (`include/sockd.h:22`); `error_out` is written on errors only, so a
caller that frees it after every call must reset it itself.

Every property of a passing run has a mutant in `PROJECT.json`: a change of the
model like a plausible bug of the code (the operators marked `Mutant` above the
definition they replace), under which TLC finds that property violated.

### Bounds

* Two daemons show every pairwise race, three (in `pid_file`) also that a third
  one cannot reopen what two have closed. A daemon process runs once; a restart is
  another member of `Daemons`.
* `MaxAttempts` is 3 in the code. Its value only says how often the same loop
  body repeats: `pid_file` and `daemon_run` use 2 (so both the retry and the
  exhaustion happen), the `sockd` runs use 1, because the claim is not their
  subject. The theorems hold for every value.
* In `sockd` the readiness timeout is 0 and the one for shutdown 1: a client tries once,
  at any time, whether a daemon is ready; daemons do not notice how often it tries.
  `sockd_live` has a readiness timeout of 3, a first sleep of 1 and a limit of 2, so the
  backoff grows and is capped, and after two sleeps a client has waited exactly its
  timeout and must give up; how far a wait may overrun is shown by the theorem
  `WaitsAreBounded`, for all timeouts and backoffs. `spawn_detached` fails with the
  fault `io`, and when the model has no process left.
* `sockd` has crashes and two daemons; all faults with one daemon are in `sockd_live`,
  whose clients do not call `ping`: what a ping does is the first attempt and the wait
  for readiness of a request, without the second attempt. A leftover socket file is in
  `daemon_run`.
* In `event_loop` an idle timeout of 4 ticks, a poll interval of 2 and 2 ticks per
  millisecond make the remainder below a millisecond, which rounds to a zero
  timeout, happen.
* In `exchange` a byte has 8 values and a buffer holds 5: less than half a header,
  so every frame comes in pieces and writers block. Limits of 1 and 2 with payloads
  of 0, 1, 2, 3 and the number that a `u32` no longer holds meet every comparison
  from both sides.
* In `ffi` three addresses are more than two callers hold at a time, so an address
  is used again; lengths 0, 1 and 3 include the empty `Vec`, whose pointer is no
  allocation.
* `Sockd` reduces the event loop to `LoopView`.

`CHECK_DEADLOCK` is off where daemons, calls and exchanges end, since a process that
has ended takes no steps; it is on in `ffi`, whose callers can always call again.

### Fairness

* `DaemonRun!FairSpec`: weak fairness of the steps of a process that is inside
  `run`. These calls wait for nobody, and the callbacks `on_start` and `on_stop`
  are assumed to return. Nobody has to start a daemon, to end its loop or to crash.
* `EventLoop!DaemonFairness`: the daemon is scheduled, and time passes. Time is
  strongly fair, because a zero timeout makes `poll` return again and again, and
  that must not stop the clock. `ClientFairness` (a client in service sends a
  frame or hangs up) is *not* enforced by the code, which reads without a timeout;
  `ConnectionEnds` and `EndsWhenQuiet` are stated under it, and
  `event_loop_signal` shows what happens without it.
* `Sockd!FairSpec`: clients and started processes are scheduled, a daemon in its
  loop serves, callbacks return. A call on a daemon whose `on_request` does not
  return never returns either: the client streams have no timeout, and
  `EveryCallReturns` says nothing of a daemon that stalls in its loop.
* `Exchange!FairSpec`: each end that can go on does; a read or a write that must
  wait for the other end is not enabled. No end has to die.

`PidFile` and `Ffi` are checked for safety only.

## What is proved

Seven modules of theorems, for all constants that satisfy the named assumption of
their module (`ConstantsOK`, `RunConstantsOK`, `SystemConstantsOK`,
`LoopConstantsOK`, `CodecConstantsOK`, `ExchangeConstantsOK`, `FfiConstantsOK`,
which TLC evaluates on every run). `PROJECT.json` lists the theorems.

**PidFileProofs.** `ExclusiveUnlessOverlap` is not inductive: from a state in which
one daemon holds the file and another is about to create it, the next step breaks
it. `IInv` adds, as long as startups do not overlap (`Quiet`), what holds at each
program point: at most one claim is under way (`OneClaim`) and it is in its first
attempt (`FirstAttempt`); a holder's file is at the path with its pid in it
(`HolderOwnsPath`); a claim that is about to probe beside a holder has read the
holder's pid (`ProbesHolder`), hence finds it alive and is refused; so a claim
past its checks runs beside no holder (`ClaimBesideNobody`), and from then on
nobody touches the path but itself (`PathReserved`). The refinement of `Ownership`
then maps `Create`/`Write` to a stutter and to `Acquire`, and `Drop` and `Crash` to
`Release`. `RefusalsNeedAnother` needs the other direction, with overlaps: what a
claim met at the path was made by a daemon that has got at least that far
(`MetByAnother`, about the set `Created`). It holds if no leftover has the number
of a daemon to come.

**DaemonRunProofs.** Every step of `run` is a step of the PID file or leaves it
alone (`ImplementsPidFile`), so `IInv` holds in every run. To it `OwnIInv` adds that
the statement of `run` determines where the claim, the listener and the state are
(`InStep`), and, for guarded daemons, what the socket path names (`PathIsOurs`).
Holding the PID file is exclusive by the first part, every daemon between the claim
and the drop of its guard holds it by the second, so whoever binds or cleans up is
alone with the path. From this follow all invariants of the run `daemon_run`, its
type invariant, and that the state is a lease (`StateIsALease`).

Here, too, `LeaseStep` says what each step of `run` does to the lease; the proof about
`Service` cites it.

**SockdProofs.** Every behaviour of the whole system is one of `DaemonRun`
(`ImplementsDaemonRun`), so its theorems hold beside any number of clients. Of the
calls, `CallIInv` says for each program point what its connection has come to,
whether `on_request` ran and what was returned (`Progress`), that the backoff is
within its limit once the first sleep is over (`Slept`, from which `GivesUpInTime`
is inductive), and that a daemon that has acknowledged a shutdown is past its loop
(`Acked`). `AtMostOnce` and `ResultTellsExecution` are parts of `Progress`.
`ShutdownMeansStopped` joins both halves: a daemon past its loop gets no new state
(`PastIsPast`), and what a client remembers of the PID file is the truth about a moment
of its call. By `PidOutlivesState` the first of its two system calls reads the pid of
the daemon whose state is alive, if there is one (`ReadsWhoIsWarm`); as long as that
state is alive the second finds the process (`WarmIsAlive`). Between the two, whatever
others do, a client that waits for the daemon that acknowledged holds that daemon's
pid as long as its state is alive (`Remembered`).

`SystemIsService` is proved step by step: a client's step is `Call`, `Execute`,
`Return` or a stutter of `Service` (`StepOfCall`); a daemon's step is one of its lease
(`StepOfLease`) or, when it serves, the `Execute` of the client it serves, and a daemon
in its loop has its state (`LoopIsWarm`). The delicate case is a shutdown that returns
true or false while the lease is not contended. At its return there may well be an
owner, a daemon that started since the client's `read_pid`. But if `kill` found nobody,
the daemon that `read_pid` named is not warm any more, and as there never are two
owners there was a moment without one in between, or at the read itself: that is when
the client enters `free` (`FreeIsMoment`).

`DaemonsServeAsEventLoop` rests on when a daemon serves: its listener is open in the
loop and until it is closed, and at no other statement of `run` (`Served`, with what
`phase` can do, `PhaseMoves`). So a client that connects is connected to a daemon
that serves or has just ended its loop (`ConnectsToServing`).
Then a step of a client changes the stage of its own connection at the one daemon it
is connected to (`ClientStepOfView`), a served request is executed and answered
(`ServeStepOfView`), and the end of a daemon cuts off exactly the connections it
still has (`DaemonStepOfView`).

**EventLoopProofs.** `Connections` relates the backlog to the connections that queue
(each once), the one in service to the program counter, and what was executed to
both; from it follow `AckIsLast`, `IdleCutsOnlyNewcomers` and `UnansweredMeansFailure`
(the theorem `UnansweredIsFailure`).
The two bounds on time rest on the arithmetic of the timeout (`RoundedDown`): what
`poll` waits is within both the idle deadline (`Clock`) and the poll interval
(`FlagKept`). `LoopIsView` maps every step of the loop to one of `LoopView` or to a
stutter. For that it must be known at each program point what the frame of the
connection in service is and whether it has been executed, and that no other
connection is in service (`InService`).

**FrameProofs, ExchangeProofs.** `DecodeUndoesEncode` and `AcceptedIsHeader` are the
two directions of the codec, for every base, magic number and length: what `encode`
writes is decoded to the same header, and bytes that `decode` accepts are those that
`encode` writes for the header it returns (`Encode(Decoded(buf)) = buf`), from the
uniqueness of quotient and remainder (`LastDigitIsUnique`, `DigitsOfU16Unique`,
`DigitsOfU32Unique`). In `ExchangeProofs`, `IInv` says that what an
end writes is one frame whose header is the encoding of what it means, or garbage
that no reader accepts (`Sending`), and that a reader which has twelve bytes knows
that header (`Reading`); hence `WholeFramesArrive` and `LimitIsKept`. How an exchange
comes out is a second invariant on top (`Ending`): a daemon that is over before the
client of a legal frame has taken that frame and written its whole answer, unless it
died or the answer was too long (`DaemonEnds`), and a client that is over has its
answer, or the daemon is to blame (`ClientEnds`). From it follow `LegalSucceeds` and
`NoDeadlock`. What a close loses matters here: the bytes in a buffer survive the end
that wrote them, and an end that reads a closed, empty connection fails.

**FfiProofs.** A caller holds at most one allocation, and only between the return of
a call and the release of what it returned (`Outputs`), so a new allocation
(`FreshIsFree`) never has an owner yet. `sockd_string_free` and `sockd_buffer_free`
recompute the size of what they free: a response has the length that the caller got
with it, and a message has its only NUL at the end, because `write_error` filters the
others out (`Stored`, `TextIsString`,
`StrlenIsSize`). Hence `HeapIsOwned`, the whole of `OwnedOnce`. A configuration, and
every client built from one, has the arguments of its own program (`Paired`).

Every invariant, action property and refinement that a passing run checks is a
theorem. Only model-checked is liveness: `RunSettles`, `ConnectionEnds`,
`EndsWhenQuiet`, `EveryCallReturns` and `ExchangeEnds` need fairness and `ENABLED`,
for which the prover has no rules. Liveness is therefore shown on the small
instances of the runs only.

## What is not modelled

* The values that `run` and the calls return beyond their kind (which error wins
  when `bind` and `on_stop` both fail, `src/daemon.rs:206`).
* A write of the daemon that blocks because the peer does not read, inside
  `EventLoop`: it has the blocking read, and the same consequence. `Exchange` has
  writers that block, with peers that follow the protocol.
* The cast of a pid from `u32` to `i32` (`src/pidfile.rs:70`) and process groups.
* `shutdown` of a client without PID file returns when the socket file is gone,
  before `on_stop`. `ShutdownMeansStopped` is therefore about clients that know it.
* Time inside an attempt of a client, which has no timeout.
* Permission errors that persist, file systems on which `O_EXCL` is not atomic,
  removal of a parent directory.
* C programs that break the rules of `include/sockd.h` (calls on a freed
  configuration, a pointer freed twice): undefined behaviour that `ffi.rs` cannot
  see.
* Configuration, builders and error text (plain data), examples and bindings
  (callers). The reference router (`reference/`) is the C program that sockd was
  extracted from; no code of the crate builds or calls it.

## What is left

* `EventLoop` inside `Sockd` in place of its reduction, indexed by daemon. Both keep
  to `LoopView`, so this would add to `Sockd` what that contract leaves out: the
  order of the backlog, the idle exit by time, and signals.
* A theorem for the direction that `LoopView` does not give: which behaviours of the
  loop the reduction has.

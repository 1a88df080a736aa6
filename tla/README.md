# A verification of rocpmd, the PowerHAT monitor daemon

`rocpmd` runs on a Raspberry Pi that carries the PowerHAT board. As a daemon it
polls the power button, measures the battery and shuts the machine down; as a
command (`--battery-level`, `--battery-level-raw`, `--power-off`) it prints the
level or makes the board cut the power. This directory holds TLA+ models of
it, the TLC runs that check them and the TLAPS proofs about them. Paths are
relative to the repository.

## 1. Inventory

| Component | Source | State | Operations | Interacts with |
|---|---|---|---|---|
| start of a process | `src/command-line.cpp`, `src/rocpmd.cpp` `main`, `is_board_installed` | options, the configuration being read | parse, check board and root, load, initialise pins, go on as command or daemon | device tree, configuration file, pins |
| process lifecycle | `src/rocpmd.cpp` `main`, `sig_handler`, `halt_system` | `rocpmd_status`, `g_conf`, `ROCPMD` | probe, initialise pins, run a command, daemonize, clean up, exit | lock file, pins, daemon loop |
| singleton lock file | `src/tdaemon.cpp`, `include/tdaemon.h` | `/var/run/rocpmd.pid`, its record lock, `lock_fd` | open, lock, truncate, write pid, unlock, unlink | every rocpmd process, `rocpmd.sh` |
| pins | `src/gpio.cpp` | exported sysfs pins, directions, levels | export, direction, read, write, unexport | shared by all processes |
| battery measurement | `src/gpio.cpp:363` | comparator (CS_B, UD_B, wiper), loop counters | reset upwards, count down, release | pins, board |
| main loop and server | `src/rocpmd.cpp:281`, `src/ud_server.cpp` | cached level, `power_off_flag`, descriptors | poll button, measure, log, select, accept, read, write, OFF | clients, pins |
| client | `src/ud_client.cpp` | one connection | connect, write, read | server |
| level decision | `map_battery_level`, powermap | none | raw to percent, halt on 0% | loop, configuration |
| log | `src/logger.cpp` | log file, one rotated file | rotate, append | loop |
| configuration | `src/config.cpp`, `config/rocpmd.conf` | pins, intervals, powermap | load, look up, validate | all |
| board state machine, shutdown | `man/rocpmd.1:215`, `src/gpio.cpp:306`, `scripts/rockillpower.sh` | POWER_OFF, POWER_ON, REQ_OFF, the OFF line | button, OFF pulses | loop, command, operating system |
| init script | `scripts/rocpmd.sh` | none | start, stop, restart | lock file, daemon |
| verbose output, device tree, makefiles | `src/verbose.cpp`, ... | none | printing, building | - |

The hard parts are the ones no unit test reaches: several processes share one
lock file and one set of pins without a lock around either; signals, crashes
and failing system calls end a process between any two steps; the battery and
the wall supply change while a measurement searches for the level; a single
thread serves sockets and watches the power button; errors are encoded as
negative numbers and then used as truth values. `PROJECT.json` lists these
hazards at their lines with the properties that watch them.

What makes each component correct:

- *lock file*: at most one daemon; the file names it; nobody else disturbs it;
- *pins*: a running daemon keeps the pins it polls and drives;
- *commands*: a command ends as a command, and `--power-off` really sends OFF;
- *measurement*: the answer is a level the battery had while it was measured,
  the measurement ends, and it leaves the comparator closed;
- *loop and sockets*: a shutdown has a reason, the button is noticed, a client
  gets an answer that was in force during its call, an acknowledged off request
  is obeyed;
- *shutdown*: it ends with the power cut, never before the file systems are
  unmounted, from whatever state an interrupted command has left the board in;
- *log*: a log survives the next start, wherever that start is cut off;
- *configuration*: what is loaded is what the file says; a file that is not
  legal to its end reaches no pin; the pins of a running daemon are its own
  configuration's, and everything exported is cleaned up again.

## 2. The modules

| Module | Models | Kind |
|---|---|---|
| `Lockfile` | the lock file's system calls, as actions on a directory entry, inodes, locks and descriptors | component |
| `Lease` | what the lock file promises whoever reads it | abstract specification |
| `GpioPins` | the exported pins | component |
| `Instances` | processes running `main()` against both: composes `Lockfile` and `GpioPins` | composition |
| `Comparator` | the board's comparator, as the code uses it (external) | component |
| `BatteryLevel` | `gpio_read_battery_level_raw()`, pin operation by pin operation, on `Comparator` | component |
| `Meter` | what a measurement promises its caller | abstract specification |
| `UdService` | the daemon's loop, its two sockets and their clients | composition |
| `QueryService` | what the daemon promises those who query it | abstract specification |
| `Service` | `rocpmd.sh` beside the processes of `Instances` | composition |
| `PowerBoard` | the power controller's state machine (external, `man/rocpmd.1:215`) | component |
| `BatteryLog` | `logger::logger()` on the file system | component |
| `Shutdown` | daemon, operating system, `rockillpower.sh`, OFF pulses: composes `PowerBoard` and `BatteryLog` | composition |
| `Startup` | command line, board check, `config::config()`, pins by role, and what a daemon makes of its configuration | component |
| `MC...` | constants and symmetry for TLC | |
| `InstancesProofs`, `QuietProofs`, `ServiceProofs`, `BatteryLevelProofs`, `UdServiceProofs`, `ShutdownProofs`, `StartupProofs` | theorems | proofs |

### Lockfile, GpioPins and Instances

A process runs `main()` once; `pc` names the call it is about to make, so that
one action is one system call, or one stretch of code that nobody else can
observe. `Start` to `ProbePid` are the first half of `main()`, `InitPin` and
`SetDirection` are `gpio_init()` for one pin, `ReadLevel` and `WriteOff` the
commands, the latter pulse by pulse, `CleanupPin` one pin of `gpio_cleanup()`,
`Open` to `Write` `daemonize()` and `is_running()`, `EnterLoop`, `HaltOnReqOff`
and `HaltReturns` the daemon, `Delete` and `Unlink` the two destructors. `Signal`
enters `sig_handler()` from anywhere in `main()`, the wait for the shutdown
command in `halt_system()` included; `Kill` and `Fail` end the process with no
handler.

The board is in REQ_OFF (`asserted`) after a press or a first pulse, and cuts the
power (`cut`) at the next. Between two pulses of a `--power-off` beside a daemon
that daemon may poll REQ_OFF_B, halt, and end: the command itself makes it halt,
with nobody at the button.

Details that matter and are kept: a lock belongs to a process *and an inode*,
and unlinking removes the path, not the inode; `rocpmd_instance_lives()` looks
at the path twice, and an empty or vanished file reads as pid 0, for which
`kill(0, 0)` succeeds; the pid of an ended process may belong to another
program (`PidReuse`); `rocpmd_status` is kept from the probe to the end of
`main()`; the destructor deletes an uninitialised pointer unless a log is
configured, which may end the process before it unlinks (a choice in `Delete`);
pins are global, and an unexported REQ_OFF_B reads as a pressed button.

Abstracted: a forked daemon keeps its process name; a pulse is one step, and the
pulse that cuts the power is the last; a signal inside the handler or inside
`delete`; low battery.

`Disciplined` is a scenario constant. When TRUE, nobody starts or signals a
process while another one is between two resting places; nobody signals a
process beside a daemon that is in its loop; and the lock file is not left empty
by a process that ends between its `open()` and its `write()`. This excludes
exactly the races that the code loses: a restart that does not wait, a daemon
that ends or begins between another process's probe and its use of the answer
(lines 113, 583 and 585 of `rocpmd.cpp`), and a ^C or SIGTERM
to a command beside a daemon: `sig_handler()` cleans up in any process that has
loaded the configuration (lines 74-90), takes the daemon's pins and lock file
away, and the daemon then halts the machine. So of the hazards at those lines the
properties checked under the discipline say nothing. What it leaves are crashes,
kills and stale files at rest, pulses that make a daemon halt under the command
that sends them, and shutdowns that have begun. These properties say what a
careful operator may rely on; section 3 says what becomes of them without it.

`Lease` is the abstract specification of the lock file: a file is leased to one
process at a time and a process leases one file at a time; only the leaseholder
changes what the file says, and signs with its own name; a file put in place is
blank and nobody's. Taking the file away is anybody's right, since `~tdaemon()`
does it without asking: the daemon of a file that is gone still has its lease,
and that is all `SingletonOnPath` can promise. `KeepsPromise` maps `place` to
the directory entry, `text` to the pids in the inodes, `holder` to the locks.

### Comparator, BatteryLevel and Meter

`Comparator` is the board according to `man/rocpmd.1:155-175`: the falling edge
of CS_B latches a direction, rising edges of UD_B move the wiper up to a rail,
PGOOD_B is high above the battery's trip level. `BatteryLevel` has one action
for each group of pin operations, one pin operation per step. `Drift` and
`Plug` change the battery and the wall supply between any two of them. `Fault`
is any pin operation failing; `GpioInit` is what another process's start does
to CS_B and UD_B. `lo`, `hi`, `onWall` and `clean` are history variables; a
measurement is `clean` if the comparator could be opened upwards when it began
(`Openable`: CS_B negated, or the direction latched upwards, as an abort in the
reset leaves it). Only an abort while the level is counted down spoils the next
measurement, and that one alone is exempted from `CleanReadingTrue`.
`Exclusive` (one measurement at a time) and `Faulty` are scenario constants.

`Meter` is the abstract specification: an answer lies between the lowest and
the highest level during the measurement, or is Charging if the wall supply
was on during it. `KeepsPromise` is the refinement.

### UdService

One daemon and a set of clients, each one call of `ud_client_send_command()`.
The daemon's labels follow one turn of the loop: `Poll` (line 319), `Measure`
or `IntervalNotExpired` (325-352), `Select`, `Accept`, `ReadCommand`,
`WriteAnswer`, `EndConnection` (ud_server.cpp), `TestFlag` (357-360). Kept: the
off socket's readiness is sampled before the level connection is served;
`read()` blocks until the client sends or closes; descriptors returned by
`accept()` are never closed (`leaked`, bounded by `MaxFd`), a failing
`accept()` skips the test of the flag, and with no descriptor left the pin
cannot be read; a write to a client that is gone raises SIGPIPE; a client whose
daemon ends sees an error, an end of file, after which it returns its
uninitialised `power_level` (any integer: a level, Charging, an acknowledgement
or something else, `Uninitialized`), or SIGPIPE, depending on how far its command
got. The off socket has no client in
the program's own `main()`; its clients use the same function with
`ROCPMD_SEND_OFF`.

`QueryService` is the abstract specification, with no sockets, queues,
descriptors or loop: a call takes effect at one point between its start and its
return, where a level query takes the level measured last and an off request is
noted before it is acknowledged; the power is cut only when one has been noted;
a call fails only if the daemon is not there; a caller may give up, and its
request may be noted even then. In the refinement (`KeepsPromise`) a call is
open from `connect()` to its return, its effect is the daemon's `write()`, and
the level is the last one measured. That the cached level which is written is
that one is not visible in the code of the server, and is what has to be shown.
A call whose daemon has ended without answering may return anything, a level
included, and its caller cannot tell. `AnswerTrue` says of every level that a call
returns that it was in force meanwhile, and names that case as the one exception.

Abstracted: a level is a member of `Value`, raw and percent are one answer (they
are stored and read by one thread); the backlog of 50 connections is not
reached; the log; several commands on one connection.

### Service

`rocpmd.sh`, one shell command per action: `Invoke` picks start, stop or
restart; `TestPidfile` is the `[ -e ]`, `CatPidfile` the `cat`, `KillDaemon` the
`kill`; `StartDaemon` runs the binary without options, and `DaemonReturns` is
the moment the shell gets it back: at `detach_terminal()`'s first fork, before
the lock file is opened, or when the process has failed. Between any two of them the processes of `Instances` go on:
nothing in the script waits for the daemon it has signalled. `ServiceSpec` lets
users start and signal processes too; `ScriptSpec` leaves the script alone with
the processes it starts, with no failure and no button. Under `Disciplined` the
script's own starts and signals wait for the processes to rest, which
`rocpmd.sh` does not: the runs `script_restart` and `script_halt` are without it.

### PowerBoard, BatteryLog and Shutdown

`PowerBoard` is the state machine of the manual: a press of the button or a
rising edge of OFF leads from POWER_ON to REQ_OFF and from there to POWER_OFF;
only the button leads out. `BatteryLog` has one operator for each system call of
the rotation; a log is named by the daemon start that opened it.

`Shutdown` has one daemon at a time, whose `StartDaemon` is `main()` up to the
loop (probe, pins, lock file), followed by the three steps of the rotation, and
whose loop is `HaltOnReqOff`, `NextMeasurementNotDue` and `Measure`. A turn that
does not halt ends in `handle_requests()`, where the daemon may come to read from
a client ("serving") until that has sent or closed (`ClientDone`). The operating system goes up, is asked to stop or reboot, ends daemon and commands,
unmounts, and then, only for a power-off, runs `rockillpower.sh`
(`FinalPowerOff`), whose command probes the lock file, prepares the pins if it
sees no daemon, and makes the six writes of `gpio_write_off()`, one per step
(`WriteOff`); the board may cut the power at any of them. A user's own
`--power-off` is the same command at any other time, and may be interrupted
between two writes (`Interrupt`), by a signal, whose handler cleans up, or by
SIGKILL, which leaves pins and line as they are; where it saw a living daemon and
that one has ended, it runs into `run_daemon()` (`CommandBecomesDaemon`). `Crash`, `Stop` and restarts of
the daemon, a second press, the battery, the wall supply and a clock set back
happen at any time. A power cut loses everything but the log directory.

Kept: `gpio_init()` drives OFF low, and is skipped when a stale lock file's pid
belongs to some living program (`PidReuse`); a pin that is not exported reads as
a pressed button; the `shutdown` command may fail and nobody looks
(`HaltSystem`; the machine then runs on with no daemon, and `left` notes why:
`shutdown` was "refused", or others have "ended" the daemon);
an empty battery found before the loop is acted on only an interval later; the
clock is the system's, and may be set back.

Abstracted: time is a count of ticks of the interval; the file systems are all
mounted or not; a lock file is there or not (module `Instances` has its races);
the socket's off command counts as a user's `--power-off`; `rename()`, and
`remove()` on something that is not a regular file, may fail in the code without
anybody noticing, here they succeed while the log directory is mounted.

### Startup

One process at a time goes through `Start` (options, board, root, file), reads
its file section by section and entry by entry (`LoadGpio`, `LoadSection`,
`Reject`), is accepted, initialises one pin per role (`InitPin`), and ends as a
command, becomes the daemon, or is turned away by the one that runs. SIGTERM and
SIGKILL come at any step of it, also beside a daemon: the handler then unexports
the pins of the configuration that this process has loaded, which may be the
daemon's, and unlinks the daemon's lock file (`listed` becomes FALSE). After that
the daemon runs on, and no further process is started beside it: that two
daemons may come of it is the matter of `Instances`. A file (`Contents`) is the sequence of the sections of
all its documents. Kept: sections are validated one by one as they are stored,
so that a file that is illegal at its end has already overwritten the
configuration; a later entry of a role, or a section that appears twice,
overrides or, for the power map, is appended; a role without an entry holds
uninitialised memory, any value of `Memory`; two roles may share a pin; a pin
that sysfs cannot export fails in `gpio_set_pin_direction()` and ends
`gpio_init()`, and `main()` goes on; the daemon keeps the configuration it has
loaded while other processes load others; `powermap[i]` reads beyond the map.
The board's entries in the device tree are compared as prefixes.

Abstracted: the parser (a section's values are in the record that stands for
it; what does not convert is a value that is not valid); what
`validate_gpio_direction()` and `validate_gpio_resistor()` look at is one flag,
for nothing reads those fields; ports and delays once they are checked.

## 3. Runs

All bounds are constants of the cfg files.

| Run | Question | Bounds, and why they are enough |
|---|---|---|
| `instances_any` | do lock and pid file hold, and keep the promise of `Lease`, whatever is started, signalled or killed? | 3 processes, 3 inodes, 2 pins: an ending, a running and a starting process; more inodes than two are needed only while two are in use |
| `script_quiet` | do the promises about daemons and commands hold when processes, signals and the script's steps come one at a time, and no process beside a daemon is signalled? | 4 processes, 3 inodes, 2 pins, no pid reuse; includes crashes of the daemon, stale files, `rocpmd.sh` restarts, pulses that make a daemon halt. A shutdown that has begun needs the fourth: a halting daemon, a command that races it, the daemon after it, and a `--power-off` |
| `script_restart` | tdaemon.h: is the daemon a singleton, with the script alone at work? (violated) | 3 processes, 3 inodes, 2 pins, no pid reuse |
| `script_halt` | README: is a shutdown always the button's or the battery's? (violated) | the same |
| `battery_turns` | does a measurement keep the promise of `Meter`? | 2 readers in turn, levels 0..2: both ends and a middle |
| `battery_aborts` | what survives failing pin operations, and does a measurement end? | 1 reader, levels 0..3 |
| `service_serve` | do clients, button and off requests get what they wait for, and does the daemon survive its clients? | 3 clients, descriptors for 4 |
| `service_failures` | what holds with signals, killed clients, descriptors running out, and is it a `QueryService`? (with the proof's inductive invariant `ServiceInv`) | 3 clients, descriptors for 2: both sockets' accepts run out |
| `service_stall` | README: is the button noticed whatever the clients do? (violated) | 2 clients |
| `shutdown` | does the final command cut the power, does the power go when the button or the battery asks for it, is it cut no earlier, do logs survive? | 2 boots, 1 further start of the daemon, an interval of 1 tick, the clock set back once: a log, its successor and the one after; a reboot, or a shutdown and a new start; a measurement that is due, one that is not, and one that was and is not any more |
| `log_boots` | manual: is the previous boot's log kept? (violated) | 2 boots, 1 further start |
| `startup` | what is loaded, who touches the pins, what does the daemon halt for? | 4 of the 7 roles (one of each direction at each end), 5 pins of which one is not a legal one, and one legal pin that does not exist; 11 files: proper, in two documents, crossed, shared, lacking a role, absent pin, illegal entry, illegal port, missing delay, missing log key, overridden; levels 0 and 1 |

Deadlock is not checked: in every model the system may rightly stop (all
processes ended, power cut, daemon gone and all clients served).

Symmetry is used where only invariants, action properties of steps, or a
refinement without fairness, are checked; never with liveness. Processes and
inodes are only compared.

### What the violated runs show

- `script_restart`: `rocpmd.sh restart` does not wait for the daemon it has
  signalled. The new process opens and locks the file once the old one has
  unlocked it; `~tdaemon()` then unlinks the path without asking whose file it
  names, the next start locks a new inode, and two daemons run.
- `script_halt`: in the same restart the new process sees the old one alive, in
  its handler, and skips `gpio_init()`; the old one's `gpio_cleanup()` then
  unexports every pin. The new process becomes the daemon, reads GPIO_ERROR (-2)
  as non-zero at line 319 and runs `shutdown -h now`.
- `service_stall`: a client that connects and keeps silent blocks the loop.
- `log_boots`: the logger rotates on each start of the daemon, not on each boot
  (`rocpmd.1:191`): after a restart the previous boot's log is gone.

### Differences between code and documentation without a run

The models reach these, but where it says otherwise under the constants of other
runs than the ones above: `Disciplined = FALSE`, `Exclusive = FALSE`, `Kills = TRUE`.

- `rocpmd.sh restart` may leave nobody: the new process comes to `lock()` before
  the old one, in its handler, has unlocked, and exits; then the old one ends
  (`rocpmd.sh:63`; `LockBusy` in `Service`).
- ^C on a command beside a daemon: the handler calls `gpio_cleanup(g_conf)` whether
  or not this process has exported the pins (`rocpmd.cpp:80`), and the daemon reads
  GPIO_ERROR and halts the machine. The handler unlinks the daemon's lock file,
  too, so that a next start makes a second daemon (`Signal` in `Instances`,
  `Interrupt` in `Startup`).
- A command that saw a daemon does not exit at line 583 but calls `run_daemon()`,
  where the lock turns it away, unless that daemon has ended: then the command
  becomes a daemon, though `rocpmd.1:81` says that it exits
  (`CommandsStayCommands` without the discipline; `CommandBecomesDaemon` in
  `Shutdown`).
- Two commands that find no daemon and measure at once both drive UD_B and CS_B,
  and return any level (`BatteryLevel` without `Exclusive`).
- A pin operation that fails while the level is counted down leaves CS_B low with
  the direction latched downwards. The next reset has no falling edge to latch
  "up" with, and runs the wiper to the wrong end: that measurement returns any
  level (`CleanReadingTrue` exempts it).
- No descriptor of `accept()` is closed; when none is left REQ_OFF_B cannot be
  opened, and GPIO_ERROR halts the machine (`HaltExplained` names it).
- A client that is killed between its command and the answer ends the daemon by
  SIGPIPE (`DaemonSurvives` with `Kills`).
- When the daemon ends without answering, the client's `read()` returns 0, which
  is no error, and `main()` prints what was on the stack as a level (`Receive`;
  `AnswerTrue` names it).
- `halt_system()` ignores the status of `shutdown` and ends the daemon: if it fails
  the machine runs on with the button pressed and nobody to read it
  (`rocpmd.cpp:373`; `left` = "refused", which `ButtonCuts` and `EmptyCuts` except).
- `powermap[i]` is not checked: for a level that the map has no entry for it
  returns what follows the map in memory, and where that is 0 the machine is
  halted on a battery that no map calls flat (`BeyondMap`, which `HaltJustified` of
  `Startup` excepts).

- A command that found no daemon unexports every pin when it is done, also those
  of a daemon that has started meanwhile (`HaltJustified` without the
  discipline). `--power-off` sends nothing if the pins were unexported after its
  probe, or if a stale lock file's pid is some other program's: then the machine
  stays halted under power (`misled` in `Shutdown`).
- The discipline does not mend this once a daemon has called `halt_system()`:
  a command that has met the halting daemon becomes a daemon on the file that
  one unlinks, a second daemon starts on a new file, the first is signalled and
  unexports the pins of the second, and a `--power-off` after that sees the
  second alive, skips `gpio_init()`, sends nothing and ends well.
  `PowerOffWorks` therefore promises nothing, from then on, to a command that
  found a living daemon; `rockillpower.sh`'s, at the end of a shutdown, is alone
  and exports the pins itself.
- The raw value is 63 minus the number of pulses, not their number
  (`rocpmd.1:279`). A failing read of D2_B, and a daemon that cannot be reached,
  are both reported as "Charging...".
- The manual has the OFF command send two pulses; the code sends three. Two
  suffice from every state (`ScriptOnItsWay`); the third meets a board that is
  off.
- The manual's key is `battery-level-interval`, the code's
  `battery-level-read-interval`; `battery-level-pgood-delay` is not documented
  and required; `--no-daemon` is not accepted; `config-path` names a file, not a
  directory; the long option is spelt `config-path:` in the table and works only
  as an abbreviation of that.
- `validate_gpio_duplicate_pins()` and `validate_gpio_roles_vs_direction()` are
  never called, and nothing asks whether every role, the reader section or the
  power map are there: what is missing is uninitialised memory.
- `is_board_installed()` accepts whatever begins with the expected name.

### Fairness

- `BatteryLevel!FairSpec`: weak fairness of a reader's pin operations. A
  measurement is straight-line code with bounded delays in one thread.
- `UdService!DaemonFairSpec`: weak fairness of the daemon's steps. Every wait in
  its loop is bounded (`usleep`, the 1 ms `select` timeout) except `read()`, and
  a blocked `read()` is a disabled action here, not a fair one.
- `UdService!FairSpec` adds weak fairness of each client's write and read, that
  is, clients that are not suspended. The code has no timeout that would stand
  for it, and `service_stall` shows that the button depends on it. Connecting, pressing, signals and kills are never fair.
- `Shutdown!FairSpec`: weak fairness of the daemon's steps, where it does not wait
  for a client (`Daemon`), and, as an assumption about the clients of its own
  (`ClientFairness`), that one which has connected sends or closes; without it
  `ButtonCuts` and `EmptyCuts` are as false as `ButtonHalts` in `service_stall`.
  Further, weak fairness of the boot's start of the daemon, of the operating system's shutdown once it is asked for, of the
  command's writes, and of the clock. Presses, restarts, crashes, the user's
  commands, the battery and setting the clock back are not fair; setbacks are
  bounded, for a clock set back for ever would postpone the measurement for ever.
  `ButtonCuts` and `EmptyCuts` end in the power cut, in `misled` (above), or with
  `left` other than "none": somebody has killed or stopped the daemon, or its
  `shutdown` was refused, and the machine runs on without it. The last of these is
  the code's own doing; both properties say nothing of it.

## 4. Proofs

`tlapm` checks the seven proof modules. The theorems hold for every set of
processes, inodes, readers and clients, every number of pins, levels,
descriptors, boots and starts, and configuration files of any length.

`InstancesProofs` (assumptions: the three named ASSUMEs of `Lockfile`,
`GpioPins` and `Instances`):

- `TypeCorrect`: `[]TypeOK`.
- `LockInvariant`: `[]LockInv`. `SingletonOnPath` alone is not inductive: it says
  nothing of a process that has the file open and not yet locked. `LockInv`
  says an inode's lock belongs to a process that has it open, a process past
  `lock()` owns the inode it opened, and, once written, its pid stays there,
  because nobody truncates without the lock and a new file is an inode nobody
  has open. The proof is one step per action over these five conjuncts.
- `OneDaemonPerLockfile` (`SingletonOnPath`) and `LockfileNamesItsDaemon`
  (`PidFileNamesDaemon`) follow from it.
- `ImplementsLease` (`KeepsPromise`): every step of `Instances` is a step of
  `Lease` or a stutter. Where the code does not ask, `LockInv` answers:
  `ftruncate()` and `write()` go to a descriptor whose lock the process holds,
  a process that asks for a lock holds no other, and an inode that comes into
  place anew has no owner left. `unlink()` is nobody's in particular.

`QuietProofs` (the same assumptions, and the constants that state the
discipline: `Disciplined` and `~PidReuse`; what they exclude is said in section 2,
and the runs `script_restart` and `script_halt` show that the theorems fail
without it):

- `QuietInvariant`: `[]QuietInv`. What a process did with its first probe of the
  lock file decides much later whether it unexports the pins or goes on to
  `run_daemon()`. `Orderly`, which holds until a shutdown begins, says why that
  is harmless while one process is at work at a time (`OneAtWork`): the file in
  place is the one everybody has open and is never left empty (`OnPath`,
  `FileFilled`), so that the probe returns exactly whether a daemon is in its
  loop (`ProbeIsTrue`), and that answer stays true (`KnowsDaemon`) up to the
  cleanup (`AloneWhenCleaning`) or the lock (`CommandSeesDaemon`);
  `gpio_init()` exports the pins one by one and nobody takes one from a process
  past it (`Exporting`, `PinsKept`).
- `OneDaemon` (`Singleton`), `CommandsExit` (`CommandsStayCommands`),
  `DaemonKeepsItsPins` (`LoopHasPins`) and `HaltsAtTheBoardsRequest`
  (`HaltJustified`: the board asserts REQ_OFF_B, for a press or for an OFF pulse)
  follow.
- `PowerOffCommandWorks` (`PowerOffWorks`). Before a shutdown begins a command at
  WriteOff has its pins by `QuietInv`: those of the daemon it met, or its own.
  Afterwards `Orderly` is gone, and a weaker invariant, which needs nothing of
  the lock file, does for a command that exported the pins itself: `HaltingInv`
  says that one process at most is at work (`OneWorking`), that a process on its
  way to read a level was asked to (`LevelAsked`), so that a plain `--power-off`
  comes from `gpio_init()` straight to the write, that the pins `gpio_init()`
  has come to are exported (`Exporting`), and hence all of them at the write
  (`PinsItExported`), and that a command between two pulses still has its OFF pin
  (`PulsedPin`), although its own first pulse may have made the daemon it met
  halt and delete: under the discipline nobody unexports a pin meanwhile.

`ServiceProofs` (the same assumptions; the constants of the discipline where
stated):

- `ServiceImplementsInstances`: `ServiceSpec => Spec` of `Instances`, for each step
  of the script is a step of a process, a signal to one, or leaves them alone
  (`ScriptImplements`, which needs `ScriptTypeCorrect`: the pid that `kill` is
  given is a process or nothing). Whatever is proved of `Instances` holds with
  the script at work; `ScriptKeepsThePromises` collects the promises of
  `script_quiet`.

`BatteryLevelProofs` (assumptions: `MaxLevel` a positive natural number, the
scenario constants Boolean; `Exclusive` where stated):

- `TypeCorrect`; it carries `CounterPositive`, the reason why the counter never
  leaves 0..MaxLevel.
- `MeasureInvariant` (under `Exclusive`, pins failing or not): `MeasureInv`, the
  inductive invariant. During the reset the wiper is at least the loop counter,
  so it ends at the rail from wherever the last measurement left it; while
  counting down, the counter *is* the wiper, and the battery has been below
  every level it was counted down from.
- `CleanReadingsAreTrue`: `CleanReadingTrue` follows.
- `ComparatorReleased` (`Released`) and `ImplementsMeter` (`KeepsPromise`: every
  step of `BatteryLevel` is a step or a stutter of `Meter`) need `Exclusive` and
  working pins, by way of the invariant that every measurement is clean.

`UdServiceProofs` (assumption: `ServiceAssumption`; signals and killed clients
allowed):

- `ServiceInvariant`: `[](TypeOK /\ ServiceInv)`. The code tests a socket's
  readiness once and uses it after it has served a whole other connection, and
  it reads the flag and the level long after they were set. `ServiceInv` says
  why this is harmless: a connection leaves a queue only through the daemon's
  own `accept()`, so what `select()` saw still waits (`ServedInv`); what waits on
  a socket sent that socket's command (`QueueInv`); and the published level is
  the last one measured, which every client still connected has seen in force
  (`LevelInv`). The type of `queue` itself rests on `ServedInv`, so the two are
  proved together.
- `AnswersAreTrue` (`AnswerTrue`, with no assumption about what a client returns that
  was left without an answer), `OffOnlyOnRequest` (`OffRequested`) and
  `HaltsAreExplained` (`HaltExplained`) follow from it, and so does `TypeCorrect`.
- `DaemonSurvivesItsClients` (`DaemonSurvives`), without signals and killed
  clients: a client whose command is unread, or read and not yet answered,
  waits and has had no answer (`CallInv`), so the answer never meets a closed
  connection and SIGPIPE never comes.
- `HaltsForButtonOrBattery` (`HaltJustified`), for a finite set of clients and more
  descriptors than clients: `HaltExplained` leaves exhausted descriptors as a
  third reason. `LeakInv` counts them: a queue holds no client twice, and the
  descriptors leaked are at most as many as the clients that have been accepted,
  that is, have connected and stand in no queue; a client is accepted once, so
  that there are never more than clients.
- `ImplementsQueryService` (`KeepsPromise`): every step of the daemon and of a
  client is a step of `QueryService` or a stutter. `LevelInv` makes the cached
  level the last one measured, and `OnceInv` says a command is answered once:
  a client whose command is unread, or read and not yet answered, has no
  answer, and an off request about to be acknowledged has set the flag.

`ShutdownProofs` (assumptions: those of `BatteryLog` and `Shutdown`; pid reuse,
crashes and setbacks allowed):

- `TypeCorrect`: `[]TypeOK`.
- `PowerInvariant`: `PowerInv`. `NoStranded` is not inductive: it says nothing of
  a command on its way. `PowerInv` says that OFF is high only in REQ_OFF, so that
  the first pulse of any command always has a rising edge to give, whatever an
  interrupted command left (`ScriptOnItsWay`: at six or five writes to go the
  board is in either state, at four it is in REQ_OFF with the line low, and the
  next write cuts the power); and that REQ_OFF remembers a single press, a user's
  command or the final command as its cause.
- `ShutdownsCutThePower` (`NoStranded`) and `PowerIsCutCleanly` (`CleanCut`).
- `LogInvariant`, `LogsSurviveOneStart` (`KeptOneStart`): where the log of this
  start and of the one before are at each step of the rotation; it holds although
  a crash or a power cut ends the rotation anywhere, because `remove()` of the
  older log comes before the `rename()` of the younger one and never after it.

`StartupProofs` (assumption: `StartupAssumption`: distinct roles, each on a pin of
its own on the board, pins are integers, files of the right types):

- `StartupInvariant`: `[](TypeOK /\ StartupInv)`, by one lemma per conjunct:
  `GoesOn` (who is in `main()` is root, on a known board), `Checked` (the sections
  and entries before the one it has come to are legal), `Mapped` (the map begins
  with the first map read), `Stored` (a role's pin is that of the last entry
  read), `Initialized` (the pins `gpio_init()` has come to are exported, for a
  running daemon all of them) and `Cleanable` (what is exported is in the
  configuration of the one process that will clean up, or was lost in a kill).
  `LoadedAsWritten` alone speaks of finished files only.
- `TypeCorrect`, `LoadsAsWritten`, `PinsAreReady`, `NothingIsLeft`,
  `PinsOfAcceptedFiles` (`OnlyAccepted`) and `HaltsAreJustified` (`HaltJustified`)
  follow from it. `PinsAreReady` holds while the daemon is `listed`, that is, until
  a signal ends a process beside it, and `HaltsAreJustified` names that signal as
  one of the causes of a halt, next to the button, to a level that the file's first map
  takes to 0% (`EmptyBy`), and to one that it has no entry for (`BeyondMap`).

Only model-checked: liveness (`MeasurementEnds`, `Answered`, `OffObeyed`,
`ButtonHalts`, `ButtonCuts`, `EmptyCuts`), which is out of the prover's reach.
Every invariant, step property and refinement the passing runs check is a
theorem.

## 5. What is not modelled

Verbose output, syslog and the wording of messages; the yaml parser;
`fd_to_dev_null`, umask and working directory; the lines written to the battery
log; a signal inside `sig_handler()` or inside `delete ROCPMD`, after which memory
that has been freed is used; SIGHUP apart from the other signals (a daemon ignores it from its
first fork on); several commands on one
connection; the device tree and the makefiles.

## 6. What is left

1. `Startup` and `Shutdown` each have one process in `main()` at a time;
   their composition with the interleavings of `Instances` is too large for TLC
   as it stands.
2. Two hazards have no property: a command between the pid's write and the
   sockets' creation finds a daemon it cannot reach (`rocpmd.cpp:286`), and
   `sig_handler()` may run inside itself (`rocpmd.cpp:74`).

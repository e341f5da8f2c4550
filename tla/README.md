# Motor-Servo: a TLA+ model

Motor-Servo turns an output axis with an ALPHA servo amplifier. A Linux daemon on an
AM335x board speaks Modbus RTU to the amplifier over one serial line, hears an absolute
encoder on another, and takes commands as UDP datagrams from an operator's window
(Windows Forms), a web page and two small terminal programs. This directory holds a
model of that system in TLA+, the TLC runs that check it, and the proofs that TLAPS
checks. `PROJECT.json` maps every definition to the lines it stands for.

- [1. The system](#1-the-system)
- [2. The modules](#2-the-modules)
- [3. The runs](#3-the-runs)
- [4. Fairness](#4-fairness)
- [5. What is proved](#5-what-is-proved)
- [6. Where the code differs from what it says](#6-where-the-code-differs-from-what-it-says)
- [7. Not modelled](#7-not-modelled)
- [8. Plan](#8-plan)

Run everything from this directory:

    tlc -workers 2 -config MotorServo_service.cfg MCMotorServo
    tlapm MotorServoProofs.tla

## 1. The system

### Components

| Component | State | Operations | Correct when |
|---|---|---|---|
| **Command thread** (`cmdparser.c`, `high_level_control.c`, `alpha_motion_control.c`) | `g_ctrl_status`, `g_stop`, the limits `g_left_angle`/`g_right_angle`, `destination_angle`, the profile (`cruise_speed` and two times), `clientAddr`, the command being executed | 14 commands, each a sequence of Modbus transactions; after each turn of its loop the checks of INP, alarm, over-travel, data error, lifetime | FREE is only shown by a drive that stands still; travel stays between the limits; `$B` means arrived; a stop ends all motion and releases the servo; the profile in force is the one reported |
| **main** (`main.c`, `alpha_setting.c`) | where it is in its start; `g_start_angle`; the two zeros; the open devices | read settings, odometer, open the line, write and verify 60 parameters, servo on, profile, encoder, wait for its first frame, `position_reset`, socket, 5 ms loop, servo off | the zeros of drive and encoder agree in service; the servo is on only with verified parameters; a process that gives up leaves it off |
| **Supervisor** (`hold.sh`, `auto_start.sh`) | none | start the daemon when there is none | the daemon comes back after every exit |
| **Settings** (`iniparser.c`, `dictionary.c`, `parse_ini_file`, `create_example_ini_file`) | `configure.ini`, a dictionary of slots | load, grow, set, get; write an example | the settings are what the file says; the operator's file is written over only when it cannot be read |
| **Odometer** (`global_setting.c`) | `g_sum_angle`, `sumangle.txt` | read at the start, add the way of a motion before it begins, write | no restart forgets travel |
| **Encoder thread** (`am335x_setting.c`) | `g_recvbuf`, `encoder_position`, `g_start_angle`, `encoder_is_enable_` | read bytes, find frames, check the sum, wrap at half a turn, filter jumps | no false first frame; the published angle is that of the axis, and is found again after a loss |
| **Modbus master** (`modbus.c`, `modbus-rtu.c` under the `OPLOOPS` loops) | one context without a lock; what is unread in the serial driver | send, wait, read, confirm, retry | a read answers its own question; a write that reports success took effect; one message that is lost, refused or has a wrong sum is made good |
| **Amplifier** (not in the repository) | coils, registers, position, faults | positioning to a register's value on START, cancel, emergency stop, over-travel inputs, reset | what the daemon assumes of it |
| **Operator's window** (`Form1.cs`) | the socket and its lock, the scan (`cmdstatus`, `timer1`, two ends), last status and angle | connect, close, points, scan, check, cancel, stop, inquiry; listening thread; timer | the window does not freeze; a cancel is final; a continuous scan keeps turning |
| **Log** (`elog.c`, `elog_port.c`, `elog_utils.c`) | the log file, one line buffer, the output lock | open, start, close; format and write a line | a line in the file is one call's; logging never keeps the process alive |
| **Lines of the process** (`main.c`, `modbus-rtu.c`, `am335x_setting.c`) | the Modbus context, two serial lines with the settings the kernel keeps | open and set both lines; give everything back in order | a configuration that served once serves again; the servo is released before the context is freed |
| **Web page** (`platop.c`, `info.c`, ...) | a process per request; shared memory that main writes | send one command; show status and how busy the processor is | nothing older than the last complete publication; the usage is a share of the time that passed |
| **Terminal** (`motor_term.c`) | one global socket, made by whichever of two threads comes first | send typed lines, print answers | it listens where answers go, or is gone; it hears the axis again |

### How they interact

- The command thread, main and the encoder thread share the C globals without a lock.
  Main writes `g_stop` and reads it in its loop; the command thread writes status,
  limits and profile; the encoder thread writes the position the command thread compares
  with the limits.
- The command thread and, after its loop, main call into the same Modbus context.
- Clients send datagrams into one socket. `clientAddr` is whoever spoke last: `$B`, `$D`
  and the `$A` status stream (200 a second) go there.
- The encoder and the amplifier count from zeros of their own: `g_start_angle` is the
  angle of the first frame, PST_PRESET sets the zero of the drive. `goto_point` subtracts
  the one to command the other.
- The amplifier outlives the process, with its servo, its motion and its coils.
- Main and the command thread log into one buffer under one lock, and main closes the log and
  frees the Modbus context without waiting for the command thread.
- Main copies angle and status into shared memory every turn of its loop, without a lock; the
  segment outlives the process. Each request of the page is a process that copies them out.
- The terminal binds a fixed port and gets the same `$A` stream as the window, as long as it was
  the last one to speak.
- The window's UI thread and listening thread share the lock `mclient`, which the
  listening thread holds while it blocks in `Receive`, and the last status and angle
  without a lock.

### What is hard to test

A handler is a sequence of up to some 25 transactions, each of which may fail with or without
effect, while the drive moves, raises faults, the encoder thread publishes and clients
queue further commands. The process may be killed between any two steps, and what it
leaves in the amplifier and in two files is what the next one finds. On the lines, bytes
and replies are lost or late. `PROJECT.json` lists each of these hazards at the line where
it bites with the properties that would show it going wrong, or why none does.

## 2. The modules

| Module | Models | Extends / instances |
|---|---|---|
| `Drive` | the amplifier as a record and pure operators on it (external) | - |
| `MotorServo` | command thread, end of main, drive, encoder angle, inbox | `Drive` |
| `AxisService` | abstract: what clients may rely on | - |
| `MotorServoService` | the refinement mapping from `MotorServo` to `AxisService` | `MotorServo`, `AxisService` |
| `MotorServoProofs` | theorems about `MotorServo` and its motions, and that it implements `AxisService` | `MotorServoService`, `TLAPS` |
| `Startup` | main from start to exit, `hold.sh`, kills | `Drive` |
| `StartupProofs` | theorems about `Startup` | `Startup`, `TLAPS` |
| `Configuration` | `configure.ini` to settings | - |
| `ConfigurationProofs` | theorems about `Configuration` | `Configuration`, `TLAPS` |
| `SumAngle` | odometer | - |
| `SumAngleProofs` | theorems about `SumAngle` | `SumAngle`, `TLAPS` |
| `Encoder` | bytes to angle | - |
| `EncoderProofs` | theorems about `Encoder` | `Encoder`, `TLAPS` |
| `ModbusLink` | transactions on the line | - |
| `ModbusLinkProofs` | theorems about `ModbusLink` | `ModbusLink`, `TLAPS` |
| `ScanClient` | the operator's window, against the promised service, over restarts of the daemon | `AxisService` |
| `Logger` | EasyLogger as the daemon uses it | - |
| `Resources` | what main takes and gives back: log, Modbus context, serial lines | `Logger` |
| `ResourcesProofs` | theorems about `Logger`; `Resources` implements it; theorems about `Resources` | `Resources`, `TLAPS` |
| `Terminal` | the text terminal and its two threads | - |
| `StatusPage` | shared memory, page requests, usage of the processor | - |
| `Monitors` | terminal, page and daemon together, around one `clientAddr` | `Terminal`, `StatusPage` |
| `MonitorsProofs` | theorems about `Monitors` | `Monitors`, `TLAPS` |
| `MC*` | the instances for TLC: small sets of requests, lines, operations | the module of that name |

`MotorServo` has an operation of the daemon succeed, fail without effect or fail with effect, all its
attempts together; `ModbusLink` is the argument that the line gives no more than that as long as it is
found empty. How many faults it takes is another matter: a late reply, or one taken for shorter than it is, can fail
every attempt (see 6).
`ScanClient` runs against `AxisService`; `MotorServo` is shown to implement it.
`Startup` has the command thread in outline and the reading of the settings as one step;
`MotorServo` begins where `Startup` has finished, and `Configuration` has the reading step
by step. `Resources` has the same life of main once more, for what it holds instead of for what the
amplifier does: the transactions in between are single steps there.

### MotorServo

A handler is a *program*: a sequence of instructions such as `Coil("START", TRUE)`,
`Send("SPEED", "cruise")` or `WaitInp`. `Program` gives one per command; the call chain of
the C code (`run_cmd` -> `goto_point` -> `run_to_angle` -> `start` -> `set_cont_on`) is what
it concatenates. One step of the command thread is one instruction, so everything else is
interleaved between any two transactions. Local effects that no other thread can separate
are one step with the reception of the command: `Accept` sets status, limits and profile
before the first transaction, in the order of `run_cmd`.

| Code | Model |
|---|---|
| `parsesocket`: recvfrom, parse, exchange of left and right | `Received`, `Parse` |
| tests on the status | `NotReady`, `NeedsFree`, `Admitted`; `Refuse` answers `$D` |
| `run_cmd`, status and stored values | `Accept`, `StatusOn`, `Rate`, `ClampRate`, `ClampAngle` |
| `set_cont_on/off`, `set_alpha_*`, `is_INP` with a negative result | `WriteFails`, `Reads` (a failed read counts as off) |
| early return of a handler on a failed call | `Abort`; `Resume` for `GEMG`, which ignores results |
| checks at the end of the loop | `PollInp`, `PollAlarm`, `Check*Limit`, `Clear*Limit`, `PollWarning` |
| main after `while (!g_stop)`: release, close the line, return | `MainSeesStop`, `MainServeOff`, `MainCloses`, `MainReturns` |
| the encoder thread | `EncoderSamples` (lags behind the drive), `EncoderFreezes` |

Positions are whole units of the output axis; speed and times are one small range. Two
writes that have no effect before START (the control mode and the position words) are one
instruction. `set_g_left_angle` keeps its clamp, the setters of speed and times their
unsigned parameter (a negative value becomes the largest).

### Startup

`boot` is the place in `main`; every call that can fail fails on its own, out of a budget of
its own kind (`spent`). `Crash` kills the process anywhere; `Launch` is `hold.sh`. `drive`,
`right` (the parameters with the intended value), `shaft` and the two files survive. The
encoder's angle of the axis is `shaft`, the drive's is `drive.pos`; `start` is
`g_start_angle`, so `shaft = start + drive.pos` says that the zeros agree (`Aligned`).
`position_reset` is the sequence `PositionReset`, a step per transaction, its wait for INP
included. `unclean` records what a process found when it was started.

### Configuration

A line is what `iniparser_line` makes of it: a section, a value, noise, something wrong, or
a line too long for the buffer; `more` marks a trailing backslash. The dictionary keeps its
slots, its count and the search for a free slot from the count on. Next to the step by step
reading stands `Says`, which tells from the whole file, without reading it in order, what a
setting is; `ReadsWholeFile` compares the two.

### SumAngle, Encoder

`SumAngle` keeps `sumangle.txt` as its digits, because what `"r+"` does to it depends on
their number. `Encoder` keeps frames as bytes of a small radix with the header, the value
and the sum, because the interesting cases are headers inside values and frames with a byte
missing. `recv_proc_data_1/2` are `HasFrame`, `First`, `Consumed`, `Sound`; the filter is
`Near`. A byte below `Base = 8` and a header of sum 4 stand for 256 and FF 81 (sum 0x80).
`Count` is a position modulo the turn, so the axis may also pass the encoder's zero; `Weight` is what a byte
of the position is worth. `Streamed`, in the proofs, says that buffer and driver hold the end of a stream of frames.

### ModbusLink

`requests` and `replies` are what is on its way. A reply has a function and a value and no
address, as an RTU reply has; `Accepts` compares what `check_confirmation` compares. How much
`receive_msg` reads goes with the function and the byte count in the reply itself. A reply in which
neither was hit is read whole, whoever asked for it. `Debris` stands for bytes that do not tell how long they are: a reply
with one of the two hit, or the rest of one read short. A reading that begins there ends at a boundary
or inside a message, that one or a later one (`UnreadAfter`), and so does one that two threads
share (`Split`); `Torn` is all that either may leave. The history `astray` says of a call whether it found something
on the line, or a reply has been late or of a wrong length since; the properties say which of it
they can bear. An operation is one bit or register; TRUE stands for the new value.

### ScanClient

The UI thread posts a command in two steps, since `CommandSend` needs the lock: `sending`
holds it meanwhile and no other event is served. A tick of the timer reads the status, then
the angle (`Tick`, `TickEnds`); the listening thread holds `lock` from `Listen` to `Take` or
`ReceiveTimeout`. The daemon's side are the actions of `AxisService` under the datagrams. `Restart`
is the daemon's end and its next start: the axis rests where it is, the client is forgotten.

### Logger, Resources

`elog_output` is `Log` (the level filter), `Lock`, one `Package` per cell, `PackageNewline`,
`Output`, `Unlock`; a cell holds the thread and the number of its call, so that a line that
is mixed of two calls can be seen. A line too long for `Size` loses cells, never its newline.
`Resources` composes it with main (`boot`), the command thread's use of context and log, and
`tty`: what each line is set to in the kernel. `RtuSpeed`, `RtuFrame`, `UartSpeed`, `UartFrame`
are the switches over speed, bits and parity, with what they do to a value they do not know.
`Reset` is a reset of the board, `Edit` a change of `configure.ini` between two starts. What the command
thread does with the freed context or the closed file is undefined: `UsesFreed` and `WritesClosed` end the
process there, and it may as well go on, without an answer or without the line.

### Terminal, StatusPage, Monitors

`CheckSock`, `MakeSocket` and `BindSocket` are the three steps of `init_sock`, taken by either
thread with nothing between them and the other. `sock` is an index into the sockets made, so that
a thread can bind the other one's. `Receive` leaves open what depends on addresses: an answer
with a comma and without `$A` is printed or ends the process.

`StatusPage` copies the 32 bytes word by word on both sides; angle and status are the numbers
of their versions, which is all that "older" needs. `complete` and `request.since` are histories.
`FirstReading`, `SecondReading` and `UsageShown` are a request for the usage of the processor;
`occupy` holds the true counters, without a range. `Read` is `sscanf("%u")`, which past the range gives the
greatest value with the library the page is built for (C leaves it open); `cal_occupy` then computes sums and
differences modulo `Modulus`.

`Monitors` adds the one `clientAddr`: `HandleCommand` makes the sender the client, `SendAngle`
sends to it, a page's command takes the stream away and its socket is closed by then.

## 3. The runs

States are distinct states as TLC counts them; a violation ends its search early.

| Run | States | Question | Properties |
|---|---|---|---|
| `MotorServo_service` | 151 k | Does the daemon keep what it promises when nothing fails? | `DoneMeansArrived`, `TravelWithinLimits`, `NoMotionAfterStop`, `ImplementsService` |
| `MotorServo_faults` | 1.38 M | Which of it survives failed transactions and faults of the amplifier? | `TypeOK`, `FreeMeansStandstill`, `ServoReleasedOnExit`, `ProfileApplied` |
| `MotorServo_live` | 231 k | Does everything end that should? | `StopEnds`, `LocatingEnds`, `ClearCheckEnds`, `OvertravelCleared` |
| `MotorServo_check_hang` | 3 k | Can a self check last for ever? (It can.) | `CheckEnds`, violated |
| `Startup_restart` | 112 k | Do the zeros agree, is the servo configured and released, does the daemon come back? | `AlignedInService`, `ServoConfigured`, `ExitReleasesServo`, `BackInService` |
| `Configuration_files` | 578 k | Are the settings what the file says? | `ReadsWholeFile`, `OverwritesOnlyUnreadable`, `ComesToServe` |
| `Encoder_stream` | 165 k | Is the angle right, and found again? (encoders 1 and 3) | `NeverFooled`, `UpToDate`, `FollowsAgain` |
| `ModbusLink_losses` | 2.32 M | Do answers belong to their questions? | `NothingLeftBehind`, `ReadIsOwn`, `WriteTookEffect`, `FailsOnlyAfterFaults` |
| `SumAngle_kills` | 143 k | Is travel ever forgotten? | `NeverUnderestimates`, `FileNeverGoesBack` |
| `ScanClient_operator` | 191 k | Does the window stay alive, its scan turn, and what it shows come true? | `UiNeverFreezes`, `CancelRests`, `ScanTurns`, `FollowsAxis` |
| `Resources_lives` | 401 k | Do log, context and lines survive lives of the process, and does it end? | `LinesWhole`, `WorksAgain`, `FaultsOnlyReleased`, `StopEndsRun` |
| `Monitors_watch` | 489 k | Do terminal and page see where the axis is? | `NeverDeafSilently`, `FreshFields`, `UsageIsShare`, `TerminalHears` |

Every module has a type invariant, `TypeOK`. `MotorServo_faults` checks the one that is proved; the
others hold on the instances above too (put `INVARIANT TypeOK` into the cfg) and are left out of
the runs because they say less than what else is asked there.

### Bounds, and why they are enough

**MotorServo.** The axis has the units -2..2 between its mechanical limits, so that there is
a place inside, on and outside of every pair of limits a client sets, and every motion takes
more than one step.
- *service*: three commands, one waiting; points beyond both limits; `maxpoint` with its
  ends in the wrong order and with ends beyond the range; `Anticlockwise`; the encoder may
  fall silent. Three commands are what it takes to move a limit, start a motion and interrupt
  it. Every pair of limits contains the origin; those that do not are in *live*.
- *faults*: two failed transactions, since two different ones have to fail for the servo to
  stay on; one fault of the amplifier; every kind of handler. A speed beyond `FastFrom = 1` is taken
  for 2 (`set_speed_value`).
- *live*: a failed transaction and three commands, one waiting. `configure.ini` leaves the axis right of
  both limits; `maxpoint` can move them past it to the right and back around it. So each over-travel input is set,
  cleared, and set together with the other, outside the limits (the trap of section 6, which the run
  reaches) and between them.

**Startup.** One of every kind of failure, one kill and one motion, with two parameters, both
files there or not and the parameters right or wrong at the beginning.

**Configuration.** Every file of up to four lines of ten kinds (11 111 files and none at all):
a setting in its section, repeated, before a section, continued, wrong. New dictionaries have
room for two entries, so that the third grows it. The clamp is at 3 for angles of -9.

**SumAngle.** In radix 3 sums of 1, 24 and 27 and three motions of up to 4 gain a digit; two
kills, so that the recovery from one may meet the other.

**Encoder.** A position has two bytes, so that a value can look like a header. The axis moves
at most one pulse a frame (`MaxStep`), seven in all. That one stands for the 17.3 pulses which encoders 1 and 3
make in a frame at top speed, and a threshold of 6 for their 100: less than six frames. The position's two bytes make it encoder 3 for
`UpToDate`, see 6 for what encoder 1 does there. A buffer of 16 bytes overflows when bytes without a header have gathered in it. Encoder
2 is not an instance: see 6.

**ModbusLink.** `OPLOOPS` is 2 as in the code. Three operations are one that leaves something
behind, one that takes it and one more; two faults are enough to fail both attempts of one. Two threads on the
line and a fault as well are not explored further (`CONSTRAINT Claimed`): nothing is claimed of what
follows, since each property is true of such a state by its hypothesis. Deadlock is not checked: the calls run out.

**ScanClient.** Two places, the two ends of the scan; two buttons after the connection; one
datagram lost, one command from the web page or one restart of the daemon; queues of one. Deadlock
is not checked: an operator need not press anything.

**Resources.** Two lives, with an edit of `configure.ini` or none and a reset of the board or none
between them. Each line is asked for well, with a speed that no switch knows, or with another
speed or frame than the device's. Two failures, kills among them. A line of the log is longer
than the buffer of three cells: some of it fits, some is cut off, the newline is kept. Each thread logs up to two
lines a life, so that main can still report a failure after it has logged something. Deadlock is not checked: the
lives run out.

**Monitors.** A change of angle or status between any two steps, and two of: a command of the page,
the end of the daemon's process. Terminal and page request share nothing but the daemon, which
neither waits for, so one of them at a time is enough (`MaxUsers`). Two sockets, one for each thread;
answers are kept one of each content, commands one at a time. The usage of the processor is
computed for all counters up to 4, one more than a reading can hold, and up to two more of each, before anything
else happens, since its two readings share nothing with anybody (`Untouched`). Deadlock is not checked: the
operator may go home.

### What each property excludes

Each property has a mutant in `PROJECT.json`: a definition of the model changed the way a
slip in the code would change it, under which TLC finds the property violated in the same
run. They double as a description of the slips the property would catch, e.g. `Resume`
going on at the wrong transaction of the stop command, `ReadsTrusting` taking a failed
read for "on", `ClearRightLimitCopied` clearing the left input twice, `OpenTruncating`
opening the odometer `"w"`, `RtuSpeedKept` leaving an unknown speed as the kernel has it,
`AfterLoopClosing` giving the context back before the servo, `RefusedGoesOn` not leaving when the
port is refused.

## 4. Fairness

Weak fairness is used wherever the code has a loop that nothing else can stop.

| Where | Assumed | Because |
|---|---|---|
| `MotorServo` | WF of the command thread, main, the drive, the encoder | Linux threads in endless loops with timeouts on every blocking call (`recvfrom`, Modbus); a healthy drive moves; the encoder streams unasked |
| `Startup` | WF of `Launch`, main, the first frame, the drive | `hold.sh` loops; main has no wait without a bound but the one for INP |
| `Configuration` | WF of the program and `Launch` together | one thread |
| `Encoder` | WF of `Emit`, `Read`, and of the loop over frames | the encoder streams unasked |
| `ScanClient` | WF of the daemon and of every thread (the listening thread as one); SF of `SendStatus`, `CommandSend`, `Tick` | `$A` is sent 200 times a second, so some finds room; the listening thread takes the lock again at once after it released it, and .NET's monitor hands it to a waiting thread some time |
| `Resources` | WF of main's steps together, WF of a thread inside `elog_output` | both threads are scheduled; the command thread's own steps owe nothing |
| `Monitors` | WF of main's loop, `SendAngle`, `HandleCommand`; of `init_sock`, `Send` and `Receive` of the terminal | each is a thread in an endless loop whose blocking calls return when there is something |

No fairness is given to clients, to the operator, to requests of the page, to faults or to kills. `MotorServo_service`
needs fairness too: what it implements includes that a motion begun comes to its end.

## 5. What is proved

Each theorem holds for every value of the constants that satisfies the named assumptions of its
module.

| Module | Theorem | States |
|---|---|---|
| `MotorServoProofs` | `TypeCorrect` | `Spec => []TypeOK` |
| | `FreeIsStandstill` | `Spec => []FreeMeansStandstill` |
| | `ServoReleased` | `Spec => []ServoReleasedOnExit` |
| | `Course` | `Spec => []CourseInv` |
| | `TravelBounded` | `Left0 <= Right0`: `Spec => []TravelWithinLimits` |
| | `ProfileKept` | `Spec => []ProfileApplied` |
| | `DoneIsArrived` | `Spec => []DoneMeansArrived` |
| | `StoppedForGood` | `Spec => NoMotionAfterStop` |
| | `ServesWhileIntact` | `Spec => Service!Init /\ [][Intact' => Service!Next]_(Service!vars)` |
| | `ServesTheAxis` | no failures and faults: `Spec => Service!Init /\ [][Service!Next]_(Service!vars)` |
| `StartupProofs` | `TypeCorrect` | `Spec => []TypeOK` |
| | `ConfiguredServo` | `Spec => []ServoConfigured` |
| | `ExitReleases` | `Spec => []ExitReleasesServo` |
| | `ServesAligned` | `Spec => []AlignedInService` |
| `ModbusLinkProofs` | `LineLeftEmpty` | `Spec => []NothingLeftBehind` |
| | `ReadsAreOwn` | `Spec => []ReadIsOwn` |
| | `WritesTakeEffect` | `Spec => []WriteTookEffect` |
| | `FailuresAreFaults` | `Spec => []FailsOnlyAfterFaults` |
| `ResourcesProofs` | `LoggerTyped` | `LoggerSpec => []LoggerTypeOK` |
| | `LinesAreWhole` | `LoggerSpec => []LinesWhole` |
| | `DaemonLogs` | `Spec => LoggerSpec` |
| | `DaemonLinesWhole` | `Spec => []LinesWhole` |
| | `FaultsAreReleased` | `Spec => []FaultsOnlyReleased` |
| | `ServedWorksAgain` | `Spec => []WorksAgain` |
| `MonitorsProofs` | `TerminalIsNotDeaf` | `Spec => []NeverDeafSilently` |
| | `PageIsFresh` | `Spec => []FreshFields` |
| | `UsageIsTheShare` | `Spec => []UsageIsShare` |
| `SumAngleProofs` | `OdometerHolds` | `Spec => [](TypeOK /\ Odometer)` |
| | `OdometerCovers` | `Spec => []NeverUnderestimates` |
| | `OdometerGrows` | `Spec => FileNeverGoesBack` |
| `ConfigurationProofs` | `LoadingHolds` | `Spec => [](TypeOK /\ Typed /\ Loading)` |
| | `ServesWhatFileSays` | `Spec => []ReadsWholeFile` |
| | `ExampleOnlyOverUnreadable` | `Spec => OverwritesOnlyUnreadable` |
| `EncoderProofs` | `EncoderTyped` | `Spec => []TypeOK` |
| | `EncoderIntact` | `Spec => []Intact` |
| | `TakesOnlyWhatIsSent` | `FramesApart`: `Spec => []NeverFooled` |
| | `SixteenBitsNeverFool` | encoders 1 and 3: `Spec => []NeverFooled` |
| | `PublishesTheLatest` | `FramesAlone`, `StepsNear`, room in the buffer: `Spec => []UpToDate` |
| | `TwoBytesUpToDate` | encoder 3: `Spec => []UpToDate` |

Every safety property of every run is among them, the invariants and the action properties; so is the safety
half of `ImplementsService`.

The assumptions:
- `MotorServoAssumption` only says of what type the constants are, that there is a client, and
  that the limits of `configure.ini` lie in the mechanical range (the setters see to it).
- `Left0 <= Right0` in `TravelBounded`: main takes the two limits of `configure.ini` in any order
  (main.c:388); a file that has them exchanged leaves nothing between them. `maxpoint` puts its
  own in order, and needs no assumption.
- `MaxFails = 0` and `MaxUpsets = 0` in `ServesTheAxis` say that no transaction fails and the amplifier
  raises no fault. `ServesWhileIntact` has the same without the hypothesis, for the behaviour up to the
  first failure; what is promised after it are the other theorems, which all hold under failures.
- `ModbusLinkAssumption` has finitely many threads (the attempts under way are counted) and something
  to read.
- `LoggerAssumption`, `TerminalAssumption`, `StartupAssumption` and `StatusPageAssumption` are about
  types, and that a newline is no call's cell and junk no typed line. `ResourcesAssumption` names the
  two threads; `SettingsAssumption` says what a line can be asked for and set to.
- `SumAngleAssumption` has a radix of at least 2.
- `ConfigurationAssumption` says that names are strings, that NULL is no key and no number, that only a value or
  noise goes on in a next line, the value being a text (what is appended would make another section, or another
  number), and that defaults are numbers.
- `EncoderAssumption` has a highest count that fits into the bytes of a position.
- The hypotheses of the encoder's theorems are about numbers of the encoder and are met by the code's:
  - `FramesApart`: what lies across two frames that may follow each other and looks like a frame with a right sum has the
    position of one of them. `HeaderApart` with 2^16 counts a turn is enough for it: twice FF + 81 is a multiple of
    256, twice FF is not, and the axis moves less than 256 pulses from frame to frame. That is encoders 1 and 3
    (`g_pulse_per_circle` 65535, at most 17.3 pulses).
  - `FramesAlone`: nothing across two frames looks like one. It follows for two bytes a position, encoder 3.
  - `StepsNear`: the axis is never past the filter from one frame to the next. It follows from `MaxStep < Threshold` (17.3
    and 34.6 pulses at most, and 100) while the axis stays within half a turn, where `Signed` has no jump.
  - `MaxRead + FrameLen <= Capacity`: a read behind a part of a frame fits. `read` asks for 120 bytes, frames have at most 6,
    `g_recvbuf` has 128 (am335x_setting.c:439).

*TypeCorrect.* `TypeOK` is inductive. The one conjunct that is more than a type says where
`step` may be: a handler that runs is inside its program. `Programs` and `Instructions` say
what an instruction of a program can be, `Parse` that an exchanged command is a command;
each action then needs the lemma of the drive operator it uses (`WriteCoil` and its kin map
drives to drives).

*FreeIsStandstill.* FREE is not inductive as it stands: START is written several steps after
the status was tested. The strengthening `MotionAnnounced` says that while a handler whose
program contains START runs, the status is not FREE; it holds because `Accept` sets the
status before the first instruction and only `PollInp`, at the end of a handler, makes it
FREE. `StandstillInv` is the conjunction. What remains is that no write of a coil other than
START sets a drive in motion, the lemma on `WriteCoil`. The theorem covers failed
transactions with and without effect, reads that fail, faults, and any number of clients.

*ServoReleased.* `ReleaseInv` follows the two releases: a stop that has gone past its servo-off
instruction has either switched it off or spent a failure, main's own release likewise, and no
transaction switches the servo on again. Two failures are needed because each release
spends one.

*Course.* What a motion does is decided several transactions before it begins: `dest` is set first, the position
is written from it, START follows. `Ordered` says that of neighbouring instructions of a program (`Follows`: a START
behind the writing of the position, that behind the look at INP, a coil that is set is reset next); it is proved of the
handlers' building blocks and carried over their concatenations (`OrderedConcat`), so that each program is
looked at once. `CourseInv` then says, of any point of a handler: before START the drive is at rest, at START its
reference is `dest`, and while it moves its target is `dest` and the status tells of the motion. It needs no
`fails = 0`: a handler that loses a transaction is over (`Abort`), and the one that goes on all the same, stop, has no START.

*TravelBounded, ProfileKept.* Both add to `CourseInv` what is still to come. `LimitsInv`: while a motion is under
way or about to begin, `dest` is between the limits, which are in order; limits only move while FREE is shown, when nothing
moves (`StandstillInv`). `ProfileInv`: a register of the amplifier differs from the stored profile only while the
instruction that sends it is still to come (`Pending`), at the end of a setter or of a self check, which has a profile
of its own.

*DoneIsArrived.* `IntactInv` says what holds until the first failure or fault: the servo is on, no pulse is left on
START, cancel or emergency stop outside of the two instructions that make it, and a drive at rest under the status of a
point either has arrived or its handler has not come to START yet. Then INP under that status means arrived,
which is what `PollInp` takes it for.

*StoppedForGood.* A stop that has not failed has switched the servo off (`ReleaseInv`), and START moves nothing
without it.

*ServesWhileIntact, ServesTheAxis.* The refinement mapping of `MotorServoService` takes each step of the daemon to a
step of `AxisService` or a stutter, by the kinds of steps (`StepKinds`): the reception of a command (`ServiceOfReceipt`),
an instruction of a handler (`ServiceOfHandler`), the poll of INP with its `$B` (`ServiceOfInp`), the drive
(`ServiceOfDrive`); the other checks, the encoder and the clients change nothing the service shows (`ServiceIdles`).
That the guards of the service hold where the daemon acts is `CourseInv`, `StandstillInv`, `ReleaseInv` and `IntactInv`.

*ConfiguredServo, ExitReleases, ServesAligned.* The invariants of `Startup` follow `boot`. `ConfiguredInv`: main comes
to the servo only with every parameter read back, and no step spoils one. `ReleaseInv`: without a kill, a failed call or a
failed transaction in any life so far the servo is off wherever main has not switched it on yet, so that a process never
finds it on. `AlignInv`: in a process that found a clean drive the axis rests until the command thread runs, the angle
the encoder gave first is the one it still has, and PST_PRESET is raised and dropped once; so both zeros are the same
point when service begins, and nothing in service moves either.

*The four of ModbusLink.* `LinkInv` is one invariant, since its parts need each other. `SoloInv`: while the line is not
shared, at most one thread waits. What holds of its call goes with what the call has met. If it found the line empty
(`Own`), `ExpectInv`: whatever on the line it would accept is its own request's, so what it reads is what its cell held
(`SeenInv`), and what it wrote has taken effect (`TookInv`); a late reply is its own too, and debris only takes away. If moreover
nothing was late or misread since (`Straight`), `LoadInv`: there is at most one message, and no debris; `CountInv`: each
attempt that is over has cost a fault. `WriteInv` needs neither: a write that nothing lost has taken effect or is still on
its way.

*LinesAreWhole.* `LinesWhole` speaks of the file; what is written there is what the buffer holds. The
strengthening has three parts: the types (`LoggerTypeOK`: among them that cells stay within `log_buf`);
`LockInv`, that whoever is past `Lock` is the one thread in `lock`, which needs that output is only
enabled once locking is; and `HandInv`, that the first `log_len` cells of the buffer are the
holder's call, and end in the newline where it is about to be written.

*DaemonLogs, DaemonLinesWhole.* Every step of `Resources` is a step of `Logger` or leaves it
unchanged, so what is proved of the logger is inherited, not proved again.

*FaultsAreReleased.* `ReleaseInv` follows main: a command thread exists only from `serve` on, the
servo has been released when main is past `serve_off`, and the context is freed only at main's two
ends; at the early one there is no command thread yet.

*ServedWorksAgain.* `SettingsInv` says what a configuration makes of a line (`RtuMade`, `UartMade`),
independent of what was there before: the first from `check` on for every configuration, the second
from `wait` on for one whose speed and frame are known. A configuration reaches `served` only past the
amplifier's answer and the encoder's first frame, so both are then what the devices are set to, and
the next start makes the same of them.

*TerminalIsNotDeaf.* `SocketInv` follows `sock` and `port` through `init_sock`: `sock` is always the newest
socket, and as long as it is not bound to the port some thread is about to bind it; once both threads
are past that, nobody is.

*PageIsFresh.* `FreshFields` needs that a word of the segment never gets older, in spite of a daemon that
is killed inside a copy and started anew with the old segment. `PageOrder` says it: a word of the segment
is at most the reading that will replace it, which is at most the true value; `complete` is at most
the segment. `RequestOrder` carries it over to the words a request has copied so far.

*UsageIsTheShare.* A counter in range is read as it is (`Read`), so the difference of two readings is what was added to it
(`DeltaIsGrowth`). The sum of the four is taken modulo the range, and a number has one remainder (`OneRemainder`): the sums
differ by all that was added, unless they wrap in between (`SumIsGrowth`).

*OdometerCovers, OdometerGrows.* `Odometer` says that the file is always the text of a number, and how that number and
`g_sum_angle` stand at each step of a motion and of a start: equal, ahead by the way about to be written, or
not read yet. What it needs of digits are lemmas: a text is read as the number it was made from (`TextIsRead`), a larger
number has no fewer digits, so a text printed over a smaller number's leaves nothing of it behind (`WrittenOver`, `PrintedAlone`).

*ServesWhatFileSays, ExampleOnlyOverUnreadable.* `Loading` follows `iniparser_load` line by line: at a line whose
complete predecessors are those before the head `h`, the dictionary gives for every setting what they say (`SaysBefore`),
as long as no allocation has failed. It needs of the dictionary that it is sound (`Sound`: it has room, and counts every entry), that
growing it changes nothing it holds (`GrownFacts`), and that `dictionary_set` changes one key and no other. At the end of the file
`SaysBefore` is `Says`, which is told from the file without reading it in order. An error is only counted
for a wrong line, so main only gives up a file that has one, or after a failed call.

*EncoderIntact, TakesOnlyWhatIsSent.* Until a byte is lost, what is in the buffer and in the driver is the end of
the frames of positions `g[0]`, `g[1]`, ... (the last one first), each at most `MaxStep` from the next: reads move the border, and the parser cuts
from the front. A complete frame in it is then one that was sent, or lies across two of them; with `FramesApart` the second kind
has the position of one of the two. That the header FF 81 does this (`SixteenBitsApart`) is a case for every
place a header can have in two frames, with the sums of both: where the last byte of a count and the sum are a header, the
count is at least 256 away from every count whose frame would complete it (`HeaderAtSum`).

*PublishesTheLatest.* Once the thread has an angle it is aligned: whole frames are in buffer and driver together, and the angle is
that of the frame before them (`Following`). A frame that is read is the next one sent, sound, and near. It also needs that
a read always fits, since what does not fit is thrown away with all that is in the buffer.

TLC checked each strengthening on the instances before it was proved.

*Only model-checked:*
- all liveness (`StopEnds`, `LocatingEnds`, `ClearCheckEnds`, `OvertravelCleared`, `BackInService`, `ComesToServe`,
  `FollowsAgain`, `StopEndsRun`, `TerminalHears`, the four of `ScanClient`), and with it the half of
  `ImplementsService` that says a motion comes to its end: the prover has neither fairness nor ENABLED.

Induction over data is within reach where the library's induction theorems are not: a set of numbers for which something is false has a
least member (`WFMin` with `NatLessThanWellFounded`), and that one is refuted. This is how functions defined by recursion
over digits and lines are handled.

## 6. Where the code differs from what it says

One run ends in a violation, of what the manual states.

- **A self check can last for ever** (`MotorServo_check_hang`). `check_motion` polls INP
  without a bound on the thread that alone clears an over-travel input. `maxpoint` with limits
  to the left of the axis sets OT+; a check then moves to the left (allowed) and cannot come
  back. The manual (说明文档.pdf) has it that the check can be stopped in its last leg; it never gets there and
  no further command is read.

Seen while modelling, and visible in the definitions rather than in a run of their own:

- A kill in a motion shifts the zeros. The first frame after the restart fixes `g_start_angle`
  while the axis still moves (am335x_setting.c:526, main.c:139); `position_reset` presets the drive
  where it stopped. `AlignedInService` excepts a process that was started on a moving axis
  (`unclean`).
- One lost byte can cost encoder 2 its angle for good. The parser throws away two frames for it; at
  5.94 degrees/s this encoder makes 34.6 pulses in a frame, three frames exceed its threshold of 100,
  and every later position is farther still from the last one taken. The comment at
  am335x_setting.c:535 has the threshold as 27 degrees a second. `FollowsAgain` is claimed for
  encoders 1 and 3.
- Encoder 1 may show the last but one frame until it is aligned: at count FF81 the sum's byte and the next header make a
  second frame with a right sum and the same value, when the first read begins inside that frame. With 2^16 counts this
  false frame always has the position of one of the two it lies across (`FramesApart`), so `NeverFooled` holds and `UpToDate` is
  claimed for two bytes a position.
- Encoder 2, of three bytes and 131072 counts, can be fooled at one count: FF 81 01 01 FF 81 and the next frame show, from the second
  header on, a frame with a right sum and a value beyond a turn, when the first read begins inside the first. The start
  angle is then wrong, no filter looks at the first frame, and the filter drops the true positions after it.
- `alarmrst` and `errormsg`, which the manual has for the error state, are refused unless the
  status is FREE (`NeedsFree`).
- `motor_zero_speed` is initialised to 1 and only ever set to 1: `$F` is never sent
  (`PollAlarm`).
- A speed or time is stored before it is sent; when sending fails, `$G` reports what the
  amplifier does not have. `ProfileApplied` is therefore claimed without failures.
- Under `anticlockwise` left and right are exchanged for commands, not for the limits of
  `configure.ini`.
- `$B` goes to whoever spoke last, not to the client that asked for the point.
- `$B` is also sent when START failed, or when an alarm stopped the motion: INP is on and the
  status LOCATING. cmdparser.c:385 takes that for arrived. `DoneMeansArrived` is claimed up to
  the first failure or alarm (`Intact`).
- Two `maxpoint` commands, one that leaves the axis beyond the left limit and then one that leaves it beyond the
  right, can leave both over-travel inputs on with the axis outside of the limits. A point is still accepted there, and
  clamped into them, but neither direction moves any more: the status stays LOCATING until a cancel, and the axis comes
  back only when another `maxpoint` takes it in (between the limits each turn of the loop clears both inputs).
  cmdparser.c:432 takes the way back to be open ("only the opposite direction"). `LocatingEnds` excepts this place (`Trapped`).
- `set_speed_value` sets 34.0 for any speed whose pulses in an encoder frame exceed 100. It computes them with
  `E_PULSE_PER_CIRCLE`, 131071, though the comment above it has 65535, so that it begins at 17.2 degrees/s and not at
  34.3: a client that asks for 20 gets 34.0 (`Rate`).
- After an encoder timeout main still starts the command thread, which can accept a point in
  the second until the loop sees `g_stop`.
- When `listening_uart` or `listening_socket` fails, main returns with the servo on.
- `hold.sh` starts the daemon again also after the stop command.
- A Modbus reply that comes after the response timeout is taken for the answer to the next
  question, and so on from there: nothing flushes. `ReadIsOwn` is claimed of a read that found the line empty.
- One byte can fail both attempts of an operation: with the byte count of a read-coils reply delivered as 0 the receiver takes
  5 bytes of 6, the one that is left makes the retry read a byte out of step, and its sum is wrong too. While nothing
  but coils is read, every later reply has the same length, is read from the byte that was left, and leaves one again; a line that is
  only polled so stays out of step. A reply of another length, or a read that runs out of bytes, ends it. A hit
  function or count of a register reply can leave a whole later answer behind. `FailsOnlyAfterFaults` and
  `NothingLeftBehind` except these (`astray`).
- At the exit main and the command thread use one Modbus context without a lock.
- `iniparser_load` returns a partial dictionary when it cannot grow (iniparser.c:809).
  `dictionary_set` returns 0 when a key or value cannot be copied, though its comment promises
  a non-zero result.
- One wrong line in `configure.ini`, or an fopen that fails for a moment, and the
  operator's file is replaced by the example with limits of ±80.
- A last line that ends with a backslash is lost. A key whose value could not be copied makes
  main fail on NULL.
- The first point of a scan is sent once. If that datagram is lost, the scan never starts;
  if an end lies beyond the limits, or both ends are closer than the 0.3 degrees
  of the timer, it stalls.
- After a restart of the daemon the window hears nothing until it sends its next command
  (`FollowsAxis` begins there): `$` is sent once. `IPClose`
  leaves the timer running. A command from the web page takes the status stream away.
- `WaitTimeOut` evaluates its condition once, before it waits.
- The results of `set_speed` and `set_Parity` are ignored: with a speed or a frame they do not know
  the encoder's line stays as the process before left it. `WorksAgain` excepts that.
- After its loop main closes the Modbus context and the log while the command thread may use both
  (`UsesFreed`, `WritesClosed`).
- `$E`, `$G` and `$H` have a comma and no `$A`: the terminal takes the difference to a null pointer
  for a length (motor_term.c:143) and may end there (`Receive`).
- At the end of its input the terminal goes on sending what the buffer last held (`ReadNothing`).
- Without a shared segment the page shows 0.1 and FREE, its initial values, as if the axis were
  there (`ReadMem`). The two halves of the angle it shows may belong to different angles.
- platop.c:130 has the default -99 and platop.c:131 compares with 99, so every request that is no
  command is answered with angle and status (`Ask`).
- The usage of the processor is wrong in the second in which the sum of the counters wraps around, and for good
  once one of them has passed 32 bits (idle does, after some 500 days of one processor): `sscanf("%u")` then reads it as standing
  still, so that the time that went by seems shorter. `UsageIsShare` excepts both.

## 7. Not modelled

- **libmodbus server side and TCP**, compiled in and never called.
- **EasyLogger**'s asynchronous and buffered modes (off in elog_cfg.h), `elog_raw`, `elog_hexdump` and the
  tag and keyword filters (never called).
- **Web page**: the rows of `info.c` that print one reading (SD card, disk, memory, encoder),
  `platforminfo.c`, which is a copy of it, and `shmserver.c`, a test program. **cgic** and the scripts are
  third-party.
- **Demo client** and **updatex**: an example for another device, and an upload form.
- What undefined behaviour could do besides the outcomes named: a write to a log that is closed ends the process or
  loses its line, and could also reach a file opened since.
- In `ModbusLink` a sum that is right by chance over bytes that are out of step.
- A line of blanks and a backslash, which iniparser.c:774 takes for a line to be continued, and a number that is continued to
  another number: in `Configuration` only comments and texts go on in a next line.
- In modelled parts: operations of `alpha_motion_control.c` that nothing calls (incremental
  moves, pause, free run, manual feed); the measured speed (it only feeds the constant
  comparison); in the window the three parameters set one after the other and the mileage.
- The amplifier is an assumption: `Drive` is what `alpha_setting.h` and the callers take it to
  do, and holds no timing, no torque and no motion that stops short other than by a fault.
- Speed against time: no run says how long anything takes.

## 8. Plan

Written first, because it carries the product: `Drive` and `MotorServo` with its service and
proofs; then the life of the process, the two files, the two serial lines, and the window; then what the
process holds, the log, the terminal and the page, each with its proofs.

What is left: `WaitTimeOut` and the parameters set one after the other in `ScanClient`; a daemon that restarts with
a motion under way under a connected client (composing `ScanClient` with `Startup`); `unset` of the dictionary; theorems
about `ScanClient`, whose properties are all liveness.

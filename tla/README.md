# OpenEMS in TLA+

OpenEMS is an energy management system for a site with batteries (BESS),
photovoltaic plants (PV) and a grid meter. It is a set of processes that share
one table space in shared memory and one PostgreSQL database. This directory
holds TLA+ models of the parts where the processes meet, the TLC runs that check
them on small instances, and TLAPS proofs for every instance. Paths below are
relative to the repository (`src/…` stands for the repository's own `src/`).

## 1. The system

```
 PostgreSQL  <── configuration, alarms, history, strategies, overrides, sessions
     │  ▲
     ▼  │
 rtdb service ─ creates ─►  shared memory: catalog, point index, telemetry,
                            teleindication, command, strategy runtime, alarms
   Modbus collector ──────►  writes readings; claims and completes commands
   IEC 104 collector ─────►  writes readings
   strategy engine ───────►  reads readings; submits commands; writes runtime
   alarm, history, viewer ►  read readings (alarm also writes the alarm table)
   admin portal (Python) ─►  reads everything; submits commands
```

### Components, their state and what makes them correct

**Command table** (`src/rt_db/src/rt_db.cpp` 865-974, `src/core/src/command_handle.cpp`,
`src/web/shm_reader.py` 612-653). State: one slot per commandable point (desired
value, status, result, error). Operations: submit (engine: refused when busy;
portal: not), read pending, complete, read status. Three processes store to a slot
and no lock is shared: `RtDb::process_mutex_` is private to each process. Correct
when only submitted values reach a device, each submission is executed at most
once, statuses follow `Idle → Pending → Executing → Success/Failed`, a command in
progress is not replaced, a terminal status is about the value next to it, and no
command hangs.

**Point tables** (`rt_db.cpp` 220-229, 765-863, 976-1074). State: one slot per
point (value, time, quality, valid) and one `update_seq` per table. Operations:
write, batch write, read, snapshot. Writers are two collector processes, readers
are all others. Correct when a read returns one write's fields, never an old one,
and returns at all, also after a writer died.

**Shared-memory lifecycle and registration** (`rt_db.cpp` 55-137, 289-718,
`src/services/rtdb_service/main.cpp`). State: segments, catalog, point index, slot
counters. Operations: create, attach, register a point, register a command point,
destroy. Correct when whoever attaches sees complete tables and every registered
point has a slot of its own.

**Control service** (`src/collector/src/control_service.cpp`). One thread per device:
scan, claim, find the mapping, write, read back, complete.

**Polling service** (`src/collector/src/polling_service.cpp`). One thread per device:
build register groups, read each, decode, store; a failed group is stored as 0,
Bad, invalid. Correct when every point is read from its own registers and a
failure is visible.

**Modbus clients** (`src/protocols/modbus`). State: socket, `connected_`, transaction
id. One client is shared by a device's poll and control threads, and a serial one
by all devices of a line. Operations: request (read or write) with reconnection
when `connected_` is false, `disconnect`, `do_connect`. Correct when a response is
taken for the request it answers, no descriptor is lost, and a device that is back
is read again.

**IEC 104 client** (`src/protocols/iec104`). State: socket, send and receive sequence
numbers, three threads. Operations: receive, acknowledge, dispatch, reconnect,
interrogate, heartbeat, stop. Correct when an acknowledgement counts the frames of
its own connection, every mapped value reaches its point, what changed during a
break is learnt after it, a client that gave up looks disconnected, and `stop`
returns.

**Strategies** (`src/strategy`) and **strategy engine** (`src/services/strategy_engine/main.cpp`).
State: the locked target of anti-reverse flow and its confirmation count, the PV
recovery count, the map of overrides. A cycle: reload (every 30 cycles, query by
query, each of which may fail alone), check overrides, calculate the target, clamp it by SOC, curtail or recover PV,
distribute, submit. Correct when targets stay in range, the export ends, the
engine does not hunt, curtailed power is given back, full batteries stop charging.

**Manual override** (`src/web/admin_server.py` 509-543, 697-735; `main.cpp` 169-190,
286-310, 631-654). The portal posts a command and tries to write a row per strategy,
which never succeeds; the engine reads the rows at a reload and pauses. Correct when
the pause lasts as long as the row says.

**Alarm service** (`src/services/alarm/main.cpp`) and **alarm handling in the portal**
(`src/web/db.py` 652-800, `src/web/admin_server.py` 764-781). State: rules, the
shared alarm table, the table `alarm_events`. A cycle: load rules (every 15th
time), read the points, one transaction, the shared table. Correct when readers of
`alarm_events` see one evaluation at a time, both tables agree, an operator's
decision is not undone, and alarms follow their conditions.

**History service** (`src/services/history`). A snapshot per second in one
transaction. Correct when a snapshot is stored whole or not at all and the
service outlives the database's outages.

**Portal**: sessions and users, service start and stop through pidfiles,
configuration editing in one transaction, pages. **rtdb, Modbus and IEC 104
services, viewer**: the `main` of each process. **Configuration loader, model,
common, utils, libpq wrapper, rt_data**: sequential helpers.

`PROJECT.json` lists every component with its status and every hazard with its
line and the properties that cover it.

### What is hard here

- No lock is shared by the processes: every store and load of shared memory is a
  step of its own, and the fields are plain (neither `atomic` nor `volatile`).
- Processes die and are restarted independently, in the middle of a write, of a
  submission, of an executing command.
- The engine is a feedback loop whose inputs are of different ages and whose
  outputs take effect later, or not at all.
- An override is spread over a command slot, rows of a database and a map in
  another process, and ends by the passing of time, on two machines' clocks.
- Poll and control threads share a connection; timeouts and reconnections race.

## 2. Modules

| module | what it is | models |
|---|---|---|
| `CommandSlots` | the command table and its three users | `rt_db.cpp`, `command_handle.cpp`, `shm_reader.py`, `control_service.cpp` |
| `CommandMailbox` | abstract: a box per slot with at most one value in progress | what the table promises |
| `PointSeqlock` | `update_seq`, the writers and readers of point slots | `rt_db.cpp` |
| `RtDbService` | the life of the tables: create, register, unlink, attach, sample | `rt_db.cpp`, `rtdb_service/main.cpp`, `services/history` |
| `DevicePoll` | block reads, decoding and encoding of one Modbus device | `polling_service.cpp`, `control_service.cpp`, `modbus_data_parser.cpp` |
| `ModbusClient` | one TCP client, its two threads and its device | `modbus_tcp_client.cpp` |
| `Iec104Client` | one client, its three threads and its station | `iec104_client.cpp`, the frames |
| `StrategyEngine` | the engine's cycle closed over the site | `anti_reverse_flow.cpp`, `soc_protection.cpp`, `strategy_engine/main.cpp` |
| `ManualOverride` | portal, rows, reload and pause | `admin_server.py`, `strategy_engine/main.cpp` |
| `AlarmService` | evaluation, transaction, shared table, operators | `alarm/main.cpp`, `db.py`, `rt_db.cpp` |
| `AlarmBoard` | abstract: one evaluation at a time, decisions kept | what `alarm_events` promises |
| `MC…` | instances for TLC: names, limits, layouts, symmetry | |
| `CommandSlotsProofs`, `PointSeqlockProofs` | proofs about the shared memory's slots | |
| `RtDbServiceProofs` | proofs about the tables' life and the history | |
| `ModbusProofs`, `Iec104ClientProofs` | proofs about the clients and about what is read and written through them | |
| `StrategyEngineProofs`, `ManualOverrideProofs` | proofs about the engine | |
| `AlarmServiceProofs` | proofs about the alarm service | |

How they fit together: `RtDbService` says which tables a process has in its hands;
`PointSeqlock` and `CommandSlots` take the tables as there and say what happens
in one slot; `ModbusClient` and `Iec104Client` say whether a request gets its
answer, `DevicePoll` what an answer means; `StrategyEngine`, `ManualOverride` and
`AlarmService` read points and submit commands through those, reduced to what they
can tell apart.

Operators named `…Forgotten`, `…Unchecked` and the like, introduced by a comment
that begins "A slip", are wrong variants of the definition that follows them. They
are in no specification: each property is tried against one of them, to see that
it would notice.

### CommandSlots

`desired`, `status`, `result` are the fields of a slot; `sub[p]` is the set of
stores that submitter `p` has still to make; `ctl[d]` is the program counter and
the locals of device `d`'s control thread; `reg` is the device's register.
`asked`, `posted`, `taken`, `written` are history.

| action | code |
|---|---|
| `EngineSubmit`, `WebSubmit`, then `StoreDesired`, `StorePending`, `StoreCleared` | `CommandHandle::submit` + `RtDb::submit_command`; `ShmReader.submit_command` |
| `ScanPast`, `ScanHit`, `ReadDesired`, `MarkExecuting` | `read_pending_command_for_points` |
| `Reject`, `WriteOk`, `WriteFailed`, `ReadBack` | `execute_pending_commands`, `execute_write` |
| `CompleteStatus`, `CompleteResult` | `complete_command` |
| `SubmitterCrash`, `CollectorCrash` | the death and restart of a process |

A step is one store or load. The engine's stores of status and result have no
order the C++ compiler must keep; `MayStore` keeps the desired value first, which is
what x86 builds of these plain stores do, and keeps the Python writer's program
order. A write that is not acknowledged may or may not have changed the register;
an acknowledged one may have been refused by the device.

A control thread looks only for `Controlled` points, those that are writable and have a
Modbus mapping when the collector loads the configuration (`control_service.cpp` 17-25), and
a device whose points cannot be written has no thread at all (`HasTask`,
`modbus_collector/main.cpp` 156-171). The command of any other slot (`Unmapped`) is passed
over by every scan and stays Pending. `Reject` is what is left of the mapping checks:
a mapping whose function code is not a write (`NotWriteCode`).

### PointSeqlock

Values are version numbers: the n-th write of a process stores n in every field,
so that a torn read shows as unequal numbers and a stale one as a small number.
`wr[w]` and `rd[r]` are the program counters and locals. `LoadFirst` on an odd value
goes to the loop condition, as `continue` does in a `do … while`.

The fields are plain, so what is loaded and stored is up to the compiler, and `build`
says which one. `"release"` is what `scripts/build_linux.sh` and the `Dockerfile` make:
GCC at `-O3` turns `update_seq++` and `|= 1` into one store, loads `update_seq` once per
read, takes the second load of the loop from a register, and turns the retry into a
jump to itself (`Spin`). `"debug"` performs every load and store of the source. The
passing run has both.

### RtDbService

`link` is the name space of shared memory, `mem` the objects behind the names, `srv`
the service, `cl` the attached processes, `snap` and `tx` the history service's
snapshot and open transaction. An object outlives its name while a process maps
it, and a run that finds a crashed one's name takes that object and zeroes it.

| action | code |
|---|---|
| `Start`, `Create`, `CreateFails`, `InitHeader`, `List` | `RtDb::create`: segments, then headers, then catalog entries |
| `Name`, `Categorise`, `Invalidate`, `Assign` | the stores of `register_point` |
| `Stop`, `Unlink`, `Crash` | `~RtDb`, or the death of the service |
| `Open`, `OpenFails`, `Attached` | `RtDb::attach` and the retry of `wait_for_rtdb` |
| `Write`, `WriteAstray` | a collector's write by the entry it finds; with tables of two runs, anywhere |
| `SnapshotName`, `SnapshotValue`, `SnapshotAstray` | `RtDb::snapshot`, entry by entry |
| `Insert`, `Commit`, `StatementFails` | `HistoryWriter::write_to_db` |

### DevicePoll

`map` is the layout in use, `memory` the device, `todo` the groups of the poll still
to be read. `StartPoll` builds the groups (`build_register_groups`), `ReadGroup` and
`GroupFails` are one block read with everything that follows from it, `Write`,
`ReadBack`, `Complete` are `execute_write` and its caller. A register is a word of
`Word` values and a 32 or 64 bit value is 2 or 4 words, so the instance keeps the
widths with 16 values to a word instead of 65536; addresses are taken modulo
`AddressMod` where the code computes in 16 bits. Scale and offset are integers, of
either sign. Where the language leaves a conversion open (a value outside the type, a
scale of zero) so does the model, and where the sort leaves open in which order points
of one address come, so does `SortedPoints`. A Bool in a register is read back as 0 or
1, whatever the register holds.

`NumbersAssumption`: a word has an even number of values, so that its upper half is the
negative one. `LayoutsAssumption`: a device has finitely many points, the register count
fits the data type, which the portal enforces when a mapping is stored
(`config_store.py` 522-533), and an address has 16 bits. A mapping may reach the last
address, or go past it: its end then does not fit 16 bits (`EndFits`) and
`build_register_groups` computes a small number. Merged behind another point it gets a
part of the answer that is too short, or that begins past its end; what is copied from
there may be anything, so `SubRegisters` and `Decoded` are sets of outcomes. The device
refuses registers it does not have.

The specification is `DPSpec`, with fairness `DPFairSpec`; its names differ from those
of `ModbusClient` because `ModbusProofs` extends both.

### ModbusClient

One client, the poll thread and perhaps the control thread (`users`). A connection
is the queue of answers still to be read from it; an answer is marked with the
thread it is for, or `Late` once its request was given up. The steps follow the
lines between two uses of `connected_` and `socket_mutex_`: `BeginRequest`,
`Disconnect`, `ConnectSucceeds`, `ConnectFails`, `Adopt` (the store of the
descriptor), `Announce` (`connected_ = true`, after the mutex), `Send`, `SendFails`,
`Receive`, `TimeOut`, `ClearConnected`. `LinkChanges` is the device. `SendFails` of a
client with two threads may also end the process (`alive`): `send()` is called without
`MSG_NOSIGNAL`, nobody ignores SIGPIPE, and the signal comes with the second send on a
connection the peer has closed, which a lone thread never makes.

### Iec104Client

The receive thread (`Rx…`), the interrogation thread (`Tick…`), the heartbeat thread
(`Beat…`) and `stop()`; the station is modelled after IEC 60870-5-104, external to
the repository. Numbers in control fields are put in as the client puts them in,
without the shift by one bit, and the station reads them with it.

`SendFrame` on a connection the station has closed is unnoticed or ends the process
(SIGPIPE, `alive`). `Read` is `parse_asdu` for the types it reads right, for single
objects and sequences; of type 34, whose time tag it takes for three bytes where there
are seven, `Misread` gives the first address and any others, with any values. The key of
`point_dispatch_` is type and address (`Key`): of the points that share one under two
common addresses the one registered last (`Registered`) takes the values of all. An
interrogation asks for one common address (`Interrogated`).

### StrategyEngine

`load`, `sun`, `running`, `soc`, `setpoint`, `power` are the site, batteries and the PV
plant alike (`Plants`); `db` holds the readings as last polled, `polled` the blocks read
since the last calculation; `cmd` the commands not yet executed; `eng` the engine, with
the queries its last load went without (`missing`) and the order of its lists (`pair`).
Powers are small integers, shares are integer quotients; the instances use numbers
for which the shares come out even, so that rounding, which the code's floating
point does not have, plays no part.

| action | code |
|---|---|
| `Begin` | start of a cycle and `load_strategies` (`main.cpp` 192-284) |
| `Calculate` | `AntiReverseFlow::calculate_target` |
| `Clamp` | `SocProtection::clamp` |
| `PvStep` (`Curtail`, `Recover`) | `main.cpp` 717-905 |
| `Distribute` | `main.cpp` 907-1022, `submit_target`, `mark_target_applied` |
| `Poll`, `PollFails` | one block read of a poll thread, `polling_service.cpp` 204-226 |
| `Apply`, `ApplyFails` | a control thread executing a command |
| `Change`, `Settle`, `Drift` | the site (external): load, sun, a battery stopping or starting; ramps; state of charge |

*Readings.* What the tables hold is read block by block, each block at its own time and
failing alone (`Blocks`); a device's points may be spread over several, and the PV plant
follows its limit at its own pace, so that its power and its limit are of different moments.

*Loads.* `load_strategies` asks for the definitions, then for the bindings and the
parameters of each strategy. A failed definitions query leaves no strategies; a failed
query of the others is not noticed, and the strategy works without bindings or with the
default parameters until the next load (`missing`, `Default…`). The bindings come without
an order, and `clamp` pairs states of charge and run states by their place in two lists: `pair`
is any bijection.

*Time.* The engine waits for no poll and no command. Its cycle and the poll interval are
both 1000 ms (`strategy_engine/main.cpp` 1090, `polling_service.cpp` 299), so nothing in
the code keeps a cycle from beginning before every block is polled and every command
executed since the last (`Early`). Such a cycle is one of the `MaxFaults`; where there are
none, as in `StrategyEngine_converge`, the run is about a site whose polls and commands
keep up. The theorems hold for any number of early cycles.

### ManualOverride

Time is counted in ticks, `Day` of them to a day, in UTC; the database's and the engine's
zones are `DbZone` and `EngineZone` ticks ahead of it. `WriteRows` changes nothing: the
INSERT of `admin_server.py` 533-541 has its string parameter inside a quoted
`INTERVAL '%s minutes'`, which is bad SQL with psycopg2 and a wrong number of parameters
with psycopg, and the exception is swallowed at 542. The rows the engine reads are those
somebody else writes (`RowsAppear`, external).

`Parsed` is `pq_get_ts_ms` on what PostgreSQL writes: `sscanf` stops at the space between
date and time, only the date is left, the zone offset is not looked at, and `mktime` takes
the date for a midnight of the engine's zone. When the database's zone is further east,
that may be later than the time meant, by up to `Overstay`. `unseen` is the history of
rows written, or forgotten, since they were last read. `ZonesAssumption`: it is not the
first day of the epoch.

### AlarmService

`pc` is the service's step, `view` and `locked` its open transaction, `events` the
committed rows, `shm` the shared table. `ReadPoint` reads one point, `Begin`,
`Upsert`, `ClearOthers`, `Commit` are the statements of `sync_active_alarms`,
`Publish` is `replace_active_alarms`, `Leave` the clearing after the loop,
`SyncFails`, `LoadFails`, `Reconnect`, `ReconnectFails`, `Killed` what can go wrong.
`Decide` is an operator's acknowledgement or silencing: one `UPDATE`, which waits for
a locked row and is evaluated on the new one. A `COMMIT` whose answer is lost may
have been carried out.

## 3. Runs

Eleven runs pass; the twelfth ends in a violation that is a finding.

| run | bounds | shows |
|---|---|---|
| `CommandSlots_web` | 1 slot, engine and 2 portal threads, 2 values, 3 submissions, 1 crash of the collector, 1 of a submitter | `ExecutedWasSubmitted`, `NoReplay`, `StatusLifeCycle`: nothing runs that was not asked for, nothing runs twice, statuses follow a command's life |
| `CommandSlots_engine` | 4 slots of 2 devices, one whose mapping is no write and one that no thread looks for, 2 submissions, 1 crash of the collector; fair | `SuccessIsForDesired`, `MailboxSpec`, `EveryCommandEnds`: the table implements the mailbox, Success is about the value shown, every command of a controlled point ends |
| `PointSeqlock_reads` | both builds, 1 writing process, 2 readers, 2 fields, 2 writes, 1 crash; fair | `EvenReadConsistent`, `NeverStale`, `ParityRepaired`, `OnlyMidWriteReadsHang`: what a read may still rely on, in the release build too |
| `RtDbService_history` | 2 runs of the service that stop or crash anywhere, 1 collector, the history service, 2 points of different categories; fair | `AttachIsWhole`, `HistoryRowsAreOwn`, `WaitersAttach`: an undisturbed attachment finds one finished set, rows carry their own point's value, who waits attaches |
| `DevicePoll_layouts` | every assignment of 11 mappings to 3 points and of 11 and 7 to a read and a commanded one, some up to the last of 16 addresses and past it, 3 values commanded; fair | `GroupsCoverThePoints`, `OnlineMeansRead`, `ReadBackIsDesired`, `GoodIsMeasured`, `EveryPointIsRefreshed` |
| `ModbusClient_shared` | 3 descriptors, 2 attempts, 3 outstanding answers; fair poll thread | `WrongAnswerIsALateOne`, and for a thread alone `AloneGetsItsOwnAnswer`, `AloneLeaksNothing`, `AloneRecovers` |
| `Iec104Client_reconnect` | a point of type 1 and one of type 34 with the same address, window 2, 1 frame on its way, 2 interrogations per connection, 1 attempt, 2 faults; fair | `AckIsExact`, `GivenUpIsClosed`, `DispatchIsExact`, `CatchesUp`, `StopEnds` |
| `StrategyEngine_converge` | 2 batteries with equal shares and states of charge, a PV surplus, one run state that changes, blocks and commands that keep up; fair | `SettlesDown`, `OthersTakeOver`, `FullStationStopsCharging`: the targets come to rest, a stopped battery's share is taken over, a full station is told to charge no more |
| `StrategyEngine_pv` | 1 battery that fills, PV limit 2..3, power and limit in blocks of their own, one change of load, one failed block, write, query or early cycle, default limits wider than the station's; fair | `ExportEnds`, `CurtailmentIsLifted`, `TargetInRange` |
| `ManualOverride_resume` | 2 strategies, rows of 3 ticks written by somebody else, days of 4, the database 2 ticks east of the engine, reload every 2 cycles, 7 ticks, 2 failures or restarts; fair | `NeverOutwaits`, `RowsRespected`, `EngineResumes` |
| `AlarmService_cycle` | 2 rules on one point, one row of shared table, rules reloaded every 2 cycles, 1 fault; fair | `AgreesBetweenCycles`, `BoardIsOneEvaluation`, `AlarmsFollowConditions` |
| `PointSeqlock_spin` | the release build, no crash | **violated** `EveryReadReturns` |

Why the bounds are enough. Three submissions are one being stored, one being
executed and one overtaking; a second crash of the same process adds nothing, since
a restarted process remembers nothing. Slots do not influence one another except
through the scan, for which two slots of one device, one of another and one that the scan
must pass suffice.
Two writes give a reader a write before and a write under its copy, and one crash
leaves `update_seq` odd once. Two runs of rtdb-service are one that left something
behind and one that takes it over. Groups are built by looking at two neighbouring
mappings at a time, in one address space; three points make a group that grows
twice, gaps of five and six registers are on both sides of the limit, and a mapping that
ends at the last address or past it is met alone and behind a neighbour. Three
descriptors let two threads hold a new connection each beside one that is lost.
One IEC attempt is the one that succeeds or the last one; two faults are a change of
a value and a break, in either order, or a break while another is repaired. One
change of the site, at any moment of a cycle or a ramp, followed by a steady site is
what the convergence properties are about; that two batteries fill as well lets either or
both drop out while the other ramps. With one fault every query, block, write and early
cycle of the PV run is the one that goes wrong. `MaxTime` leaves every override the time
to end. One fault of the alarm service's database is one statement that fails with
or without the connection, or one kill; the theorems hold for any number. With two
rules and room for one alarm the shared table is once too small.

### Fairness

- `CommandSlots`: weak fairness of each control thread; its loop never blocks for
  good because every socket operation has a timeout. Submitters are not fair.
  A thread's scan starts at the first slot each time, so an earlier slot submitted
  without pause could starve a later one; the bound on submissions hides this, as
  the engine's cycle and the operators' hands do in the code.
- `PointSeqlock`: a thread inside a read or a write keeps running; nobody is
  obliged to start one. A write that never ends is excluded, a crash is not.
- `RtDbService`: a service that was started goes on, and an attempt to attach is
  always made again (`wait_for_rtdb` sleeps 2 s and loops). Nobody has to start,
  stop or sample.
- `DevicePoll`: the poll thread goes on, since reads end with their timeout. Which
  groups fail is left open: a group may fail for ever.
- `ModbusClient`: weak fairness of the poll thread as a whole. Its waits are bounded
  by the timeout, by the sleep between attempts and by the poll interval, and
  there is no second thread to take the mutex where liveness is claimed.
- `Iec104Client`: the receive, heartbeat and station steps, and the interrogation
  thread once its timer has fired; the timer itself is under no obligation.
  There is no strong fairness for `socket_mutex_`: a thread may lose every race for
  it, and `CatchesUp` has a disjunct for the case.
- `StrategyEngine`: the engine's loop, every block read and every control thread run on,
  and the PV plant and a battery that runs get where they are sent. A battery that runs
  and cannot follow is excluded: it would keep the target locked.
- `ManualOverride`: time passes; the portal's handler, the control thread and the
  engine's loop run on. Nobody has to write rows.
- `AlarmService`: a running service takes its next step. Nobody has to start it.

Deadlock checking is off only in `Iec104Client_reconnect`: after `stop()` all threads
end.

### Finding

*A read of a point can spin for ever* (`PointSeqlock_spin`): the comment on
`process_mutex_` (`rt_db.h:265`) leaves locking between processes to `update_seq`, but that
is a plain integer. In the Release build the read loop loads it once, so that a reader
that meets an odd value never sees the write end. `PointSeqlock_reads` shows the rest:
such a read is the only one that hangs, and a read that met an even value is of one write
only if no write began before it was over.

### Seen while modelling

What follows the models show when a constant is changed or a precondition dropped,
or the code shows when it is read for the model. No run is kept for it.

Commands and points:

- *A portal command can be lost and reported as done.* The portal stores over a slot
  that is Executing; the completion of the earlier command closes the later one
  (`SuccessIsForDesired` with a portal thread and one slot). For the same reason
  the mailbox is refined without the portal only.
- A command of a point that is not writable, has no Modbus mapping, or whose device has
  no point that can be written, is never looked at. It stays Pending, and from then on the
  engine finds the slot busy.
- In any build the `continue` of the reader's loop can end it with a torn copy, when
  two successive rounds load the same odd value; `EvenReadConsistent` is stated
  for even ones.
- With two writing processes (`Writers = {modbus, iec104}`) `EvenReadConsistent` fails:
  their unlocked increments of one `update_seq` make it even inside a write.
- With the portal, `BusyRespected` fails between the engine's test and its store.
- When the read-back fails, the desired value is reported as the value read.

Shared memory and history:

- `snapshot()` uses the slot index it finds. An entry in the making holds
  `kInvalidSlotIndex` (the history service dies) or zero (it writes another point's
  value); a collector that writes by such an entry writes into another point's row.
  The properties except these moments (`half`).
- A process that attaches while names are unlinked or objects are zeroed can map
  tables of two runs, and compute row addresses from a header that is not there
  (`overlap`). When the configuration shrank, the second `ftruncate` also cuts the
  object that attached processes still map.
- A collector or engine that attached to a run stays with its objects when
  rtdb-service is restarted: two sets of tables are then in use side by side.
- The history service ends with its first failed write, so that the writer's own
  reconnection is never used.

Modbus:

- Two threads that find the client disconnected at once can lose a descriptor, and
  one can be handed an answer to a request the other gave up (`Alone…` without
  `users = {Poll}`).
- A second thread's send on a connection the device has closed can end the collector
  (SIGPIPE).
- A block longer than 125 registers is built all the same and always fails; a
  mapping that reaches register 65535 has an end that wraps to a small number. Behind a
  neighbour in its group its part of the answer is cut short, or copied from beyond the
  answer, and the point is Good (`GoodIsMeasured` without `EndFits`). Nothing bounds an
  address from above (`config_store.py:510`).
- A bit (function 1, 2, 5, 15) mapped to a type other than Bool stays Bad while its
  device is Online.
- A serial line's shared client is made with the first device's `unit_id`
  (`modbus_collector/main.cpp` 132-134).

IEC 104:

- Numbers are written to control fields without the shift by one bit. An
  interrogation with an odd number is no I frame to the station, and an
  acknowledgement acknowledges half of the frames, until the station's window is
  full and it closes the connection. The client recovers by reconnecting.
- `send_seq_++` of the timer races with the reset on a new connection; the number
  is then taken twice, or belongs to the connection before, and the station closes
  the new one (`TimerMeetsReconnection`).
- When the first connection failed, or a reconnection used up its attempts, the
  receive thread has ended for good and the points' last values stay good.
- A TESTFR without an answer has no timeout (t1).
- The time tag of type 34 is skipped as three bytes where it has seven, so that from the
  second object on addresses and values are other bytes (`DispatchIsExact` for a point of
  type 34).
- Points with one type and address under two common addresses take each other's values,
  and the interrogations ask for common address 1 only (`iec104_collector/main.cpp:100`).
- A send on a connection the station has closed can end the collector (SIGPIPE).

Strategies:

- *A takeover never reaches the engine.* The row is written by a statement that always
  fails, unnoticed (`admin_server.py` 533-543), so that the strategies go on commanding the
  point, against `docs/strategy_engine.md` 176-192.
- *A row that somebody writes is read as a date.* It pauses the engine until the midnight
  before its end, so that an override that ends on the day it began pauses nothing; with a
  database further east the pause outlasts the row by the difference of the zones. Rows
  are read at a reload only, every 30 cycles, and a failed reading forgets those that run.
- A full battery goes on charging next to one that is not full: it is left out of
  the distribution and gets no command. `FullStationStopsCharging` needs all of them full.
- The two lists of `clamp` can be in different orders (`bindings` are selected without
  ORDER BY). A full battery that runs is then taken for the one that stopped, and the
  reverse: `OthersTakeOver` fails without `InOrder`.
- After a load whose parameter query failed the limits are 100 kW for a reload interval,
  whatever the station's. `TargetInRange` is about the limits in use.
- A PV plant curtailed to 0 % stays there: zero is taken for a missing reading
  (`CurtailmentIsLifted` with `LimitMin = 0`).
- A battery left alone by others that stopped or are full is sent the whole
  target: `bess_max_charge_kw` is a weight, not a limit.
- With a battery that can also discharge, battery ramp and PV recovery count the
  same headroom and the model hunts; the PV run therefore has `MaxDischarge = 0`.
- A raise of the PV limit does not reset its confirmation, so a second one can follow from
  the same meter reading and start an export, which then ends (`ExportEnds`).
- With a deadband, a target may be confirmed while a battery is still on the last of its
  way, within the deadband, and the new target is then added up from readings that are
  apart by more than the deadband: the model hunts with a deadband of one of its coarse
  units (`SettlesDown` with `Deadband = 1`). Early cycles let one meter reading be confirmed
  twice. `SettlesDown` is therefore a claim about sites without a deadband
  whose polls keep up, not about the default configuration.
- A reload in the middle of a ramp forgets the confirmation and may overshoot;
  the two engine runs are over before the second load that works (`Again = FALSE`).

Alarms and portal:

- Deleting the last rule never takes effect while the service runs: a load that
  returns no rule is taken for a failed one, while `docs/alarm_rule_config_guide.md`
  (76) says that changes take effect at the next refresh.
- When the load after a reconnection to the database fails (`alarm/main.cpp:359`), there
  are no rules, and all alarms are cleared until the next periodic load.
- An alarm that comes back after it was acknowledged and cleared is listed as
  acknowledged; `active_since` is that of its first occurrence.
- `restart_required` (`admin_server.py` 930) names rtdb-service and the collectors
  only, though the engine and the alarm and history services attach too.
- A service started by the portal that ends by itself leaves a zombie, its pid looks
  alive, and starting it again is refused.

## 4. Proofs

All theorems hold for every value of the constants under the assumptions named in
the modules. Most only say what kind of thing a constant is (`NumSlotsAssumption`,
`DevicesAssumption`, `GroupsAssumption`, `RangeAssumption`, `LimitsAssumption`,
`RecoveryAssumption`, `BuildsAssumption`, `RunsAssumption`, `PowersAssumption`). The others say what the code
takes for granted: the catalog is the first table and the point index one of the later
ones (`TablesAssumption`: `RtDb::create`), every point has a category with a table
(`PointsAssumption`), no two points of a station share a type, an address and a common
address, and of those that share type and address one is the last that was registered
(`Iec104Assumption`), the day is not the first of the epoch (`ZonesAssumption`), and what
`DevicePoll` says of words and layouts (`NumbersAssumption`, `LayoutsAssumption`). Some
theorems have hypotheses of their own, given in the second column.

| theorem | hypotheses | inductive invariant and why it is needed |
|---|---|---|
| `CommandSlotsProofs!TypeCorrect` | – | `TypeOK` itself |
| `CommandSlotsProofs!NeverReplayed` (`NoReplay`) | – | `+ OwnSlot`: a thread claims slots of its own device only, so no slot is claimed by two |
| `CommandSlotsProofs!OnlySubmittedExecuted` (`ExecutedWasSubmitted`) | – | `SourceInv`: what a submitter will store and what a slot that is not Idle shows was asked for; a claimed slot is not Idle |
| `CommandSlotsProofs!LifeCycle` (`StatusLifeCycle`) | – | `LifeInv`: a slot a thread holds is Pending, one it runs is busy |
| `CommandSlotsProofs!EngineRespectsBusy` (`BusyRespected`) | no portal | `EngineInv`: while the engine has Pending to store, the slot stays free; a running slot stays Executing |
| `CommandSlotsProofs!EngineImplementsMailbox` (`MailboxSpec`) | no portal | `EngineInv` under the mapping `box`; each step is a step of the mailbox or a stutter |
| `CommandSlotsProofs!EngineSuccessIsTrue` (`SuccessIsForDesired`) | no portal, submitters do not crash | `ValueInv`: the claimed value is the desired one, and the acknowledged one is the claimed one |
| `PointSeqlockProofs!TypeCorrect` | – | `TypeOK` |
| `PointSeqlockProofs!ParityAlwaysRepaired` (`ParityRepaired`) | one writer | `ParityOf`: the parity of `update_seq` and of the loaded value at each stage of a write |
| `PointSeqlockProofs!EvenReadsConsistent` (`EvenReadConsistent`) | one writer, either build (the property says what each promises) | `ReadInv`, while no writer has died inside a write: as long as `update_seq` has not moved since the first load, what has been copied is still in the slot; fields stored and left of the writer hold this and the last version |
| `PointSeqlockProofs!ReadsNeverStale` (`NeverStale`) | – | `FreshInv`: no field of a slot is older than the last write of it that ended, so no field copied is older than that when the read began; the loop ends only after a full copy |
| `RtDbServiceProofs!TypeCorrect` | – | `TypeOK`, with the slots handed out so far: `CountTo` of the points registered |
| `RtDbServiceProofs!AttachMapsOneRun` (`AttachIsWhole`) | – | `AttachInv`: no header is written and no table listed before every object is zeroed (`ServiceInv`); where the catalog has a header and lists a table, every table that has a name is of the catalog's run, also among what a crash left (`CatalogInv`); what an undisturbed process has mapped so far is what the names still lead to (`AttachingInv`) |
| `RtDbServiceProofs!HistoryPairsNamesAndValues` (`HistoryRowsAreOwn`) | – | `HistoryInv`: a finished entry is the one its row will always have (`EntryInv`), a value is its own point's unless it went astray (`ValueInv`), and the snapshot's k-th value of a category is that of its k-th name (`SnapInv`) |
| `Iec104ClientProofs!TypeCorrect`, `ReceiveHoldsTheMutex` | – | `ConnectionInv`: `socket_mutex_` is held exactly by who is in `recv()`, and only the receive thread ends a connection |
| `Iec104ClientProofs!AcknowledgementsAreExact` (`AckIsExact`), `GivenUpMeansClosed` (`GivenUpIsClosed`) | – | `+ CountInv`: `recv_seq_` is the number of I frames taken from this connection, but between a frame and its count and between a connection and its reset |
| `Iec104ClientProofs!EveryDispatchIsExact` (`DispatchIsExact`) | – | `ConnectionInv` and `CountInv`; every frame under way is one the station can put together (`TypeOK`). Rows of points that share type and address, and of type 34, may take anything; the others take what is theirs from any frame of any type |
| `ModbusProofs!TypeCorrect`, `SharedInvariant`, `OnlyLateAnswersAreWrong` (`WrongAnswerIsALateOne`) | – | `SharedInv`: who is in `recv()` holds the mutex (`Held`), and an answer that is not late is owed to that thread on the connection in use (`Owed`) |
| `ModbusProofs!AloneInvariant`, `AloneIsNeverMisled` (`AloneGetsItsOwnAnswer`), `AloneKeepsOneDescriptor` (`AloneLeaksNothing`) | – (the properties are about a thread alone) | `+ Tidy`: every descriptor but the one in use and the one just made is free, and nothing is left to be read when a request is sent |
| `ModbusProofs!PollInvariant`, `BlocksCoverPoints` (`GroupsCoverThePoints`) | – | `PollInv`: types (`DPTypeOK`), every group still to be read has a range that contains the registers of those of its points whose end fits 16 bits (`Spanning`; a layout may have others), and with the points already written the groups are the whole device (`NoneLeftOut`). They are built by the loop in one step, for which the loop has an invariant of its own (`Grouped`) |
| `ModbusProofs!GoodValuesAreMeasured` (`GoodIsMeasured`) | – | `PollInv`: since a group spans a point whose end fits, the part cut out of its answer is the point's own registers (`SubRegistersAreOwn`), and what `parse_register` makes of them is their weighed sum (`ParseIsWeighed`) |
| `ModbusProofs!OnlineIsEarned` (`OnlineMeansRead`) | – | `+ OnlineInv`: while `all_ok` holds, every point written in this poll was read |
| `ModbusProofs!CommandsReadBack` (`ReadBackIsDesired`) | – | `+ CommandInv`: between a write and its read-back the registers hold the command, so that what will be read is what was asked for; it rests on rounding being exact (`RoundedIsExact`) and on encoding then decoding being the identity (`EncodedIsParsed`) |
| `AlarmServiceProofs!BoardInvariant`, `OneEvaluationAtATime` (`BoardIsOneEvaluation`) | – | `BoardInv`: rows are locked only inside the transaction (`Unlocked`), what it has written so far are alarms of this cycle (`Written`), and no statement touches a decision (`Marked`); under it each step is a step of `AlarmBoard` or a stutter |
| `AlarmServiceProofs!CyclesAgree` (`AgreesBetweenCycles`) | – | `+ Published`: what is published was committed, unless the service is leaving |
| `StrategyEngineProofs!TargetsKeepToStation` (`TargetInRange`) | – | `TargetInv`, with the shape of `eng`: zero, the locked target and the clipped one are in the range of the parameters in use, and a load that changes the parameters forgets the target, whichever of its queries fail |
| `StrategyEngineProofs!SharesKeepToStation` (`SharesInRange`) | – | none of its own: it follows from the target's range and from what sums over a set compute |
| `ManualOverrideProofs!PauseEndsWithRow` (`NeverOutwaits`) | – | `PauseInv`: rows never end later than one written at this moment would, so a later one only lengthens them, and the conversion adds at most the difference of the zones |
| `ManualOverrideProofs!RowsAreRespected` (`RowsRespected`) | – | `ReadInv`: for a row that was read since it was written, the map holds its end as parsed as long as that lasts, from the reading to the submission |

Every safety proof has the same layout: the initial states satisfy the invariant, a
lemma for each group of actions shows that it is kept, the theorem joins them with
the temporal step. The two refinements add a lemma that maps each step, from the
invariant.

Sums over a set of batteries (`Total`) are folds. The library states no theorem about
them that the provers can use, so `StrategyEngineProofs` proves what it needs from the
definition: a finite set has a smallest subset with a property (`SmallestSubset`), and
with it that the summing function exists (`SumsExist`), that any two agree
(`SumsAgree`), and then the equations for the empty set and for one more element
(`TotalOfNone`, `TotalOfMore`) on which the bounds rest (`TotalBounds`,
`SumsInProportion`). Slots counted in `RtDbService` are cardinalities, for which the
library's theorems do.

The loop of `build_register_groups` is a recursive function over the sorted points.
Without induction over data, `ModbusProofs` argues by the least counterexample: a least
length for which there is no such function leads to a shorter one (`LoopsExist`), two
of them cannot first differ anywhere (`LoopsAgree`), hence one round follows from the one
before (`GroupsOfRounds`) and a least round after which the groups do not cover the
points contradicts `RoundKeepsGrouped`. That points can be sorted at all is shown for
a smallest set of points that cannot be, from which a point of the highest address is
taken away (`HighestPoint`, `SortingExists`). The round trip of a command is about the
digits of a number to the base `Word`: quotients and remainders are unique (`Division`,
`Quotient`), two and four digits put together give the number again (`Horner`,
`JoinOfWords`), and the sign of a two's complement is that of its top word (`TopWord`).

`BusyRespected` of `CommandSlots`, `SharesInRange` of the engine and the `TypeOK` of the
proof modules are proved but checked by no run; the invariants above rest on them.

Only model-checked are the liveness properties: fairness and ENABLED are outside the
prover. `SettlesDown`, `OthersTakeOver`, `FullStationStopsCharging`, `OnlyMidWriteReadsHang` and the
others that speak of what happens in the end are of this kind. Every invariant and every
action property (`[][…]_vars`) of a passing run is stated by a theorem, some of them under
the hypotheses in the table.

## 5. What is not modelled

`PROJECT.json` has the reason for each component. The larger ones:

- *Modbus RTU client and serial port*: the state machine is that of `ModbusClient`;
  what differs is the timing of bytes on a line, and that devices share it.
- *Configuration loader, data model, common, utils, libpq wrapper, in-process data
  manager*: sequential helpers without state of their own, or unused by any service.
- *Portal*: sessions and users are single statements of the database; service start
  and stop depend on the operating system's process table; the configuration
  store is one validated transaction; pages and snapshots only read.
- *Viewer, simulator, test server, scripts*: not part of what controls a site.

In the modelled ones: timestamps of commands and `update_seq` of the command table
(nothing reads them); the strategy runtime table, which only shows the engine's last
targets; full tables, which the counting of configured points rules out; the
engine's branch with a SOC strategy only, its branch for a site without BESS
groups, several PV plants and their run states, runtime state and action logs;
the deadband of `CommandHandle`, which never applies because `submit_target` makes a
new handle for every call; floating-point arithmetic (values are bit patterns in
`DevicePoll`, integers elsewhere); byte layout of Modbus and IEC 104 frames and
truncated ASDUs; the times and texts of alarms, and `Db.sync_active_alarms` of the
portal, which nothing calls.

## 6. Plan

1. The mailbox under the portal, for what survives of it.
2. `ModbusClient` with several devices on a serial line.
3. The engine with several PV plants and their run states, and its branch with a
   SOC strategy only.
4. `ServiceControl` and `Sessions` of the portal.

# Verification of the RL78 cluster simulator

TLA+ models, TLC runs and TLAPS proofs kept beside `simulation-rl78-core`, a
simulator of several RL78 boards and plants that run as processes of one cluster.

## 1. The system

```
 browser / gdb / python ──HTTP──> simulation-frontend (http.rs, gdb/)
                                        │ one blocking call per handler
                                  cluster-backend (server.rs: a queue, one worker)
                     commands, actions, │  ^ status, logs,
                     watches, queries   v  │ samples, replies
                                  cluster-arbiter (arbiter.rs)
                        a2n broadcast   │  ^ n2a, one queue per node
                                        v  │
                            board node (board_runtime.rs) × n ── UART and analog edges ──
                              Simulator ─ Machine (CPU, bus, events, devices) | Plant
```

| part | source | state it keeps | operations | what makes it correct |
|---|---|---|---|---|
| virtual-time ceiling | `time_sync.rs` | last report of every board, margin | report, advance_to, allowed_ns, allowed_ns_until | the ceiling is never more than a margin above the slowest board |
| control bus | `control.rs`, `ipc/control_bus.rs` | a2n and n2a queues | publish, try_recv | order per publisher; what a full queue loses never breaks safety |
| arbiter | `arbiter.rs`, `lifecycle.rs` | peers, ceiling, cap, running, GDB phase, stop reason, status | Ready barrier; Start, Stop, Reset, Step, Shutdown; time synchronisation; forwarding | nobody runs before all have attached; caps hold and end runs; a stop reaches everybody; the status is true |
| board node | `board_runtime.rs` | NodeState, ceiling, last report, pending actions | receive a message, step, serve actions and probes, pump, poll, report | never past its ceiling; reports what is true and in time |
| simulator, machine, plant, events | `sim-kernel/src/` | run state, clock, event queue | command, poll, schedule, pop | events in order, none lost, no time travel |
| memory | `bus.rs`, `cpu.rs`, `callbacks.rs` | map, host windows, trap, latched stop | map, alias, merge, bind, access | guest and debugger see the memory the map means |
| RL78 units | `peripherals/` | registers, flags, pending events | register access, event, reset | interrupts in order, timers without drift, frames whole |
| data planes | `data_plane.rs`, `ipc/uart_bus.rs` | out-ports, rings | pump_rx, pump_tx, discard_rx | characters in order and on time |
| actions | `action.rs`, `ipc/action_bus.rs`, `switch.rs` | requests, the hold's deadline | invoke, serve, reply | in order, holds end |
| probes | `probe*.rs`, `ipc/probe_*.rs` | taps, log, window, watch, export | sample, watch, query, export | nothing missing that the user is shown as complete, but for what a full queue gave up |
| session server | `server.rs`, `backend/` | job queue, simulation record, last status, viewer, log window | a job per call, polls in between | answers and streams that match the simulation |
| HTTP handlers, GDB stub | `http.rs`, `gdb/` | streams and their guards, connection, breakpoints | attach, open, poll, detach; resume, step, break | nothing left behind by whoever goes away |
| topology, configuration, clients | `topology.rs`, `config/`, `python/`, `frontend/` | little | parse, validate, show | rejects what the rest cannot run |

What is hard: every part is a process or thread with its own polling loop, and the
only synchronisation is message queues that overwrite their oldest entry when full; a
ceiling is computed from reports that are old when read and applied when older still;
Stop, Start, Reset and Step take effect at the arbiter at once, at the nodes later,
while messages of the earlier run are under way; nodes that do not poll say nothing, and
nodes that die are not missed; HTTP callers give up while what they asked for is still
done; a test or browser puts a stream together from pieces read at different times;
events fire up to a quantum after their deadline. `PROJECT.json` lists each hazard at
its line with the properties that watch it.

## 2. Modules

Modules are composed by EXTENDS. An arrow `A => B` says that `A` implements the
abstract `B` (checked by TLC and proved).

| module | models |
|---|---|
| `TimeCeiling`, `ControlBus`, `Arbiter`, `BoardNode`, composed by `Cluster` => `ConservativeSync` | virtual-time synchronisation and the session's control messages |
| `WiredCluster` => `Cluster` | the same with the data planes: edges between boards, in the order of a node's pass |
| `EventHeap`, `EventQueue` => `PendingEvents` | `event.rs`: heap with lazy deletion against a set of events |
| `Simulator`, extended by `Machine` and `Plant` => `GuestClock` | the simulator around a CPU board or a plant |
| `MemoryBus`, `Guest` | `bus.rs` and the core's view of it |
| `Interrupts`, `ClockTree`, `SocEvents`, `TimerArray`, `SerialArray`, `Converter`, `PortBlock`, composed by `Soc` | the units of the chip |
| `SessionServer`, `Session` | the worker of the session server; the HTTP handlers and the GDB thread that call it |
| `NodeActions`, `NodeProbes`, `ProbeServer`, composed by `Bench` | actions and probes from the client to the node and back |
| `*Proofs` (`KernelProofs`: plant and event queue) | lemmas, theorems |
| `MC*` | instances for TLC |

**Cluster.** `ControlBus` has one a2n queue per node and one n2a queue per node that
keep the newest messages. `RepublishStartup` and `AwaitReady` are the Ready barrier;
`HostStart`, `HostStopCluster`, `HostReset` and `HostStep` the handlers of
`run_host_session`; `StepTimeSync` one pass of `step_time_sync` with the
`write_status` that follows in the same iteration. `BoardNode` has one action per
message kind, `PerformStep`/`FailStep` (`perform_local_step`), `Poll` with the report it
may send, `PollStop`, `PollError`, and `Die`. `peers`, `reports`, `allowed`,
`untilCap`, `running`, `gdb`, `stopReason` are locals of `run_host_session`,
`nodeState`, `ceiling`, `lastReport` of `run_node`; `sim` and `now` belong to the node's
`Simulator`. `resetSlack` and `stepSlack` are ghosts: what Resets and steps may have
added to the skew. A poll moves the clock anywhere up to the ceiling, which is what
`GuestClock` promises and `Machine` and `Plant` are proved to keep.

**WiredCluster** splits a node's pass into its phases: control messages and
`pump_rx`, poll and report, `pump_tx`. A frame is a number; UART and analog edges run
the same code. How much an edge holds is chosen for each (`ringLen`, the topology's
`uart_ring_len`). `got`, `lost` and `sent` are ghosts. The transport may refuse a frame; a Reset
discards what lies on the edges into the board and leaves its out-ports alone.

**Machine** cuts one poll into phases because `fire_due_events` is a loop over device
code. CPU and devices are external and left open: how many instructions retire, why
a quantum ends, whether the clock changes or stops, one cancellation and one new
event per quantum and per event.

**Guest.** Two builders, for core and package, take devices and aliases in any
order; `Build` merges, flattens and binds. Contents are abstracted to the cell an
address means. A region is RAM, ROM or a device as a whole; RAM and ROM fill
pages. A builder call that fails ends the construction, as its `?` does.

**Soc.** An operator per register write of each unit takes the chip and returns it,
as the code's calls under one lock do. Inside a quantum every access sees the time it
began; between quanta due events fire, and frames, levels and resets come from outside.
`grid` is the ghost of a timer's start. A firmware drives one unit besides clock and
interrupts (`guest`): the units share only these two and the event queue.

**Session.** `wire` and `queue` are the two places where a request may wait;
`worker` turns through job, drain and reap. Each handler is a program counter over its
blocking calls, any of which may be given up (60 s) while the job runs on. An inspection
may fail, carried out or not. A scene says which handlers a behaviour uses.

**Bench.** `phase` is the place in the node's loop. `invokes`, `inbox`, `waiting` are
the stations of an action request; `tap`, `log`, `watch`, `samples` those of a sample;
`srv.job` is the one CSV export, `csvReplies` and `csvToServer` the two queues its
chunks go through: `CsvCap` chunks each, the oldest given up for the next one, while
the replies of queries wait for room. `taken`, `applied`, `gone`, `exported` are ghosts.
Four scenes: presses of the switch, a viewer that watches a pin, a test that reads a
UART, two exports.

Simplifications, by module:

* Cluster: any command at any time; joining the bus and its history are one
  `StartupRecord`; a Step of an unknown board does nothing and is left out.
* Session: one simulation id; `HostSlots` for the host queues of 16, all other queues
  large enough; the limits of the GDB thread's own calls and the arbiter's status
  every 100 ms without a change are left out. There is one GDB thread: in the code a
  second attach starts its listener (`http.rs:891`) before the thread it displaces has
  been told to end (`http.rs:902`).
* Bench: ceilings and GDB steps are left out. Samples, replies of queries and requests
  for exports do not stop at the arbiter, which only copies them. The queues of
  watches, queries and requests (32) do not fill, as the worker waits for what it asks;
  replies wait for room in theirs; a queue of samples drops only the oldest of a probe.
  A CSV chunk is one record (up to 32 in the code), and a pass sends one (up to 4). A
  pass that emits nothing is kept apart only while probes are watched.
* Soc: registers without effect in the code are left out, cycle counts are scaled.
  Everything a write of SCR, SMR, SOL or SPS may do to a serial channel, running or not,
  is a choice among `Settings`.
* Guest: a quantum in which nothing retired and nothing stopped returns before the trap
  is taken (`machine.rs:370`), which is a stutter here.
* Everywhere: `u64` saturation of time, errors of the IPC library, text.

## 3. Runs

| run | shows | bounds |
|---|---|---|
| `cluster_commands` | barrier; agreement of arbiter and nodes; only the stepped board moves; a run ended by its cap was simulated up to it; refinement of `ConservativeSync` | 2 boards, 2 commands of any kind, 2 `StartupRecord`s, margin 2, clocks to 4, queues that cannot fill |
| `cluster_lossy` | skew and honest status when queues lose messages and a node fails or dies | queues of 2 and 1, 2 `StartupRecord`s, 1 fault, Shutdown, clocks to 3 |
| `cluster_progress` | stops arrive, runs advance, capped runs and GDB steps end, the time shown never goes back | fairness, 2 of Start, Stop and Step, margin 1, clocks to 3 |
| `wires` | characters keep their order, come within the margin if the ring is short, and come at all | fairness, one edge, ring of 1 or 2, 1 frame received in a pass, 2 frames, 2 commands (Start, Step, Reset), faults, stops and refusals, at most 2 of all these together |
| `event_queue` | refinement of `PendingEvents` | 4 events, 3 times |
| `machine` | consistency, lateness at most a quantum, firing order; refinement of `GuestClock`; ceiling reached, step ended | fairness, quantum 2, periods 0 to 3, 3 events, delays 0 and 2, ceilings 1 and 4, time to 4 |
| `plant` | the solver runs on its grid, once at each point | dt 2, ceilings 1, 3, 5, time to 6 |
| `guest` | one memory for guest and debugger; a quantum stops for what the guest did | 6 addresses, pages of 2, 4 regions, 2 accesses and quanta |
| `soc` | units and event queue agree; timers do not drift; the best request is offered and none lost; frames go out as shifted in, whatever settings are written meanwhile | a unit at a time, 2 channels each, 6 interrupt lines, 2 or 3 register accesses, quantum 3, time to 5, 1 frame, level or reset from outside |
| `session` | an open stream holds the simulation and gives it back; log and status streams; breakpoints go with GDB | fairness, 2 clients, 3 streams, 1 call given up, 1 inspection that fails, log window of 1, host queues of 2 |
| `bench` | holds end; requests keep their order; the test's stream has no gap; the live view catches up; what a saved file lacks was overwritten in a queue; the file of a short export is whole | fairness, by scene: 2 presses of 0 or 1 ms, 2 stops or resets, 3 UART words, 1 watch, 2 exports of up to 3 records over queues of 2 chunks with 1 poll given up or deadline; memory of 1 sample, subscriber of 1 request |
| `gdb_commands` (violation) | a start that was checked before a GDB client connected runs under it | 1 start, 2 clients |

Why the bounds are enough: with a margin of one or two and clocks to three or four a
board meets its ceiling several times; two commands make every race of a command with
the reports and stops of the run before; queues, rings, windows and memories of one or
two entries overflow and spill at once; four events are two pairs of equal deadlines;
four regions are a device and a chain of three aliases, over both builders; two
accesses in a quantum are a timer stopped and started again before its expiry fires.
Two boards are enough for pairwise properties; the theorems of section 5 hold for any
number. `gdb_commands` needs one client and one command. Symmetry of the boards is
used in runs without liveness only. `CHECK_DEADLOCK FALSE` stands where the system
stops (after Shutdown, deletion, a failed barrier, Quit) or the bounds end it.

Each property has a mutant: a plausible mistake in a mapped definition under which
TLC finds it violated.

The properties say where the code does less than one may expect:

* `SkewBounded` carries the slack of Resets: a Reset lifts the ceiling past boards
  that have not moved (`arbiter.rs:633`), though `control.rs:82` says that the margin
  is kept.
* `CappedRunEnds` asks that no board sits unreported at its cap: such a board is never
  polled, so the run never ends (`board_runtime.rs:471`), against `control.rs:21`.
* `StepEnds` leaves out the clock stopped at the ceiling, where `sim.rs:53` promises an
  end and `machine.rs:328` has none.
* After a halt the next quantum retires the instructions of the idle time as well
  (`machine.rs:347`), which `event.rs:11` denies; `EventsTimely` and `KeepsGuestClock`
  hold nevertheless.
* `FrameOnTime` is about edges that hold no more than a pass receives (64); on a longer
  one a frame may wait for the next pass, which `FramesDelivered` covers. It adds the slack
  of Resets and steps; a step receives nothing.
* `HoldOnTime` has no GDB step, during which a pin does stay high past its deadline.
* `CsvAccounted` allows for chunks that a queue overwrote. The queues of CSV chunks
  hold 1024 for each board and give up their oldest (`probe_ctrl.rs:372, 485`), the
  server looks at them every 20 ms or after a job that may take seconds: an export of
  more than 1024 chunks (some 32,000 records) may lose chunks, its last one still
  arrives, `failed` stays false and the file is saved with a hole. No document promises
  otherwise. It does ask that the file of an export which fits a queue has no hole. It
  leaves out files a poll of which was given up: their records are gone, and the
  browser does not notice.
* `BreaksCleared` leaves out breakpoints whose clearing failed: the error of that call
  is ignored (`gdb/mod.rs:151`).
* `ViewerReleased` is about streams that were opened. An attach answered after its
  caller has left keeps the simulation busy until it is deleted.
* `StopIsGuests` lets a debugger's unmapped read stop the guest under the Trap policy,
  which no board uses.
* Safety of the cluster holds with dead nodes; progress does not, although
  `lifecycle.rs:121` speaks of a lost connection.

## 4. Fairness

* Cluster: weak fairness of the arbiter's pass and, for each node, of receiving and of
  polling: both are loops that never block on a message. Commands, faults and the
  Ready deadline are not fair. `WiredCluster` asks only that the loops of receiving
  nodes turn: one fairness for whichever phase a pass is in.
* Machine: weak fairness of `Poll`; strong fairness of quanta that retire something:
  `cpu.rs` allows an engine to return with no instruction and no stop, and one that
  did so for ever would be broken. Plant: the same of `Poll` and `Advance`.
* Session: weak fairness of the delivery of each request that was sent, of the worker
  (which waits at most for its next job), of the arbiter's report and of the status
  stream's loop, which sleeps 200 ms and polls again. Nothing is asked of clients, of
  GDB or of other handlers.
* Bench: weak fairness of the node's loop, of the arbiter's forwarding of watches and
  queries and of the worker's poll and collection. Strong fairness of `EmitPass` (the
  window's time is over again and again while passes go on) and of the viewer's stream.

The kernel's runs bound time by `Horizon`, past which nothing is polled; their
ceilings lie below it.

## 5. Proofs

TLAPS proves, for every value of the constants that satisfies the named assumptions
(naturals, non-empty finite sets of boards, capacities, a quantum and a dt that are not
zero, edges between different boards):

* `TypeCorrect`: the cluster's type invariant, by a lemma per handler.
* `ClusterInvariant` and, from it, `SkewStaysBounded`, `StatusNeverAhead`,
  `BarrierTheorem`, `PhasesConsistent`, `CapTheorem`. Skew is not inductive: a board
  runs to a ceiling computed from reports nobody has checked against the clocks.
  `ClusterInv` adds that every report, read or in flight, lies at or behind its
  sender's clock (`ReportsHonest`), that every ceiling, kept, in flight or applied,
  lies within a margin of every clock (`CeilingsSafe`), and that before the session
  nothing but `StartupRecord`s is in flight (`BarrierHolds`). Queues of any capacity,
  losses, deaths and failures included.
* `ViewsStayTogether`, `OneBoardSteps`: nodes run when the arbiter says so, which holds
  only while no live node lets its control queue fill; that is the hypothesis
  (`QueuesKeepUp`) of both, true of the run `cluster_commands`, whose queues never fill.
  `AgreeInv` says what the last start or stop in a node's queue tells it to do, or what
  the node does if there is none, agrees with the arbiter, boards before the session
  and boards that never answered included.
* `ShownTimeGrows`: without Resets the host is never shown an earlier time. `StatusInv`
  orders, per board, the last report read, those in flight and the clock.
* `Implements`: the cluster refines `ConservativeSync`; each handler maps to a `Run`,
  `Step`, `Reset`, `Show` or a stutter.
* `WiredImplementsCluster`: with its data planes the cluster is still that cluster, so
  `WiredKeepsClusterInv` needs no new proof. `FramesOnTime` is not inductive: whether a
  frame is late is decided when it is received, after clocks have moved. `WireInv`
  says of each frame on an edge that it is neither early nor late now, and will not be
  when the poll has ended that its receiver is about to make (`OnTime`); of each
  pending one that it leaves before its sender's clock moves again (`PendingEnds`);
  and that a short edge, which holds no more than a pass receives, keeps to its length
  (`RingEnds`). That a ceiling in flight lies within a margin of the sender's clock
  comes from `ClusterInv`, the types of the frames from `OrderInv` below.
* `FramesAreInOrder`: every edge keeps the order its sender drove in and accounts for
  each frame, for rings of any length that overflow, refusals, Resets and GDB steps.
  `OrderInv` splits the line into what is received, on the edge and pending: each
  rises, each lies before the next, and together they are what was driven and not lost.
  The lemmas `Drives`, `Sends`, `Loses` and `Receives` are about sequences of numbers,
  one for each way a frame moves; the steps of a node are these.
* `QueueStaysConsistent` and `QueueImplements`: the event queue refines a plain set of
  pending events. The stale prefix of the heap holds no live event, so what remains
  in front is the earliest live one (`EventHeapProofs`).
* `MachineStaysConsistent`, `NoEventLate`, `EventsInOrder`, `QuantumEndsAtDeadline`.
  Lateness is not inductive on its own: `MachineInv` adds that after the due events
  have fired everything pending lies ahead of the clock, so lateness cannot add up.
* `MachineKeepsGuestClock`, `SolvesOnGrid`, `PlantKeepsGuestClock`: the two entities keep
  the contract that the node's `Poll` and `PerformStep` take for granted.
* `ChipInOrder` and, from it, `OffersHighest`, `EventsArmedOnce`, `TimersTickOnGrid`,
  `RequestsAreKept`, `ShiftedBytesGoOut`: any lines, channels, clocks, frames and
  voltages. `SocInv` has the ranges of every register, without which nothing about
  dividers, masks and bytes follows; every event of a unit carries the number of its
  last arming (`Armed`), so a stale one is told from a live one; the request offered is
  the one recomputed from flags, masks and priorities (`Offered`); a pending overflow
  lies on the grid of its timer's start (`OnGrid`).
* `OpenStreamHolds`: any clients, scenes and bounds. Whether a stream holds the
  simulation is not inductive: an attach is granted before its client knows, a detach is
  run after its client has gone. `ViewerInv` counts a token as held from its grant until
  the stream ends (`TokensHeld`): it is the server's, nobody else holds it, and no
  detach under way names it; that a viewer has one request under way, of the kind it
  waits for, tells whose answer it is (`ViewersCall`).
* `LogStreamGapless`: any window, lines and calls given up. `LogInv` adds what is between
  server and stream: the window numbers its lines on (`WindowInOrder`), the poll under
  way asks for what follows the line reached (`ReaderCalls`), and an answer not yet
  looked at continues it, leaving out only what the window has lost (`AnswersFit`).
* `HoldsEndOnTime`: any quantum, lengths of a hold and queues. A pin may be driven while
  its deadline has passed, between a pass of the guest and the next look at the switch;
  `HoldInv` says when it may not, while the guest runs, and that a driven pin has a
  deadline. `RequestsInOrder`: what is applied and in flight is one rising line of ids,
  and with those dropped it is all that was published. `ServicedTurns` is about the
  requests a node applies in one pass, however many: the state after each of them is a
  recursive function, which exists (`StatesExist`) and keeps what its steps keep
  (`UpTo`, induction over a set of numbers); `DroppedInOrder` and `NewestInOrder` are
  about what a full queue overwrites in the middle of the line.
* `ExportsAreAccounted` (`CsvAccounted`): any records, capacity, exports, polls and
  deadlines. That a finished file has its export but for what was overwritten is not
  inductive: the records are spread over a node, the two queues, the job and the file. `CsvInv` says that the ids of the exports under
  way rise along both queues (`LineOk`), so no chunk is taken for another export's; that
  each file with what these places still hold for it, in that order, lacks just what
  was overwritten (`Arrives`), until it is complete (`Accounted`); and that the latest
  export, while no longer than a queue, has lost nothing (`Short`), as the chunks of
  earlier ones lie before its own and are given up first. A chunk that is sent, that
  moves from queue to queue or is overwritten keeps all this for every file (`Follows`).
  `GatheredLast`, `GatheredBehind` and `GatheredNone` say what the pass that gathers
  chunks, a recursive function, adds to the file of each export.
* `MemoryIsOne` (`OneMemory`): any devices, aliases and chains, from either builder, as
  long as no region begins at the last of all addresses or is as long as all of them
  (`GuestAssumption`; there sums saturate, and the boards' maps lie in the first 2^20).
  Nothing in the code says that chains of aliases end or that offsets add up. `MapInv`
  has it from how a map is built (`WellFormed`): regions lie apart, so at most one covers
  an address and `find_base` finds the one meant, and an alias is a window, whole, of a
  region put in before it. The merge of two builders keeps every region as it was
  (`MergedWhole`), a chain leads to ever earlier regions and ends at a device where the
  first alias still fits (`FurtherFits`, `WalkEnds`), and what an address means goes the
  same way (`MeaningOf`). `RunExists` and `RunStays` are the induction behind the four
  recursive functions: the merge, a chain, a meaning, the binding of windows.
* `GuestStopsItself` (`StopIsGuests`): `StopInv` says that what is latched is the first
  access of the guest that failed, and that a trap is set under the Trap policy only.

Only model-checked: `StreamExact` of `Bench`, whose samples are filtered, flattened and
sorted (`SelectSeq`, `FlattenSeq`, `SortSeq`, opaque to the provers); and all liveness,
which the proof system does not reach under fairness.

## 6. Not modelled

`PROJECT.json` lists every part with its status and reason. Left out for good: the
instruction set (an external C library), the physics of plants, presentation, text of
logs, HTTP syntax, file formats. Not modelled so far: the thread that runs a
`Simulator` outside a cluster (`sim.rs:230-402`), which waits for commands on a channel;
the checks of a topology and of configuration files, whose results are the assumptions
on `Boards`, `Margin`, `Edges` and `RingLens`; creation of a simulation from an uploaded
topology, removal of its files and of orphaned processes; failures of the disk under
the probe log; the DAC, a weighted sum. In the modelled parts: the external interrupt
edges (EGP, EGN), the `u32` clamp of the instruction budget, and the hook before a
quantum of the plant.

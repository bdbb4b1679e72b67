# TLA+ models of the TUFAN-AKS vehicle firmware

These modules model the firmware in `src/ESP_AKS`, the vehicle control unit
of an electric car: an ESP32 under FreeRTOS that receives CAN frames from the
motor controller and the battery (BMS), drives the positive contactors through an
SPI relay expander, shows data on a Nextion panel, takes the driver's commands
from it, and sends telemetry by LoRa to a ground station (UKS).

`PROJECT.json` maps every definition to its source lines and lists the runs, the
hazards behind the properties, and the findings.

## 1. The system

`app_main` initialises relays, `VcuLogic` and a one-place mailbox, then starts
four tasks that run for ever. Paths are relative to `src/ESP_AKS`, those of
documents to `src`. A second firmware, `src/e22_diagnostic.cpp`, is flashed instead of the
vehicle's to examine the radio on the bench.

| Task (priority, core) | Period | Code | State | Talks to |
|---|---|---|---|---|
| CAN (5, core 0) | 10 ms | `lib/CanManager`, `lib/CanParse` | last frame of each source, validity, fault flags, telemetry | overwrites the mailbox; posts FAULT_DETECTED |
| VCU (10, core 1) | 20 ms | `src/VcuLogic.cpp`, `lib/RelayManager` | state, timer, event queue, E-STOP flag, contactor flags | peeks the mailbox; writes the relay expander |
| LoRa (8, core 0) | 10 ms + RX wait | `vTask_LoRa_UKS`, `lib/OfflineBuffer`, `lib/Telemetry`, `include/LinkMonitor.h` | last heartbeat, link state, offline buffer, sequence number | peeks the mailbox; radio UART |
| HMI (2, core 0) | 100 ms | `vTask_HMI_Display`, `lib/DisplayHMI`, `lib/HMIHelpers`, `lib/BmsAlgo/BmsNextionPacket` | caches of what the panel was sent, receive state | peeks the mailbox; posts commands; panel UART |

What makes each correct, and what makes it hard:

* **VcuLogic**: contactors closed exactly when armed, opened in every stop,
  drive only on healthy data, stops left only through the interlock. Events race
  with `run()`, several early returns skip the handler that opens contactors,
  and SPI writes may fail without anyone being told.
* **CanManager**: what it publishes says exactly who is silent; a fault is
  announced by an event and visible as a level. Frames and checks interleave, and
  events are raised only by a *change*. Bus-off takes two answers in two cycles.
* **LoRa task**: an outage leaves no hole in the record, kept samples are sent
  once and in order. Heartbeats, the radio's AUX line and new outages may come at any
  packet of a replay.
* **OfflineBuffer**: a FIFO that forgets its oldest packet; three indices that
  nothing keeps together but the functions themselves.
* **HMI**: caches must not claim what the panel does not show. The panel restarts
  whenever it likes, frames are cut between two scans, and the byte budget ends
  a tick in the middle of a page.
* **Composition**: event queue and mailbox are bounded and lossy in different
  ways; safety must not hang on the event that was dropped, and the order in which
  commands and faults stand in the queue decides what an E-STOP is worth.
* **Start**: half of the failures in `app_main`, `VcuLogic::init` and the tasks' `begin`s are
  only logged; what comes up must not be armed without a way to stop it.
* **Relay driver**: a command is two SPI transactions on an expander that keeps its
  registers when the ESP restarts, and powers up with latches that mean "on".
* **Radio boot**: mode pins, AUX, register answers and a flash write against timeouts
  and a watchdog; answers may be lost, garbled or late, and either side may restart.
* **Uplink frame**: the ground station drops a whole line for one field out of range.
* **Cell computations**: extremes, averages and strict thresholds over readings that may be invalid or beyond the scale.

Not modelled:

* the host-side tools (`tools/can_replay`, `tools/e2e`): they parse logs and replay them
  for tests, and keep no state of the vehicle. `tools/e2e/contract.py` is the source
  of the ground station's ranges.
* how values become text: the digits, units and `--` sentinels on the panel, the
  layout of the LoRa line, log messages, the register names the diagnostic firmware prints.
* warnings that only log (BMS warning band, unknown bytes on the radio's UART, stack usage).
* the bench sniffer in the repository's root, which is another program.

## 2. Modules

| Module | Models | Abstract specification |
|---|---|---|
| `VcuLogic` | state machine, handlers, event queue, relays with failing writes | `ContactorPolicy` |
| `OfflineBuffer` | the ring buffer's functions and a client that calls them in any order | `BoundedFifo` |
| `LoraUplink` | the LoRa loop, on `OfflineBuffer` by INSTANCE | `StoreAndForward` |
| `CanManager` | frame handlers, freshness, bus-off | |
| `AksSystem` | `CanManager` and `VcuLogic` by INSTANCE, mailbox, periods | |
| `HmiDisplay` | HMI task, both pages and their caches, classifier, panel | |
| `DriverCommands` | buttons, the 100 ms scan, the shared event queue, `VcuLogic` by INSTANCE | |
| `Startup` | `app_main`, `VcuLogic::init`, the tasks' `begin`s, each of which may fail; then `VcuLogic` by INSTANCE | |
| `RelayManager` | the relay driver and its expander, one SPI transaction at a time | |
| `E22Boot` | the radio's configuration at boot, by either firmware, and the radio | |
| `UplinkFrame` | the fields of a telemetry packet, from the CAN frame to the LoRa line | the ground station's ranges |
| `BmsAlgo` | `computePack` over a cell data source | |
| `TickClock` | timeouts and periods on a tick counter that wraps | true time |
| `Parts` | one of `OfflineBuffer` and, by INSTANCE, `RelayManager`, `E22Boot`, `UplinkFrame`, `BmsAlgo`, `TickClock`, `CanManager` and `Startup`; the others idle | |
| `*Proofs` | theorems about the module of that name; `PartsProofs` about `Parts` and its instances | |
| `MC*` | instances for TLC | |

How state and actions correspond to the code:

* **VcuLogic.** One variable per static of `VcuLogic.cpp` (the E-STOP and FAULT
  pairs, which the code treats identically, are functions of the stop state).
  `run()` is cut in two because other tasks can act in between: `RunEStop`,
  `RunCritical`, `RunProceed` up to `pollEvent` (on the snapshot the task has
  just peeked), then one `Poll...` action per branch, each with the periodic
  handler where the code reaches it. `commanded` is what `RelayManager`
  believes, `energised` the OLAT banks that are really on; `Writes` says which
  sets of banks a command may reach. `stateTimer` counts modulo `TimerMod`
  (2^32 in the code), and `lastLogMs` starts at `TimerMod - ReassertMs`, as `(uint32_t)-1000`.
  `TEL_bmsSystemState` is left out: no handler writes it, so it is never 4.
* **CanManager.** `motor`, `bms` and `charger` bundle the statics of each source. Ticks
  become ages in cycles. A frame is one action from `twai_receive` to the end of its
  handler; `fault` tells whether it calls the event callback. `EndCycle` is the
  freshness checks. The TWAI driver's `bus` and `alert` are external. Frames may
  arrive whatever the bus state, which is more than the driver does.
* **AksSystem.** `Elapse` begins a new 10 ms period when both tasks have done
  theirs; the VCU task runs every `VcuPeriod` of them, interleaved with the CAN
  task in every way. `CanFrame` posts the event before the handler returns, as
  `CAN_handleEvent` does. `danger` is a history variable that counts periods.
* **LoraUplink.** A pass is `Listen` (read, heartbeat, link state), then one of the
  `Tick...` actions, then replayed packets one at a time and the live one, because AUX
  and the mailbox may change between them. Clocks are ages that stop at `Horizon`.
  `air` and `gap` are history variables.
* **HmiDisplay.** A tick is `UpdateScreen`, `BuildBmsNextionCommands`, then
  `ScanByte` for every byte that has arrived and `ScanEnd`. Bytes are real byte
  values: the classifier is modelled as written. Commands of the BMS page are counted in
  objects instead of bytes. `owed` is a history variable. The command that
  `ScanEnd` reports is posted to `VcuLogic`; `AksSystem!HmiCommand` is its other end.

* **DriverCommands.** `pressed` is what the panel has sent since the last scan; `Scan` empties
  it and posts its first command, as `readTouchCommand` and the switch over its result
  do, every `ScanCycles` cycles of the VCU (100 ms of 20 ms). `CanFault` is the CAN
  task's post: at any moment and in any number, since the task handles up to five frames every 10 ms
  (`CanManager.cpp:98`) and posts whenever a frame's errors change (`:478`). Three history variables, which
  no action reads: `older`, how many of the queued events were there when the last E-STOP was posted; `faults`,
  the posts since the last scan; `calm`, that there were never more than `Quiet` of them since a scan last
  found the queue empty. `Quiet` is a threshold of the properties and limits no step.
* **Startup.** `step` is the next call of `app_main`, `have` what could be created. `VcuInit`
  has the three outcomes of `VcuLogic::init`. `InitPoll` is `run()` in the state INIT,
  which the other modules never see because their `Init` is a start without failures.
  The tasks are not told of a failure, so `Post` and `Seen` do what `postEvent` and
  `setTelemetryData` do without queue or mutex.
* **RelayManager.** `todo` holds the register writes a call has still to make, `low` and
  `outputs` are the expander's latches and directions. `EspReset` keeps them,
  `PowerCycle` sets the chip's defaults. Any write may fail; the history variable `missed`
  says which registers' last write did. `VcuLogic` has the calls as single steps, which
  is sound there because only the VCU task makes them.
* **E22Boot.** One action per wait of the boot: `stage` says which, `elapsed` is the time since the
  task watchdog was last reset, `verdict` what was logged. A UART that does not start costs a second (`UartFails`)
  before the watchdog is fed and the next attempt is made (`UartRetry`). The radio (`mode`, `aux`, `inbox`,
  `flash`, `crypt`) is external. What can be read back of a register block is one value, `flash`; `Foreign` are those that
  differ from the contract. The key, `crypt`, is written with them and never compared (`E22Config.cpp:51-59`). `healthy` is a
  history variable.
* **UplinkFrame.** One action per frame that sets a printed field; the snapshot is grouped by frame; `Line` is what
  `sendStatus` would print of the snapshot. The speed's float is computed to four decimal places.
* **BmsAlgo.** `ComputePack` is the function; the cell data source, which is an interface with
  no implementation in the vehicle's firmware, changes one reading at a time.
* **TickClock.** One loop with one source and one period stands for all of them: they use
  the same comparisons. `age` and `txAge` are history variables, the true times.
  The ages of the other modules rest on this module.

Definitions named `Bug...` are mutated forms of the definition after them. They
take no part in any specification; `PROJECT.json` "mutants" says which property
fails when one takes its original's place.

## 3. Runs

Run any with `tlc -config <cfg> <module>`.

| Run | Module, cfg | Checks |
|---|---|---|
| vcu_safety | `MCVcuLogic`, `VcuSafety.cfg` | contactors agree with states, `DriveIsHealthy`, the reset interlock, `OpenedMeansOpen`, `QuietCycleOpens`; SPI reliable |
| vcu_liveness | `MCVcuLogic`, `VcuLiveness.cfg` | with failing SPI writes: `EStopTakesEffect`, `QuietStopOpens`, refinement of `ContactorPolicy` |
| lora_uplink | `MCLoraUplink`, `LoraUplink.cfg` | `BacklogInOrder`, `OutageCovered`, refinement of `StoreAndForward`, `BacklogDrains`, `LiveFlows` |
| aks_system | `MCAksSystem`, `AksSystem.cfg` | `DriveOnFreshData`, `DangerIsBrief` |
| hmi_display | `MCHmiDisplay`, `HmiDisplay.cfg` | `EveryPressAccounted`, `CacheIsHonest`, `BmsPagePaints` |
| driver_commands | `MCDriverCommands`, `DriverCommands.cfg` | with faults in any number: `OlderResetWinsOnlyAfterBurst`, `DropsOnlyAfterBurst`, `FirstPressStops` |
| parts | `MCParts`, `Parts.cfg` | `OfflineBuffer`: `IndicesAgree`, refinement of `BoundedFifo` |
| | | `RelayManager`: `MovesAsCommanded`, `DoneAsCommanded`; failing SPI writes, ESP restarts and power cycles anywhere |
| | | `E22Boot`: `VerdictTrue`, `HealthyBootConfigures`, `WatchdogFed`, `BootEnds` |
| | | `UplinkFrame`: `OnlyRpmRejected` |
| | | `BmsAlgo`: `PackAsDefined`: extremes, balancing, warning level against the worst cell and the pack's own fault, charge |
| | | `TickClock`: `TimeoutIsTrue`, `PeriodKept` |
| | | `CanManager`: `FlagsTellSilence`, `EdgeAgreesWithLevel`, `BusComesBack` |
| | | `Startup`: `ArmedIsServed`, `StartedSafe`, `EStopFromTheStart` |

`parts` is one run for eight modules that neither call each other nor share state within their questions. A
behaviour picks one of them in its first state and takes only its steps; the others stay as they
start. Each part's states are therefore explored exactly as by a run of its own.

`TypeOK` is proved for every module that has one and is checked in one run only, `vcu_safety`, where an overfull
queue would break it.

Five runs end in a counterexample on purpose: each checks a statement made by a comment, a
test or a document of the repository which the code does not keep.

| Run | Statement | What the code does |
|---|---|---|
| vcu_idle | `VcuLogic.cpp:197`: IDLE is "all relays off" | a RESET within the 20 ms open delay returns to IDLE before `allOff`, and IDLE never opens |
| vcu_starved | `test_state_machine.cpp:256`, `SystemConfig.h:151`: the second `run()` in a stop opens | FAULT events restart the delay and rejected RESETs skip the handler |
| vcu_fresh | `CanManager.cpp:413`: READY and DRIVE require fresh BMS data | a BMS never heard is neither timed out nor critical |
| hmi_repaint | `main.cpp:338`, `Teknik_Kontrol_Hazirlik_P7.md:91`: a panel restart repaints all BMS objects | the refresh is forced for one tick of 90 bytes; the rest stays blank |
| driver_burst | `VcuLogic.cpp:25-26`: a saturated queue cannot swallow an E-STOP (`OlderResetNeverWins`) | a RESET pressed earlier waits behind a burst of faults, is received in the cycle after the E-STOP was taken, and leaves the stop before `allOff` |

Divergences met while modelling that have no run of their own; the modules behave as the code does:

* `TelemetrySanitize.h:9-12` promises values that never leave the range the ground station accepts. Nothing limits the motor's
  rpm, which goes out as it came from the bus, and `tools/e2e/contract.py:83,247` drop a line above 20000. `FieldsAccepted` in
  `UplinkFrame` is the whole promise; it fails, and `OnlyRpmRejected` says exactly when: for an rpm above 20000 and for nothing else.
* `TEKNIK_KONTROL_PROVASI.md:143-148` has the link-up line give the time range of all N replayed packets; a
  new outage during a replay resets the range (`main.cpp:650`), not the buffer.
* `LoRa_Link_Analysis.md:63` and `:70` keep a packet that finds AUX busy; the code (`main.cpp:698-709`)
  keeps only replayed ones. `LiveFlows` is what remains: later packets go on.
* A radio that differs from the contract in its key alone is logged as already agreeing ("zaten sozlesmeyle uyumlu",
  `main.cpp:502`) and never written. `E22Regs.h:63-66` says that the key is left out of the comparison because it cannot be
  read back, so the log's "contract" is the readable registers, and so is that of `VerdictTrue`. For the same reason a stale answer may
  confirm a write that did not store the key. `HealthyBootConfigures` promises the key where the boot wrote.
* `RelayManager.cpp:42-45` orders latches before directions so that no relay fires; a failed latch write is
  only logged and the direction write follows. `MovesAsCommanded` excepts exactly that bank.
* `Teknik_Kontrol_Hazirlik_P7.md:86-88` has an ESP reset end with open contactors; if the SPI bus cannot be
  initialised, `app_main` returns before the first write.
* `VcuLogic.h:75-77` excludes driving on stale data; without the telemetry mutex `init` returns, the tasks
  start nevertheless and every snapshot is ignored. `ArmedIsServed` therefore does not ask for the mutex.

### Bounds, and why they are enough

* **VcuLogic**: a queue of 2 (1 in the liveness runs), so that events wait behind
  others and overflow. Delays of 1, 1 and 2 timer units and a timer modulo 4 or 5: the delay, the re-assertion and
  the wrap all occur, and the wrap falls at every phase of the re-assertion. Six
  snapshots, one per kind that makes a decision differ. Two banks, so that
  half a command can fail.
* **OfflineBuffer**: three slots, three packets: empty, full, wrapped and overflowing
  in every position. The theorems remove the bound.
* **LoraUplink**: times keep the code's order (TX period < sampling period <= link timeout < boot
  grace), passes take 1 or 2 units, `Horizon` lies beyond every comparison; four
  snapshots (`MaxTs` = 3 and the empty mailbox), two slots, a sequence counter of 3 values. Two outages with a
  replay cut in between, and an overflow, fit.
* **CanManager**: a pack voltage at each threshold and inside it, two different
  motor errors (a change from one error to another), timeouts of 2 and 3 cycles, two frames a cycle.
* **AksSystem**: a queue of one, so FAULT_DETECTED is dropped as soon as any command
  waits; one bank; the same times. `VIEW ReadLater` hides only what no later step reads.
* **HmiDisplay**: a budget of two of three objects, so no tick can carry the page; ten bytes
  under way, the length of a restart and a ready message, or of two touch frames
  behind part of one; one field with two values; START and E-STOP.
* **DriverCommands**: `driver_burst` has the code's own queue of 8 and five cycles a scan. `driver_commands` has three cycles and
  a queue of 3, the shortest that serves one fault between two scans, so `Quiet` is 1: the queue fills and overflows, calm is lost
  and regained. Two commands in the receive buffer, so that one is passed over.
* **Startup**: every subset of failures; the code's five attempts of the HMI; a healthy and a
  critical snapshot besides the zero one; a queue of one, because what it holds back is `DriverCommands`' question.
* **RelayManager**: two banks of two channels, so that a command can be half way in
  either bank; nothing depends on the number.
* **E22Boot**: the code's times in units of 50 ms (500 ms, 2 s, 500 ms, 50 ms, 1 s, watchdog 5 s).
  A wait takes no time or its whole timeout: `elapsed` only adds up, so the extremes decide. Five UART retries without a
  reset would reach the watchdog's timeout, and any number of them occurs. One register
  block and one key besides the contract's, three answers under way, so that a late one meets the next.
* **UplinkFrame**: each word at, below and above the limits (motor speed of 300 km/h,
  charge of 100%, sign bit; 32768 rpm is beyond the ground station's limit, the others are not); bytes at the sign; every data length a handler compares with.
* **BmsAlgo**: three cells, with every combination of ten voltages at and beside each threshold, and of three
  temperatures. Nothing but `N` relates cells, and index ties, first and last cell occur with three.
* **TickClock**: a counter of 32 values with pauses of up to 4: every phase of the wrap meets
  every phase of timeout and period; `Horizon` lies beyond a whole turn.

### Fairness, and why the code justifies it

Tasks run for ever and are scheduled: weak fairness of the VCU's, CAN's, LoRa's and
HMI's own steps. Each loop blocks for a fixed delay and the two cores run the
ready task of the highest priority; the firmware as configured has no other guarantee
(`sdkconfig.esp32dev:1132`: the task watchdog reports and does not restart). The environment - frames,
buttons, heartbeats, telemetry - owes nothing. Three assumptions go further and are used only where named:
`SpiFairSpec` (failing SPI writes are transient: again and again an `allOff` gets
through) for `QuietStopOpens`; strong fairness of `ReplaySend` (AUX returns to high
again and again) for `BacklogDrains`, and of `LiveSend` (it is high again and again when a live packet is due) for `LiveFlows`; strong fairness of `ScanByte` (a byte that was
sent is read by some scan) for the HMI's pages. `BusComesBack` assumes that
the driver finishes a recovery it was told to begin. `BootEnds` and `EStopFromTheStart` assume only that the task is
scheduled: nothing of the radio, the panel or the CAN bus.

`QuietStopOpens` is conditional on events ceasing to arrive; vcu_starved shows why.
`BmsPagePaints` is for a panel that never restarts; hmi_repaint shows why.

`CHECK_DEADLOCK FALSE` stands only where the program really stops: in `Parts.cfg`, because the CAN
task ends when `begin()` fails and `app_main` may return.

## 4. Proofs

`tlapm` checks these for every value of the constants that satisfies the named assumption of the module, which
TLC evaluates on every run: `VcuAssumption`, `BufferAssumption`, `UplinkAssumption`, `SystemAssumption`,
`HmiAssumption`, `DriverAssumption`, and `PartsAssumption` for those of the parts (`CanAssumption` is a
conjunct of it and of `SystemAssumption`). They give
the constants their types and exclude what the configuration excludes: an empty buffer, periods of zero, a tick
counter too narrow for its timeouts. Theorems that need more say so themselves. Every invariant that a run
checks is proved; so are `MovesAsCommanded`, `PeriodKept`,
`StopLeftOnlyWhenHealthy`, `QuietCycleOpens` and the three refinements.

**VcuLogicProofs**
* `TypeCorrect`: inductive as stated; one step per action, with lemmas for what
  `TransitionTo`, the relays and the stop handlers do to their variables.
* `DriveSafety`: `DriveIsHealthy` is not inductive: DRIVE is entered in the second
  half of a cycle on the snapshot of the first. The invariant adds that at the
  poll a running state has been checked against the same snapshot.
* `ResetSafety`: from type correctness alone: of all steps only an accepted
  RESET leaves a stop, and its guard is the interlock.
* `OpenedSafety`, `QuietCycleSafety`, `ArmedSafety` assume reliable writes (`Writes = {Bank}`).
  The first needs that flags are cleared on entering a stop and that nothing
  closes a contactor while in one; the second follows from it; the third from
  the fact that READY is entered in the very step that closes the bank.
* `PolicyRefinement`: every step is a step of `ContactorPolicy` or a stutter; no assumption on `Writes`.
* `VcuInvStep` puts the steps of these invariants together for `Startup`, where the task starts from other states than `Init`.

**OfflineBufferProofs**: `TypeCorrect`, `IndexAgreement` (modular arithmetic is reduced
once, in `WrapOnce`, to a comparison), and `FifoRefinement`: `PushContents` and
`DropContents` say what an operation does to the sequence of packets, element by element.

**CanManagerProofs**: `TypeCorrect`, `EdgeLevelAgreement`, and `SilenceFlagged`, whose invariant
`SilenceInv` says what remains true in the middle of a cycle: a source seen is
either valid or flagged, and only a source as old as its timeout is flagged.

**LoraUplinkProofs**, for every period, timeout, buffer capacity and number of snapshots.
* `RingUsed` and `RingInvariants`: the task uses the buffer only through its functions, so the theorems of
  `OfflineBufferProofs` hold inside it, by INSTANCE.
* `OutagesAreCovered`: `OutageInv` relates the clocks. The gap in the record began no earlier than the silence; while the
  link is down it exceeds the grace, or after a first sample the sampling period, by no more than what has passed of the current
  TX period. A pass therefore ends with a gap of at most link timeout and TX period, 3.2 s with the code's values (5.2 s with
  the boot grace), and inside a pass that pass comes on top. It assumes a sampling period no longer than either timeout, as in the code.
* `BacklogOrdered`: what `PushContents` and `DropContents` do to an ascending sequence below the mailbox.
* `UplinkRefinement` assumes a UART that takes what is written (`UartResults = {TRUE}`), as the run does:
  every step is a step of `StoreAndForward` or a stutter.

**AksSystemProofs**
* `SystemRunsCan`, `SystemRunsVcu`: hiding the other task, a step of the composition is a step of `CanManager` or of
  `VcuLogic`, so that their theorems hold of it (`CanInvariants`, `VcuInvariants`).
* `DriveFreshness`: `MailboxInv` says what the mailbox tells in the middle of the CAN task's cycle, when its data has aged by one
  period; `FreshInv` that DRIVE, and a READY that may be left for it in this cycle, was checked when the VCU task last ran.
* `DangerBrief`: `DangerInv` says where a counted danger is visible: in the mailbox until the CAN task publishes again, and once
  the VCU task has run the vehicle is disarmed or the danger is over. No assumption on the queue's length, nor on what stands in it:
  the level check does not need the event.

**DriverCommandsProofs**, for every queue length and any periods of the scan and the VCU task.
* `DriverRunsVcu`: whatever is pressed, the VCU task takes only steps of `VcuLogic`. `DriverVcuInvariants` follows from
  `VcuLogicProofs`, and `TypeCorrect` from there and `OlderStep`; neither assumes anything of how fast the queue is served.
* `DriverHasRoom` and `OlderResetsLose` are about a bus with any number of faults, too: they say that nothing less than a burst
  makes the code drop a command or undo an E-STOP. What a burst is, `ServedInTime` fixes: `Quiet` may be so large that between two scans
  the VCU task has a cycle for every fault, one for the command and one that an E-STOP or a critical condition preempts, and
  that the queue holds the faults of two scans and a command with room to spare. With the code's five cycles and queue of
  eight that is 3 faults in 100 ms. The first half is sharp: with one cycle less TLC finds a RESET that undoes a later E-STOP on a calm
  bus, for (`ScanCycles`, `Quiet`) = (2, 1) and (3, 2).
* The invariant, `QueueInv`, holds while the bus is calm; a burst suspends it, and the first scan that finds the queue
  empty restores it. It has three parts. `LeftInv` counts what stands in the queue since before the last scan against the
  cycles since: every cycle takes one, but for one that is preempted and the one at its poll. `CommandIsLast` says that a command
  is the last of these. `OlderInv` says that only faults stand before an E-STOP, but for a command that is received before anything
  can take the E-STOP.

**HmiDisplayProofs**, for every set of commands, page and budget, and any length of the line.
* `PressesAccounted`: the line from the panel follows a grammar, `After`, from the byte the classifier is at
  (`FrameInv`): whole frames, and frames cut off by the zeros of a restart's announcement. Under it a frame's last byte is
  recognised exactly when it was one, so presses owed, presses on the line and the one being reported add
  up. The count of frames in a concatenation needs `EndsConcat`, on the cardinality of shifted index sets.
* `CacheHonest`: a cache may be wrong only while a restart's announcement is on the line, in the classifier or in the flag
  it sets; the grammar is what excludes an announcement that is lost.

**PartsProofs**, from the specifications of the parts; `RunsRadio` and its likes show that a behaviour of `Parts` is one of each part.
* Radio: `RadioInductive`. `BlocksTold`: no stale answer in the receive buffer shows the contract unless the flash's readable registers are the
  contract's; from it the log's truth. `VehicleInv` and `DiagnosticInv`: a radio that answers in time has at most one command to answer,
  that of the task's stage, so the queues are empty when the loop starts and, where the boot wrote, the key is the contract's. `FeedInv` bounds, stage by stage, the time since
  the watchdog was fed, the second between two attempts to start the UART included. `BootFeedsWatchdog` assumes that this second and
  `BootTime`, the sum of the later waits, 4050 ms, are each within the watchdog's timeout, 5 s in the code: the reset lies between them.
  `Foreign` may be any set of wrong registers, and the receive buffer any length.
* Clock: `Difference` and `DifferenceGrows` reduce differences modulo `TickMod` to plain ones. The invariant says that
  the true age is the difference of readings as long as the source counts as valid, and that a period's age never outgrows the counter.
* Frame: the casts end in the range of their type (`Casts`), so every field does, and the clamped ones in the ground station's;
  `tempL <= tempH` because one frame sets both. `RejectedForRpmOnly`: a packet is dropped if and only if its rpm is above the limit.
* Start: `StartInv`. A command can only stand in a queue that exists and only while the panel is read, and only
  START_REQUEST, received by a running VCU task, arms the vehicle: `ArmedVehicleServed`. `VehicleSafe` is what carries the promises of
  `VcuLogic` over to starts that failed: in INIT nothing has moved but the timer, the queue and the E-STOP flag (`Untouched`), the state
  is left from there with every contactor open and every flag cleared (`LeavesInit`), and from then on every step is one of `VcuLogic`,
  on a snapshot that was published or is zero (`RunningSafe`). Hence `VehicleSafeFromTheStart`.
* Relay driver, for any number of channels and any size of a bank. `WritesLeft` says what `todo` can hold at every stage: the rest of
  `begin()`'s four transactions or of a call's two, and every latch write in it carries `s_relayState`. `BanksSettled` says what the
  expander holds: a bank whose latch write is no longer pending and did not fail agrees with `s_relayState`, and after its direction
  write it drives its pins or that write failed. `RelayCallsDone` is that with nothing pending. `RelayMovesCommanded` looks at the
  transaction that moves a contactor: a latch write moves it to where it is commanded, and a direction write comes only in
  `begin()`, after both latches (`HeadOfWrites`).
* Cells, for any number of cells and any 16-bit readings. The running extremes and sums are functions on 0 .. `N`;
  induction on them is the argument by the least counterexample (`LeastNatural`, from the well-foundedness of < on the naturals), which
  needs no induction theorem with an operator parameter. From it `MaxIndexIs` and `MinIndexIs` (the first cell with the extreme reading)
  and `SumBounds`. `TheWorstCellDecides` and `PackFaultShows`: a pack beyond a threshold of the VCU (2.5 and 3.65 V a cell)
  has a cell beyond a warning threshold (2.8 and 3.55 V), whatever the truncation to deciV loses. `ChargeIsExact`
  is the clamped division. `CellFieldsTyped` is `TypeOK`, the ranges of the result's fields among it.
* `PartsTyped`, `BufferAgrees`, `BufferIsFifo`, `SilenceIsTold`, `EdgeAndLevelAgree`: types of all parts, and the theorems of
  `OfflineBufferProofs` and `CanManagerProofs`, in `Parts`.

What the proofs changed in the models: a CASE of `E22Boot` whose guards could both hold, which leaves the value open
and which TLC resolves by order, is now ordered by IF; `BootAssumption` says that a wrong register
block is none of the marks for an unreadable one; `UplinkFrame` and `BmsAlgo` name the bounds of their integer types, and `UplinkFrame` has
one record for the fields of each frame; `DriverCommands` and `Startup` assume of their constants what `VcuLogic` assumes of them.

Only model-checked: all liveness, with the fairness and the ENABLED it rests on, which are beyond the prover: `EStopTakesEffect`,
`QuietStopOpens`, `BacklogDrains`, `LiveFlows`, `BusComesBack`, `BmsPagePaints`, `FirstPressStops`, `BootEnds`, `EStopFromTheStart`. So is the MC
modules' choice of instances. That `UplinkRefinement` assumes a UART that takes what is written, and the contactor invariants an SPI bus
that does, are conditions of the properties themselves: the runs check them under the same.

## 5. Plan

Done: every component in the table above is modelled and checked, and every invariant that a run checks is proved. What is left:

1. `ServedInTime` asks for a queue longer than TLC finds necessary (`2 * Quiet + 1 < QueueCap`; with one fault a queue of 3 does, 2 does not).
2. `FirstPressStops` and `EStopTakesEffect` rest on bounded waits; as invariants on counters of cycles, in the form of
   `DangerIsBrief`, they could be proved and not only checked.
3. The byte budget of the HMI's pages counts objects; with their lengths, `BmsPagePaints` would give the number of ticks.

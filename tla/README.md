# Verification of the x86 power sequencer

TLA+ modules that model the sequencer (`src/`), TLC configurations that check
them on small instances, and TLAPS proofs of what holds for every
configuration. Paths in this file and in the comments of the modules are
relative to the repository.

## 1. The system

The program behaves like a CPLD. A configuration describes *logic units* that
are connected by *signals*; inputs set signals, units compute signals from
signals, outputs write signals to the hardware. One thread runs a boost asio
`io_context`; everything is a handler of it. The only other thread watches
sysfs files and posts handlers.

| Component | State | Operations | Talks to |
|---|---|---|---|
| Signal (`Signal.cpp`) | `active`, `dirty`, `lastLevelChangeTime`, `receivers` | `SetLevel`, `ClearDirty`, `UpdateReceivers` | its provider (`SetDirty`), its receivers (`Update`) |
| Signal provider (`SignalProvider.cpp`) | `dirtyA`, `dirtyB`, `dirtyAIsActive`, the dirty event | `SetDirty`, `ClearDirty`, `GetDirtySignalsAndClearList` | the state machine (`dirtyBitSignal`) |
| Logic unit (`Logic.cpp`) | `lastValue`, `lastValueValid`, `outQueue`, a timer | `Update`, `TimerHandler` | its inputs (`GetLevel`), its signal (`SetLevel`) |
| Logic input (`LogicInput.cpp`) | `level`, a timer | `GetLevel`, `Update`, timer handler | its signal, its unit (`Update`) |
| State machine (`StateMachine.cpp`) | the evaluation in progress | `EvaluateState`, `OnDirtySet`, `Run`, `ApplyOutputSignalLevel` | provider, signals, outputs |
| Outputs (`GpioOutput.cpp`, `NullOutput.cpp`) | `newLevel`, `active` | `Update`, `Apply` | their signal, a GPIO line |
| Inputs (`GpioInput.cpp`, `NullInput.cpp`) | the event wait, the kernel's queue of edges | the posted first read, `OnEvent`, `SetLevel` | a GPIO line, their signal |
| ACPI states (`ACPIStates.cpp`, `Dbus.cpp`) | two request signals, the D-Bus properties, `powerCycleTimer` | the requested transitions, `Update`, timer handler | four observed signals, D-Bus |
| Regulators (`VoltageRegulator.cpp`) | `stateShadow`, `statusShadow`, `eventsShadow`, `newLevel` | `Update`, `Apply`, three notification handlers | sysfs, three signals |
| Sysfs watcher (`SysFsWatcher.cpp`) | registered files, a thread, a control pipe | `Register`, `Unregister`, `Start`, `Stop`, `Main` | sysfs, the `io_context` |
| Configuration (`Config.cpp`) | the `Config` being merged | `LoadConfig`, the YAML decoders | files |
| Start-up (`Main.cpp`) | what has been constructed | the constructors, `Validate`, `Run` | everything |
| Logging | none | - | - |

What is hard here, and what makes each part correct:

* **Changes during an evaluation.** `EvaluateState` walks a vector of changed
  signals and calls receivers that change signals of the same provider. No
  change may be lost, none may be recorded twice, the vector being walked must
  not move, and there must always be a handler that picks up what was recorded.
* **Half-seen changes.** Units are updated one at a time, stop reading at the
  first input that decides, and cache the levels of inputs that are not stable.
  Whatever the order, no unit may keep an old value, and the pins may change
  only when everything has been updated.
* **Timers.** A delayed change, or a stability timer, fires between evaluations
  while inputs change and newer results queue up. Ages and due times are read from
  `steady_clock`, the timers run on the wall clock. A level must arrive in
  bounded time however late the handlers are, and not before its delay.
* **The first level.** A GPIO input is told of edges before it has read the level of
  its line, so a level newer than the edges may be read before they are handled.
* **Giving up.** A loop that oscillates ends an evaluation after 10000 passes.
* **The power cycle.** A timer, its cancellation, its completion handler, the
  observed level and further requests race with each other.
* **Start-up.** A configuration is spread over files read in any order; lines and
  regulators may be missing or taken; signals are created, recorded and set before
  there is anyone to tell. The running system relies on what this leaves.
* **The second thread.** It is stopped and started again for each file that is
  registered, while files change; it shares the map of files without a lock;
  the handlers it posts carry data that may be old when they run, and the data of
  files that belong together arrives in separate handlers. `Apply` decides by
  what these handlers left.

`PROJECT.json` lists each of these hazards at its line.

## 2. Plan

In this order, most important behaviour first. Items 1 to 10 are done.

1. `SignalProvider`: signals and dirty vectors; abstract specification
   `ChangeSet`.
2. `Logic`: gates, delayed changes, debounced inputs.
3. `StateMachine`: composition with `EvaluateState` and the outputs;
   `MCNetwork` and `MCRing` instantiate it.
4. `LogicProofs`, `StateMachineProofs`: the inductive invariant for every
   network.
5. `ACPIStates` and `ACPIStatesProofs`.
6. `SysFsWatcher`: the control pipe protocol of `Start` and `Stop`, and what
   happens to notifications meanwhile. `VoltageRegulator`: the decoding against
   the relation that `doc/IO.md` gives for the three signals, the shadows and
   `Apply` against the real state of the regulator, handlers that arrive late.
   Both with proofs; the regulator implements the watcher with any client.
7. `TimedSignal`, `GpioInput`, `DelayedUnit` and their composition `PinPath`: one
   level from a line to a pin on a discrete clock.
8. `PinPathProofs`: the line is shown, the response is bounded, delays are kept,
   low pulses are not shortened.
9. `Startup`: from the files to the first handler.
10. `StartupProofs`, and `OffIsApplied` for every regulator that behaves. With
    these every safety property of a passing run is a theorem.
11. Left: what the clock adds to a network of units, in place of the one unit of
    `PinPath`.

## 3. Modules

| Module | Models |
|---|---|
| `ChangeSet` | the promise of the provider: a set of changed signals that is taken at once |
| `SignalProvider` | `Signal.cpp`, `SignalProvider.cpp` |
| `Logic` | `Logic.cpp`, `LogicInput.cpp`; extends `SignalProvider` |
| `StateMachine` | `StateMachine.cpp`, `GpioOutput.cpp`, `NullOutput.cpp`, the inputs; extends `Logic` |
| `LogicProofs`, `StateMachineProofs` | theorems |
| `MCNetwork`, `MCRing` | networks for TLC |
| `ACPIStates` | `ACPIStates.cpp` and its use of `Dbus.cpp` |
| `ACPIStatesProofs` | theorems |
| `SysFsWatcher` | `SysFsWatcher.cpp`, both threads, and the kernel's side of a file |
| `VoltageRegulator` | `VoltageRegulator.cpp` and the regulator behind it; extends `SysFsWatcher` |
| `SysFsWatcherProofs`, `VoltageRegulatorProofs` | theorems |
| `MCRegulator` | kinds of regulators for TLC |
| `TimedSignal` | a signal and the time since it changed |
| `GpioInput` | `GpioInput.cpp` and the kernel's queue of edges; extends `TimedSignal` |
| `DelayedUnit` | `Logic.cpp` and `LogicInput.cpp` in time, for an AND gate; extends `TimedSignal` |
| `PinPath` | a GPIO input, a unit, an output and the event loop in time; extends `GpioInput` and `DelayedUnit` |
| `PinPathProofs` | theorems |
| `MCPinPath` | constants for TLC |
| `Startup` | `Main.cpp`, `Config.cpp` and the constructors |
| `StartupProofs` | theorems |
| `MCStartup` | configurations for TLC |

### From code to model

*Signals.* `active`, `dirty`, `dirtyA`, `dirtyB` and `dirtyAIsActive` are the
fields of those names. `posted` counts the `EvaluateState` handlers in the
`io_context`. An operation of the provider is one step, since all calls come
from the one thread. `Signal::lock` is therefore not modelled.

*Units.* A unit is a record of constants (its two input vectors, the flags of
`ConfigLogic`, its signal). `Reads` is the set of inputs the short-circuiting
loops look at, and only those are sampled, or have their timers armed. `Result`
is the value of the gates. `Update` is the whole of `Logic::Update` with every
`GetLevel` it makes. `PushBack` has the overflow rule of
`boost::circular_buffer`.

*Time.* `settled` is the set of debounced inputs whose signal is at least as old
as the stability time; `TimePasses` adds to it, any change of the signal removes
from it. A pending timer may fire at any moment. This allows every behaviour the
clock allows and more, so the safety results carry over. The value of a
debounced `level` before the first sample is whatever the memory held, and
so is `newLevel` of an output: both are arbitrary in `Init`.

`PinPath` has the clock. One unit is enough for what the clock adds: the AND gate
over a debounced input whose output is delayed, with the same signal undebounced
as a second input when `Raw` is set. `age`, and the `due` of a queued change, are
times relative to the present; a timer is the time left, or gone. `Rearm` keeps a
timer whose handler is already on its way, since `expires_from_now` cannot cancel
it. `Tick` lets time pass unless the loop has had work for `Lag` ticks without a
rest, so a handler is late by at most `Lag`, and any number of handlers run in a
tick, in any order. `SetClock` moves both timers and nothing else. `quiet`, `sinceOut`
and `busy` measure; no handler reads them. A change that ends an evaluation in
`dirty` is not possible here: the unit has no receiver but the output, so
`Evaluate` is one step with the pin written at its end.

*GPIO.* `events` is the kernel's queue, which drops edges when it is full
(`dropped`). The constructor has armed the wait and posted the read of the level;
`InitialRead` and `OnEvent` run in any order. `unseen` counts the changes of the
line less those of the signal.

*Start-up.* A YAML map is a function; the decoders say which are accepted. `calls`
is what the running constructor has still to do, so that what it calls is one step
each and may throw. `stage` is the section being constructed. `Troubles` says which
hardware is missing and which lines are in use. Strings, names of states and of
files, flags that only other modules look at, and the command line are left out.

*Evaluation.* `EvaluateState` takes the list; `NextSignal`, `UpdateLogic` and
`UpdateOutput` are one call of `Update` each; `NextPass` and `Finish` are the
end of the loop body with the condition that follows. While `evaluating` no
other handler runs, but time passes. Between handlers any one that is ready may
run: asio serves its queue in order, the model does not rely on it. A handler
that sets several signals is several `SetInput` steps. `failed` is a history
variable: the message at `StateMachine.cpp:137` was logged.

*ACPI.* One action per requested transition, as the handler runs it, `TimerExpires`
and the two branches of the completion handler (`GivesUp`, `TurnsOn`).
`Notify` is the call of `Update` an evaluation makes for a changed signal.
`Observe` is the configuration's logic and the platform behind it: it changes
one signal at a time in any way, except that with `Unasked = FALSE` it does not
leave G3 while the chassis is not requested. `wanted` is a history variable. Where a
request calls both `RequestHost` and `RequestChassis`, the `Update` of the second call
overrides that of the first, and both are one step.
ACPIStates is not a receiver in `StateMachine`: its `Update` touches no signal.

*Watcher.* `main` and `request` say where the main thread is in `Register` or
`Unregister`; each place at which it blocks (`join`, the read of the status
pipe) ends a step, so that the thread runs in between. `thread` is where the
watcher thread is in `Main`: entering descriptors with their dummy reads, one at
a time; polling; reading the reported files, one at a time; ended. `events` is
the map, `watched` the `pollfd` array without the control pipe, `stopByte` the
byte in it. `posted` is the `io_context` queue, in order, with the data of each
handler. The kernel's part is external: `Change` notifies an open descriptor,
`poll` reports it until it is read from its start. A dummy read starts where the
read before ended; so only that of a new descriptor reads anything, which is
`unread`. `base` is a history variable: what a file held after the latest try to read it
from its start. `Tails` says whether the uninitialised end of
`SysFsEvent::data` may be seen as part of the data; `Fails` lists the system calls
that may fail. The leaked descriptors after a failing `pipe` have no effect here.

*Regulator.* One step of the constructor each for finding the directories, each
read, and each `Register`; they run before the first handler (`ctor`). `Handler`
is any of the three registered lambdas. The handlers of the `io_context` are run
in order; the evaluation a changed signal queues runs after the `ahead` ones
posted before, and is one step, `Evaluate`, with `Update` and `Apply` of this
regulator at its end. The logic that drives `_On` is arbitrary, and other
signals may queue an evaluation (`OtherSignal`). `consumer` is what was written
to the consumer's state file. The hardware follows it at any later time, or does
what it likes when `Independent` is true; `StatusIn` says which statuses go with a
state. Status words but off and error are one, event numbers are two classes.
Of the regulators that share a watcher, one is modelled: the others would add
files and handlers of their own.

Operators described as mutants beside a definition are plausible mistakes in
the code it models. They are used by no specification; substituting one for the
definition must make the property named in `PROJECT.json` fail.

## 4. Runs

| Run | Shows |
|---|---|
| `network` | a set/reset latch with a debounced input and a delayed unit behind it, in the manner of `config/genesis3/pch.yaml`: safety, and `ComesToRest` |
| `ring` (violated) | the evaluation is *not* tried again after the timeout |
| `pin_path` | edges, late handlers, an overflowing queue and a clock that is set: the pin follows the line in time |
| `unstable` (violated) | a unit goes high on an input that is not stable |
| `startup` | configurations complete or not, in one or two files, with hardware missing or taken |
| `acpi` | the D-Bus mirror and the timer agree with the observed level; a power cycle that reaches G3 in time turns the chassis on unless Off is requested after it |
| `acpi_off` (violated) | a power cycle turns the chassis on after Off was requested |
| `watcher` | registering in any order while files change and `open`, `pipe`, `poll` and `read` may fail: no race, no change swallowed, calls return |
| `regulator` | a regulator that does what it is told: shadows become current, every change arrives unless `poll` fails or a file does not open, off is applied |
| `regulator_on` (violated) | a regulator that is to be on may stay off |
| `regulator_gap` (violated) | a change between the first reads and the registration is not seen |
| `regulator_tail` (violated) | the memory behind the data is decoded with it |

The properties:

* `DirtyTracked` - dirty bit and collecting vector agree, no duplicates.
* `IterationStable` - the vector being walked does not change.
* `NoLostWakeup` - recorded changes have a handler queued.
* `LastValueDelivered` - the last computed value is driven or last in the queue,
  overflow included.
* `NoMissedUpdate` - whoever is behind is about to be updated.
* `BetweenEvaluations` - no evaluation leaves receivers over or outputs
  unapplied, and an uninitialised `newLevel` is never written.
* `QuiescentConsistent` - at rest, every unit and pin has the value of the gates
  over the present signals.
* `NoGlitch` - pins change together and only when no unit is behind.
* `ImplementsChangeSet` - refinement of `ChangeSet`, with the collecting vector
  as the set of changes and the other one as the set taken last.
* `ComesToRest` - once inputs stop, the network becomes consistent and stays so.
* `ShowsLine`, `NeverInvents` - an input that has handled its edges has the level of
  the line, and never changed more often than the line.
* `BoundedResponse` - a line that kept its level for `Response` shows on the pin:
  `Stable + Delay`, `Lag` for each of the edge, the timer of the input and the timer
  of the delayed change, and one tick since a level changes within a tick.
* `DelayKept` - a change leaves the queue only when it is due, although
  `TimerHandler` does not look at the time.
* `LowPulseHolds` - debounce and delay do not shorten a low pulse of the output below
  the stability time less `Lag`.
* `EventuallyShown` - a line that stops changing shows on the pin in the end, also
  when the clock is set.
* `AllRecorded` - every signal is recorded once, when it is created.
* `StartsAsAssumed` - what `Init` of `StateMachine` and `PinPath` assume: the queue
  holds the first updates and reads and the first evaluation behind them, the dirty
  event was not raised, and only given levels are high.
* `VerdictMatches` - the program runs exactly if the files are well formed, connect
  every signal at both ends and find their hardware; it is stated over the set of
  files, and so says that their order does not matter.
* `MirrorCurrent` - D-Bus shows the observed level once its changes are evaluated.
* `NeverWaitsInG3`, `PowerCycleCompletes` - reaching G3 ends the wait of a power cycle
  and turns the chassis on again, unless Off is requested after it. What should become
  of the cycle then is the matter of `OffStaysOff`, which the code violates (finding 2);
  the two can hold together: they do when `ChassisOff` ends the cycle.
* `NoRace` - the map of files changes only while there is no watcher thread.
* `NothingSwallowed` - a registered file holds what was read last, and posted
  unless that read was the first or failed, or is reported by the next poll,
  across every stop and restart.
* `CallReturns` - `Register` and `Unregister` return, though the main thread
  waits for a thread that always has files to read: a thread that leaves the stop byte
  for later (`PollFilesFirst`) reads forever.
* `PowerGoodDefined` - `PowerGood = Enabled && !Fault`.
* `ShadowsFollow`, `ChangesArrive` - a shadow is old only while a handler for
  its file is on the way; in the end it is not.
* `OffIsApplied` - at rest the regulator is off when `_On` is low, though `Apply`
  compared with an old shadow. This needs that the state and the status
  are watched, and that they tell enabled and disabled apart: it does not hold with `StatusIn <- Slow`, see section 6.

### Bounds

* `Timeout` stands for the 10000 passes. In `MCNetwork` it is 5, more than any
  evaluation there needs, so that giving up is not what makes a property true; in
  `MCRing` it is 3 and is always used up.
* `MaxPosted` limits input changes to states with fewer queued evaluations. With 1,
  inputs change before, between and after evaluations, while first updates and timers
  are pending.
* `QueueCapacity` stands for 100. With 1 in `MCNetwork` the queue of the delayed unit
  overflows at its second change.
* `MCNetwork` has a signal that reaches the delayed unit directly, and debounced
  through the latch, and a loop that may need several passes: each ordering hazard listed above
  occurs. Longer networks add repetitions; the theorems cover all of them.
* `pin_path` has `Stable = 2`, `Delay = 2`, `Lag = 1`, a queue of 2 changes, a kernel
  that queues 2 edges, and a clock that is set forward or back by one tick: edges are
  dropped, the queue overflows, and changes overlap the delay. The theorems cover all
  values of these.
* `startup` has nine pieces of configuration, any of which may be left out, in a
  first or a second file, and four kinds of missing or taken hardware. Among them
  are a unit that does not decode, a line used twice, an item with two units (only
  the first one is decoded) and an immutable signal that an input drives as well.
* `MaxHandlers` limits new power cycles: with 2, a cycle is cancelled by another
  one while the handler of a third is queued.
* `acpi` has a platform that leaves G3 only when asked to, which
  `PowerCycleCompletes` needs; the safety properties are proved for every platform.
* `MaxPending` limits changes of files to states with fewer notified files and
  queued handlers. `watcher` needs 2 to have one file read and another notified
  when the stop byte arrives; `regulator` has 2, so that a handler waits for a
  second file, or again for the same one, when an evaluation is queued; the runs
  that show what the documents do not have 3. That unruly hardware
  and data without an end do not break `PowerGoodDefined` is proved. The bound does not
  stop files from changing forever: a read that fails posts nothing, so changes and
  failing reads may follow each other without end while a call waits. Contents of the files in `watcher` are
  two values, which is enough to see a change that is missed.
* `CHECK_DEADLOCK FALSE` in these runs: the constructor may throw, after which
  the hardware alone goes on until `MaxPending` stops it, and a watcher without
  a thread leaves nothing to do.

### Fairness

Handlers that are queued, and timers that have expired, run eventually: asio
serves its queue in order, so a handler cannot be overtaken forever
(`SF` where another handler, or an evaluation, can disable the action for a
while; `WF` where it stays enabled). A running `EvaluateState` continues, time
passes, the timer of a power cycle expires. In `PinPath` the loop runs a handler,
whichever it likes, while one is ready, and time passes; an edge or an error is not
obliged. Nothing obliges an input, a request
or the platform to do anything. In the watcher and the regulator both threads
are scheduled, so the main thread's call and the watcher thread continue when
they can (`WF`), and the handlers at the head of the queue run; no hardware has to
change and no system call has to fail or succeed; `ChangesArrive` has as
exceptions a thread that ended because `poll` failed, and a watcher left without a
thread because a file could not be opened.

## 5. Proofs

`StateMachineProofs` proves, for every network that meets the assumptions below,
every queue capacity and every timeout: `TypeOK`, `DirtyTracked`, `NoLostWakeup`,
`LastValueDelivered`, `NoMissedUpdate`, `BetweenEvaluations`,
`QuiescentConsistent`, `IterationStable`, `NoGlitch` and `ImplementsChangeSet`.
`PinPathProofs` proves `TypeOK`, `ShowsLine`, `NeverInvents`, `BoundedResponse`,
`DelayKept` and `LowPulseHolds` for every stability time, delay, lateness, capacity
and clock. `StartupProofs` proves `TypeOK`, `AllRecorded`, `StartsAsAssumed` and
`VerdictMatches` for every set of files, whatever they contain, and any missing or
taken hardware. `ACPIStatesProofs` proves `TypeOK`, `MirrorCurrent` and
`NeverWaitsInG3` for every platform. `SysFsWatcherProofs` proves
`WatcherTypeOK`, `NothingSwallowed` and `NoRace` for any files, any client and any
failures, `VoltageRegulatorProofs` that the regulator implements the watcher
(`ImplementsWatcher`), its `TypeOK`, `PowerGoodDefined` and `ShadowsFollow` for
any hardware, and `OffIsApplied` for hardware that meets `Behaves`.

*Assumptions.* `CreatedAssumption`, `LogicAssumption`, `NetworkAssumption` and
`ReceiversAssumption` say what the constructors build. `OwnInputsAssumption`:
a unit owns its inputs. `SingleDriverAssumption`: no signal has two units; the
code does not check it (`SignalProvider::Validate` only asks for one driver),
the shipped configurations meet it. `ACPIAssumption` is about the bounds,
`WatcherAssumption` and `RegulatorAssumption` say what the files are. The
assumptions of `PinPath` are the ranges of its constants. Those of `Startup` say
what YAML is: a node is a map or a sequence, the names in it are names
(`TreesAssumption`, where `ImmutableOK` has accepted a level it is one), and that the
constructors, the fixed one of `ACPIStates` included, call with names
(`NamesAssumption`, `CallsAssumption`). `Name` stands for all strings.

*Argument.* `QuiescentConsistent` is not inductive: at rest nothing says how the
network got there. The inductive invariant `IInv` says of each unit at each
moment why it will not stay behind (`NoMissedUpdate`): it is current, or its
first update is queued, or one of its inputs is *due*, because its signal is
recorded, or waits in the list being walked, or because the input is among the
receivers being updated. A unit is current with regard to what it must believe
(`Seen`): the cached level of an input whose timer runs, the signal otherwise.
The step that needs thought is `Update`: it samples only the inputs its gates
read before they know the answer, and the others keep old levels.
`ReadsDetermineResult` shows that levels which agree on the inputs read give
the same result, so old levels behind a short circuit do no harm.
`DueKept`/`DueTaken` follow a receiver through recording, taking the list and
walking it. `DirtyTracked` and `NoLostWakeup` complete the way from a recorded
change to the handler, `LastValueDelivered` the way from a computed value to the
signal, `BetweenEvaluations` the way to the pins. All conjuncts of `IInv` are
also invariants of the run `network`.

*The watcher.* `NoRace` and the type of `watched` rest on a handshake: in each
state of the main thread only some states of the watcher thread are possible
(it has ended or there is none while the map changes, it has a stop byte or has
ended while the main thread joins). With it, `NothingSwallowed` is inductive: only a
read from the start clears a notification, such a read of a descriptor that was
read before comes with a handler or fails, and what the file holds then becomes
`base`.

*The regulator.* Every step is one of the watcher or leaves it alone
(`WatcherSimulates`), so the watcher's invariants carry over. `ShadowsFollow` then
needs that the *last* queued handler of a file carries `base`, and that the shadow
shows it when none is queued (`LastReadShows`), which survives because handlers
run in order. Together with `NothingSwallowed`, the shadow shows what the file
holds unless it is notified or a handler is queued.

*The pin path.* The inductive invariant has five parts. `GpioInv`: the edges in the
queue alternate and end with the level of the line, and each is a change that is
still unseen. `QueueInv`: changes are queued in the order they are due in, the timer
runs exactly while there are some and shows when the first one is due, and the value
computed last is the last one queued or is driven. `Served`: a unit that has not
computed the level of its signal has a timer that is armed for the rest of the
stability time, or waits for an evaluation. `OnTime` bounds how long ago the line
can have changed by the place its level has got to: an edge not handled, an input
not stable, a unit not updated, a change not due, a change that is due, a pin not
written. In the places where the loop has work the bound contains `busy`, so `Tick`
cannot break it; in the others it grows with `age` or as `due` shrinks.
`ResponseTheorem` then rules out one place after the other.

`LowPulseHolds` needs a further invariant, `PulseInv`, since a rise of the output
depends on when its fall was computed: a rise is computed from an input that has been
high for the stability time, and the fall before it when the input was low. So the
rise comes that much later; but each of the two may be queued, may be due, or the
fall may have been applied, and the queue passes them on at different times.
`RiseFollows`, `RisesApart` and `NextRiseHolds` state the distance in each of these
cases, again with `busy` where a change is due and waits for its handler. It holds
as long as no change was dropped and the clock was not set, and with debounced inputs
only: these are the exceptions the property names, and the run `unstable` shows the
third one.

*The regulator that is off.* `OffIsApplied` has hypotheses, named `Behaves`: the
regulator changes its state only when told to, an enabled one never shows "off" and
a disabled one nothing else, and reads do not fail. Each is needed: TLC finds
`OffIsApplied` violated without any one of them (the slow regulator of section 6 is
such a case, a change that a failed read loses another). `poll`, `open` and `pipe` may
fail, and the memory behind what was read may be anything (`Tails`): such data decodes
to neither "disabled" nor "off". The run `regulator` is an instance that meets the
hypotheses. The invariant `OffInv` goes through the life of the regulator: while
the constructor runs, what it has read is so (`ReadIsCurrent`); a file that was
opened and changes reports it, for the first time too (`FirstArrives`); afterwards the
theorems about the watcher hold (`ShadowsFollow`). An evaluation that wrote nothing
saw a shadow that says disabled, and then `_Enabled` is low until a handler raises it,
which queues the next evaluation (`LowIsApplied`).

*Start-up.* The program keeps no record of which node of which file it has come to:
it merges the nodes of all files, takes them one by one, and forgets them. The
invariant says that such a record exists: `q`, the places (file, section, position)
whose nodes wait, in the order they wait in, `done`, the places whose constructor was
entered, and `cur`, the one that runs. With these, each place of a file that was read
waits exactly once or is done (`WaitInv`); each call of a constructor that was entered
had its effect or is still to be made (`EffectInv`); one handler is posted for each
place that posts one (`CountInv`); a line is held for one place (`HeldInv`); an
immutable signal has its level, unless something else sets it (`LevelInv`). `BoundInv`
says the opposite of `EffectInv`: nothing happens that the files do not name. When all
sections are done the two meet, and what was constructed is what is in the files
(`BuiltFacts`), hence the verdict. Before that, facts about the operators alone
are proved of each constructor: which calls it makes, and that a signal is created
before it is set (`Ordered`), which is what `AllRecorded` rests on.

*Only model-checked.* The liveness properties `ComesToRest`, `EventuallyShown`,
`PowerCycleCompletes`, `CallReturns` and `ChangesArrive`, which rest on fairness and so
on `ENABLED`, out of the prover's reach; and the violated ones, which are
counterexamples. `failed` limits the properties about stability; the run `ring` shows
what happens without it.

## 6. Findings

Shown by runs:

1. *"trying again..." does not try again* (`StateMachine.cpp:131-138`): the list
   fetched last is dropped, the posted evaluation finds none.
2. *A power cycle overrides a later Off* (`ACPIStates.cpp:204`).
3. *A regulator can stay disabled although `_On` is high*
   (`VoltageRegulator.cpp:24`): `Apply` skips the write because of an old shadow;
   the handler that corrects the shadow changes no signal if the status was
   handled before it, so nothing is evaluated again.
4. *A change during construction is lost* (`VoltageRegulator.cpp:274`): between
   the first reads and the watcher's dummy read of the new descriptor.
5. *An unstable input is not 0* (`LogicInput.cpp:45`): it answers the level sampled
   last. A signal that dips for less than the stability time turns a unit that also
   has it undebounced low and high again at once, unlike what
   `config/genesis3/pch.yaml:8` says.
6. *Data is not terminated* (`SysFsWatcher.cpp:168`): `SysFsEvent::data` is
   uninitialised memory up to the bytes read, and is used as a C string.

Met while modelling and visible in the models, without a run of their own:

* Outputs are applied after the timeout in an unstable state
  (`StateMachine.cpp:145`), against `doc/StateMachine.md:30`.
* "within timeout" is logged without a timeout when a second power cycle is
  requested (`ACPIStates.cpp:206`).
* A regulator that shows the status off while enabled can stay enabled although
  `_On` is low (`VoltageRegulator.cpp:63`): `Apply` skips the write as in 3, and
  the change that arrives later moves no signal. No run keeps it; TLC shows it with
  `StatusIn <- Slow` in the configuration of `regulator`.
* Turning off leaves `_Fault` (`VoltageRegulator.cpp:56`), against
  `doc/IO.md:52`.
* Events are seen again (`VoltageRegulator.cpp:51`), against the comment above
  that line: the shadow keeps them.
* A failure event of a regulator with a good status does not show
  (`VoltageRegulator.cpp:81`): the rest of the same call sets the signals back.
* A file that cannot be opened stops the watcher for all files registered before
  (`SysFsWatcher.cpp:36`).
* A delayed change can be applied early: when the queue overflows, the timer that
  runs belongs to a change that was dropped (`Logic.cpp:101`), against "a fixed delay
  to every level change" (`Config.hpp:49`).
* Setting the wall clock shortens or lengthens stability times and delays
  (`LogicInput.hpp:36`, `Logic.hpp:66`).
* A GPIO line that is in use, or named twice, aborts the program without a report: a
  string is thrown (`GpioInput.cpp:112`, `GpioOutput.cpp:92`).
* Of two units in one list item of `power_sequencer` the second is ignored
  (`Config.cpp:309`).
* The timer lambda in `Logic::Update` captures a local variable by reference,
  without effect because `TimerHandler` does not use the argument. `Validate`
  accepts two drivers.

## 7. Not modelled

In the regulators, the search of the directories is one choice between found
and not found. Of several signals and units in time one is modelled: `StateMachine`
has them all, without the clock. The command line, registration on the bus,
logging and the signal dump: no behaviour over time. What the YAML library itself
accepts, and the values it converts, are taken as given.

`Startup` has neither the handlers the watcher posts while later constructors run nor a
regulator whose `events` file cannot be read; `VoltageRegulator` has both. In
`SysFsWatcher` no file is registered twice, which `Register` does not check: two
regulators of one name would do so. When `poll` has failed, the thread has closed its
end of the control pipe and the next `Stop` writes to it. The model takes that write to
return: SIGPIPE is ignored, as systemd does for a service that does not ask otherwise.

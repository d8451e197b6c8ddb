# Verification of the Exynos HALs

TLA+ models of the services in this repository that carry logic of their own, TLC runs that check
them on small instances, and TLAPS proofs for every instance.

The repository holds some twenty independent hardware abstraction layers and libraries for
Samsung's Exynos platform. With one exception (the audio HAL calls the sound trigger HAL) they do
not call each other; each one sits between an Android framework service and a kernel driver or
firmware. What is verified here are the ones with concurrency,
failure handling or state that outlives a call:

| Part | Source | Modules | Status |
|---|---|---|---|
| Boot control HAL 1.2 | `boot/` | `LibExbc`, `SlotStore`, `BootControl`, `BootControlProofs` | modelled, proved |
| USB: role switching | `usb/Usb.cpp` | `UsbRoleSwitch`, `UsbRoleSwitchProofs` | modelled, proved |
| USB: worker thread | `usb/Usb.cpp` | `UsbWorker`, `UsbWorkerProofs` | modelled, proved |
| USB gadget HAL | `usb/UsbGadget.cpp`, `usb/lib` | `UsbGadget`, `UsbGadgetProofs` | modelled, proved |
| Thermal daemon: control loop | `exynos-thermal/` | `ThermalControl`, `ThermalControlProofs` | one scenario; proved |
| Thermal daemon: scenario changes | `exynos-thermal/thermal-thread.cpp`, `thermal-main.cpp` | `ThermalScenario`, `ThermalScenarioProofs` | modelled, proved |
| Sound trigger HAL | `libaudio/sthal` | `SoundTrigger`, `SoundTriggerProofs` | modelled, proved |
| Audio HAL: playback streams | `libaudio/audiohal/audio_hw.c` | `AudioPlayback`, `AudioPlaybackProofs` | playback and its route; proved |

"Proved" means the safety properties the passing runs check, for every value of the constants, with
one exception (`RightMic` of the sound trigger HAL); liveness is checked by TLC.

`MC*.tla` and `*.cfg` instantiate the modules for TLC. `PROJECT.json` maps every definition to its
lines of source and lists runs, mutants, hazards, findings and theorems.

## Inventory

**Boot control** (`boot/v1/1.2`, `lib_exbc`, `exynos_message`). *State*: the slot table `si` in
memory (per slot: active, bootable, successful, retry count; a merge status and an OTA flag), and a
32-byte block on the `slotinfo` partition. *Operations*: mark successful, set active, set
unbootable, set merge status, and four queries. Every call but one loads the block, works on it and
saves it if changed. *Interaction*: the bootloader reads the block at the next boot; the update
engine calls the HAL. *Hard*: a transfer may fail at either end, the failing path loses the
descriptor, the written block stays in the page cache, and power may go at any time. *Correct when*
the block always names one bootable slot to boot, memory and block agree whenever a caller may rely
on it, and an update happens whole or not at all.

**USB role switching** (`usb/Usb.cpp`). *State*: three mutexes, a condition variable, `mPartnerUp`,
and sysfs attributes of the port. *Operations*: `switchRole` and `queryPortStatus` on RPC threads;
the worker thread receives uevents, signals a waiting switch, reports the port status and puts an
idle port back to dual role. *Hard*: the partner's uevent against the wait and its timeout, the
worker against a switch in progress, two reporters, three locks. *Correct when* no announcement is
lost, nobody disturbs a switch, a failed switch is undone, the last report is current, and every
switch is answered.

**USB worker** (`usb/Usb.cpp`). *State*: the callback, the thread id, the process-wide
`destroyThread`. *Operations*: `setCallback`, the signal handler, the loop of `work()`. *Hard*: a
signal against `epoll_wait`, a join against the lock the worker needs. *Correct when* there is at most
one worker, a stale flag never stops a new one, and `setCallback` returns.

**USB gadget** (`usb/UsbGadget.cpp`, `usb/lib/MonitorFfs.cpp`, `UsbGadgetUtils.cpp`). *State*: the
functions asked for, the links in configfs, the UDC binding, endpoints, inotify watches, the monitor
thread and its static `gadgetPullup`. *Operations*: `setCurrentUsbFunctions`, `reset`, the monitor
loop. *Hard*: `reset()` takes no lock; a monitor of the previous request is still running; daemons die
and restart; a request fails half way. *Correct when* success means the gadget was bound with
exactly these functions, NONE leaves nothing behind, the monitor misses no endpoint and no request
hangs.

**Thermal daemon** (`exynos-thermal`). *State*: a temperature per sensor, a flag and a status per
algorithm, a count of active algorithms per thread, the level each algorithm asks of each device, and
the level applied. *Operations*: a sensor thread samples and activates; algorithm threads decide
(step by step, "SS", or by thresholds, "monitor"), request, release and apply; a scenario thread
exchanges the whole configuration. *Hard*: threads share devices between request and application; flag
and counter change in separate steps of different threads; the condition variable is used without
the lock that guards its condition; an unsigned comparison. *Correct when* no request is lost, limits
follow the temperature and are released when it is cold, and nobody sleeps while something is active.

**Scenario changes of the thermal daemon** (`thermal-thread.cpp`, `thermal-main.cpp`). *State*: the
scenario in use and the one wanted, the counter `sensorThreadsWaitCnt`, per sensor thread
`isScenChanging` and `needWait`, per sensor the old and the new scenario and the algorithms under
plain and `OLDSCEN_` names. *Operations*: the scenario thread polls two files, changes the scenario in
three phases with every sensor thread, and for a new configuration changes twice and then destroys
the old algorithms. *Hard*: the counter and both flags are shared without a common lock, and
algorithms are destroyed that threads of their own use. *Correct when* the sensor threads change
together, every change ends, and only unused algorithms are destroyed.

**Sound trigger HAL** (`libaudio/sthal`). *State*: per model a handle, a callback, an execution
state and a noted stop; the VTS processor, its microphone, two PCM devices, three mutexes, and a
callback thread with two sockets. *Operations*: the framework loads, starts, stops and unloads
models; the audio HAL opens, reads and closes streams and recordings and announces headsets and
calls; the callback thread turns uevents into callbacks. *Hard*: callbacks are made under the lock the
framework's stop needs, so a stop may only be noted; the lock is given up while the thread is joined;
readers hold another lock. *Correct when* a stopped model is not called, nothing listens during a
call, the right microphone is on, no recording is closed under its reader and nobody waits in a
circle.

**Audio HAL** (`libaudio/audiohal`; `audiohal_comv1` is a later copy). *State*: per stream a status,
a proxy with its device and a lock; the playback and the capture route; call modes. *Operations*:
open, write, standby, set parameters and close of streams; pause, resume, drain and flush of the
compress offload stream, whose callback thread waits for the device. *Hard*: streams share one route and
look at each other's status without each other's lock; the callback thread and standby wait for each
other. *Correct when* no device is open on an unrouted path, status and device agree, and every
non-blocking write and drain is answered.

**Not modelled**: the rest of the audio HAL, the thermal HAL, the modem boot daemon, weaver and
gralloc are candidates (see the plan); the HDR, colour, conversion, SBWC, V4L2 and metadata libraries
are data computations with hardly any control; the StrongBox and TEE clients marshal requests to
firmware that is not in the repository (`tee/kinibi*` is third-party); codec registration, dumpstate
and abox keep no state. `PROJECT.json` gives the reason for each. Most of the repository's lines are of
these kinds.

## Plan

1. Boot control with its abstract store, checked and proved. *Done.*
2. USB: role switching, worker, gadget. *Done.*
3. Thermal control loop, checked and its safety proved. *Done.*
4. `ThermalScenario`: the handshake of `ScenarioThread` with the sensor threads. *Done.*
5. `SoundTrigger`: the whole of `libaudio/sthal`. *Done.*
6. `AudioPlayback`: playback streams, the offload callback thread and the shared route. *Done.*
7. Proofs: every invariant and action property of the passing runs as a theorem. *Done.*
8. Candidates after that: capture streams and call modes of the audio HAL, callbacks of the thermal
   HAL (`thermal/`), weaver's throttling list, the state loop of `cpboot_v3`, reference counts of
   gralloc buffers.

An abstract specification is worth stating where a component promises atomicity: `SlotStore` does so
for boot control. For the other parts the promise is a set of invariants.

## Boot control

`LibExbc` has the slot table and the operations of `lib_exbc.cpp` as operators on it. `BootControl`
adds the HAL: `si` and `inited` are the memory of `Exynos_BootControl`, `page` the block as `read()`
and `write()` see it, `medium` the block on flash, `leaked` the descriptors nobody closed. An update is
two steps, `BeginUpdate` (check the slot, `Load_Slot`) and `FinishUpdate` (change, `Save_Slot`), so
that a power cut or a restart may fall between. `TransferFails` is a failing open, seek, read or
write; the 32 bytes never span sectors, so a transfer fails whole. `Load_Slot` of a damaged block
resets the table and writes it back. `WriteBack`, `Reboot` (into either slot or
none, with the page cache kept or lost or the block damaged) and `ServiceRestart` are the environment.
The tries a bootloader takes from a slot are left out: the HAL writes `tries_remaining` and never
reads it.

`SlotStore` is the abstract specification: one table that is updated atomically by the operations of
`LibExbc` or reset, and a durable copy that a power cut falls back to. `ImplementsStore` is the
refinement, with the block's contents as the table.

* `boot_control` checks `TypeOK`, `SlotsBootable` (never two active slots, nor an active one that
  cannot be booted; one is active whenever one can be), `MemoryAgrees`, `OnlyFailuresLeak`,
  `ImplementsStore`, and `AnswersTrue`: a failed load can only turn TRUE into FALSE or a status into
  UNKNOWN, never the other way, and after a successful call every answer is the partition's. Two merge
  statuses tell "changed" from "unchanged"; the retry count has its real bound of 7; one descriptor is
  enough to reach the exhausted state; the slot queries, which treat the slots alike, are asked about
  slot 1, the one that a reset leaves inactive (`Asked`).

Proved for every set of merge statuses, retry bound, descriptor limit and set of slots asked about
(`BootControlProofs`): `TypeCorrect`, `AlwaysBootable`, `MemoryCorrect`, `LeakOnFailure`,
`AnswersCorrect` and `Refinement`. `SlotsBootable` alone is not inductive: `FinishUpdate` saves a change of `si`, so `si`
must be the contents of the block during a call. The invariant `IInv` is the conjunction of
`TypeOK`, `SlotsBootable`, `MemoryAgrees` and `MarksCurrent` (a mark-successful call under way is
about the current slot, which the abstract step needs). The lemmas on `LibExbc` show that each
operation maps good tables to good tables; `Encode` and `Decode` are inverse on them.
`AnswersCorrect` goes query by query: the slot and merge queries have loaded the block themselves
(`LoadedAnswer`), while `GetActiveBootSlot` answers from memory, so that it needs `MemoryAgrees`; every
other step leaves no answer to be wrong.

## USB

`UsbRoleSwitch` has one action per stretch of `switchRole`, `switchMode`, `queryPortStatus` and
`uevent_event` between two lock operations or blocking calls. `Timeout` may strike whenever a switch
waits and only moves the thread to "timedout": it must get the mutex back, as
`pthread_cond_timedwait` does. `mPartnerUp` starts with either value, because the constructor does
not set it. A mode the kernel refuses is noticed only if `fputs()` fails; a refusal at `fclose()` is not,
and the switch then waits with the port type unchanged (`Write`). `Attach` and `Detach` are the kernel's: a partner may come and go at any time, so also
right after a mode write, and each time a uevent is queued.

* `usb_role_switch`: two clients, the worker, one queued uevent, one spurious wakeup per wait.
  Two clients are what the service's thread pool has; a longer queue adds delay, not a new race.
  Checks `NoLostSignal`, `NobodyInterferes`, `FailedSwitchRestores`, `ReportsCurrent` and, under
  fairness, `SwitchEnds`. Fairness: every thread that can run runs, and a mutex released again and
  again is granted in the end (strong fairness of the steps that take one). No partner, uevent or
  call is promised.

The comment "There are no uevent signals which implies role swap timed out" (`Usb.cpp:167`) is not
quite true: the worker may announce the partner between the timeout and the reacquired lock; the flag
is not looked at and the switch is undone. The model takes these steps; what is checked is that such
a switch, like every failed one, is restored and answered.

`UsbWorker` is `setCallback`, the handler and `work()`, for three thread identities.

* `usb_worker` checks `OneWorker`, `NotBornDead` and `SetCallbackEnds`, the last for a port on
  which uevents keep arriving.

The premise is needed: SIGUSR1 between the test of `destroyThread` and `epoll_wait` interrupts
nothing, and without uevents the join would last for ever.

`UsbGadget` is `setCurrentUsbFunctions` with `tearDownGadget` and `setupFunctions`, one action per
configfs operation, beside the monitor thread and `reset()`. The kernel's part (when writing UDC
succeeds, when inotify raises an event) is marked external in the map.

* `usb_gadget`: functions `mtp`, `rndis`, `adb` (two with a daemon, one without; supported and
  unsupported combinations), with `reset()` interleaved. Checks `NoneIsOff`, `SuccessMeansBound`,
  `MonitorAwake`, `RequestEnds`. Inotify merges equal events, so one pending event stands for many. The
  stop of the monitor is strongly fair because `epoll_wait` returns both descriptors when both are
  ready.

Two behaviours of the code that no property forbids, and the model shows: a daemon that dies and
returns before the monitor handles the events leaves the gadget unbound, as the monitor sees the
endpoints there and `writeUdc` false; and a request that failed while linking leaves its endpoints in
`mEndpointList`, as `tearDownGadget()` clears it only when a monitor runs, so that the next request
waits for endpoints it did not ask for.

Proved, for every number of HAL threads, queue length and number of spurious wakeups
(`UsbRoleSwitchProofs`): `TypeCorrect`, `SignalsKept`, `FailureRestores`, `ReportIsCurrent` and
`SwitchUndisturbed`. All rest on `Owners`, which says at which places each thread holds each of the
three mutexes. From it follows that nobody else is between the same lock and unlock, hence that the
flag stays down from its reset to the wake-up (`FlagDown`), that a port which a failed switch has put
back stays there until the next mode switch (`Restored`), and that a status read but not yet
reported is current unless the worker is still to read it again (`Fresh`).

`UsbWorkerProofs`: `TypeCorrect`, `SingleWorker`, `FreshWorker`, for every set of thread identities.
Between two calls there is a worker exactly when there is a callback, it is the one in `mPoll`
(`OnlyPolled`, `NoCallbackNoWorker`, `CallbackHasThread`), and a signal is pending only for a worker
that a caller is joining (`SignalAwaited`).

`UsbGadgetProofs`: `TypeCorrect`, `NoneSwitchesOff`, `SuccessBinds`, `MonitorNotices`, for every subset
of the functions the gadget has. `MonitorLife` ties the monitor's thread to the request that started
it: the monitor is gone whenever functions are being set up, so that the pull-up a request waits for
is its own (`Announced`). What is linked always has a product id (`LinksSupported`), as parts of
supported combinations are supported (`SupportedParts`), which the pull-up by `reset()` half way
through a request needs.

## Thermal control loop

`ThermalControl` has a sensor thread (`spc`, `toCheck`, `activating`) and any number of algorithm
threads (`pc`, `toRun`, `cur`, `next`), each stepping through the algorithms of its sequence.
`Activate` and `CountActive` are the two steps of `Algo::activate()`, `Unflag` and `Uncount` of
`deactivate()`; `Top` and `Wait` are the unlocked test of `numActive` and the `cond.wait()` after it.
A decision reads the temperature and the status in one step and is carried out in the following
ones: `Release` (the requests of the old status), `Request` (those of the new one), `Apply`
(`statusApply()` for the devices of both), or `SwitchOff`, `Apply`, `Unflag`, `Uncount`. Each of
`Release`, `Request` and `Apply` covers the loop over an algorithm's devices in one step. Devices have
locks of their own and no state is shared between them, so per device the order of the calls of
different threads is the one the code allows. Sampling times are not modelled: any thread may go
next, which includes every schedule of the real timers.

`Level` reproduces the comparison of a negative `int` with an unsigned count. `dynamicConfParse()`
refuses an algorithm that lacks a property and takes every number as it is. Levels, floors, start
levels and ticks are therefore any integers here, also a monitor's `action_info` that lies beyond its
device's table (`TypeOK` says what follows from one). Four things the parser does not check are
assumed: points and thresholds are not negative (and a monitor's first threshold is above 0), thresholds rise, none is cleared above the point at
which it is set, and the lists of a monitor are of one length, without which the code indexes beyond
their ends. The shipped configuration satisfies all four; `CountsActive` would fail without the
third, as an algorithm could be switched off by the temperature that activates it.

* `thermal_control`: two SS algorithms on one device in one thread, and a monitor in another thread
  whose first status limits a second device and whose second status limits the shared one. One of the
  SS algorithms has `start_level` 0, as most of the shipped ones. Two readings make a degree, so that
  rounding happens; the temperatures 5, 7 and 11 lie below every clear point, between clear and
  trigger points, and at or above every threshold. Checks
  `DeviceFollowsRequests`, `LimitIsKept`, `InactiveReleases`, `MonitorBand` (hysteresis),
  `SSNeverBehind` (the sum of rounded differences is never below the distance from the trigger
  point), `CountsActive`, and `Recovers`: if it stays cold every device is released in the end, in
  every run in which no wakeup is lost. The premise is needed: `numActive` is tested under `flag` and
  changed under `mtx`, so a notification can fall between test and wait, and the thread may then sleep
  with a limit in force. Fairness: the sensor thread and each algorithm thread keep running;
  spurious wakeups are not promised.
* `thermal_level` (violated): `StatusZeroMildest`, on the same configuration with the temperatures 5, 7 and 9. The first
  algorithm reaches status 1 at 9 and asks for level 0. At 7, between its clear and its trigger
  point, it goes back to status 0, which with `start_level` 0 gives level −1; the unsigned comparison
  turns that into the last level, and the algorithm asks for the strictest one its floor allows.
  SS-LITTLE0_FREQ, SS-LITTLE1_FREQ1 and SS-GPU have no `start_level`, so theirs is 0.

Proved for every configuration within the assumptions – any number of algorithms, devices, levels
and threads, any temperatures (`ThermalControlProofs`):

* `TypeCorrect`: in particular no start level or floor makes an SS algorithm ask for a level beyond its
  device's table, and none beyond it is applied unless a monitor's `action_info` names such a level;
* `CountsCorrect`: `[]CountsActive`;
* `InactiveReleased`, `LimitsKept`, `DevicesFollow`: `[]InactiveReleases`, `[]LimitIsKept`,
  `[]DeviceFollowsRequests`;
* `MonitorInBand`, `SSKeepsUp`: `[]MonitorBand`, `[]SSNeverBehind`.

The argument has four layers. `Shape` is the type invariant with two strengthenings: a status stays
within its table, and a thread works only on active algorithms of its own sequence; so no two
threads carry out decisions of one algorithm (`OnlyOne`), which everything else uses. `Pending` says
that the algorithm the sensor thread is activating is not being switched off: the temperature that
activates it is at or above its trigger point, hence above the clear point, and cannot change while
the sensor thread is between flag and counter. With it `CountsActive` is inductive. `Requests` says
what an algorithm has asked for at each place of the thread carrying out its decision: at rest the
levels of its status, nothing between release and request, the levels of the next status before
`Apply`, nothing after switching off; and that the levels of an algorithm at rest are applied. The
lemma `Effects` reduces the steps to the few that matter to this, so that each invariant is proved by
six cases. `StrictestMeaning` and `PassedMeaning` show that the values the operators choose exist
and what they are. `Fitting` says of a status at rest that it fits the temperature it was decided
on, and of the status a thread is about to reach that it fits already; the lemmas `MonitorFits` and
`SSFits` are the arithmetic of one decision: a monitor goes to one edge of the band or, being within,
stays, and the sum of differences of rounded temperatures telescopes. The layers were checked by TLC on the instance above before they were proved.

Left out: lowactive algorithms (the same code on negated numbers), virtual sensors (a weighted
sum of other sensors), `ReportDevice` (its `statusApply` writes a log line and has no levels), and
scenario changes, which have the next module.

## Thermal scenario changes

`ThermalScenario` has the scenario thread (`spc`, and `phase` and `todo` for its three loops over the
sensor threads), any number of sensor threads (`pc`), and the algorithms of one sensor, that of
`Owner`. `cnt` is `sensorThreadsWaitCnt`: raising it is `CntLoad` and `CntStore`, lowering it
`CountLoad` and `CountStore` under `numSensorThreadLock`, because the two sides share no lock. Testing a
condition and waiting for it are separate steps for the same reason. A phase is one round of
`Signal` to every thread: `Announce` (a change begins), `Tell` (the new name; and, when a new
configuration is coming, the `OLDSCEN_` prefix for what is there), `Release` and `Unflag`. The sensor
threads answer with `StartChanging`, `ApplyNew` and `ClearOld`. `Reload` goes through the phases
twice, with `Parse` between and `DestroyOld` at the end. Names stand for algorithms, two
generations of which alternate; an algorithm is off, undecided (activated, status 0), limiting, or left
over (a decision that was under way when the sensor thread switched it off).

The handshake loses races: an update of the counter, a notification, a thread that sees a change again
before its flag is reset. `slips` records the race that was lost, and nothing is explored after it.

* `thermal_scenario` checks, as long as no race was lost, `SwitchTogether` (a thread that is not
  stopped follows the scenario that those in the middle of a change have adopted, when a change is
  done all follow the scenario it was to, and no destroyed algorithm is reachable) and, with the scenario and the sensor threads fair, `ChangeEnds`. Two threads are enough
  for one to be ahead of the other; two scenarios, of which a new configuration may lack one, for
  the fallback to Default.
* `thermal_destroy` (violated): `DestroyUnused`. "Destroy unusing instances, threads" –
  `Monitor::deactivate()` does nothing at status 0, and nobody waits for a decision under way, so
  `destroyOldItems()` deletes algorithms that are active or in use.

Proved for every finite set of sensor threads and every set of scenarios (`ThermalScenarioProofs`):
`TypeCorrect`, with the bounds of the counter, and `SwitchesTogether`. The invariant is `Types`, which
also holds when a race has been lost, and `Orderly`, which holds until then. Its core is that the
counter is a barrier: `Counted` says that `cnt` is the number of threads that were signalled in this
phase and have not counted themselves down (plus one between the increment and the signal), and
`Barrier` which places a thread can be at on either side of the signal of each phase. So when the
scenario thread sees 0 nobody owes, which means that all threads stand behind the barrier and the next
phase begins as its places require. `Announced` and `Adopted` carry the scenario's name along, and
`Lineage` the generation of algorithms under the plain and the `OLDSCEN_` names. That the number of
threads is finite (`ThreadsAssumption`) is what counting needs. The invariant was checked by TLC
before it was proved.

Not modelled: sensor threads that sleep because no sensor of theirs is active (every sensor of the
shipped configuration is active from the start), and SS algorithms, which are deactivated whatever
their status.

## Sound trigger

`SoundTrigger` has `struct sound_trigger_device` as the record `stdev`; a field kept per model is
the set of models for which it is set. The functions called with the lock held
(`stdev_vts_set_mic`, `stdev_vts_set_power`, `handle_stop_recognition_l`) are operators on the record.
A mixer control may fail (`world.faults`), so `stdev_vts_set_power` is a set of results: a start that
fails leaves early, with some models not started; a stop that fails leaves early, with models still
started and the microphone on. `stdev_vts_set_mic` only warns about a control that fails; `mics` are
the microphones whose controls it set and did not reset since, whether or not the hardware obeyed.

Nearly everything happens under `stdev->lock`, so an entry point is one step, from lock to unlock,
unless it waits for something with the lock held (`Delayed`: a second lock or a reader;
`RecordOpens`, `StreamOpens`, `RecordReopens`, `StreamReopens`: a PCM device that is being opened) or gives it up to join the
callback thread (`StopJoins`, `Join`, `StopJoined`; the same for `stdev_close`). Two calls take no
lock. One is a stop whose retry loop (`TryLock`) ends without it (`StopBusy`, `StopTimeout`): it is noted,
to be carried out later. For its sake the callback thread is cut between its test and its
call: `ThreadEvent` (test, and `recog_cbstate`), `ThreadCalls`, `CallbackReturns`, `ThreadUnlocks`. The
other is `sound_trigger_notify_ahal_record_status`, cut where it tests what it then acts on
(`NotifyTests`, `NotifyPower`, `NotifyMic`), so that its steps fall between those of every other
function. What is left out is that it could also fall between two assignments of one step;
opening a PCM, which takes long, is a step of its own for that reason. A process that calls
`pcm_close()` with a null pointer, which a failed change of microphone can lead to, ends and is
started again (`CloseNull`).

One framework thread, one audio thread, readers, the callback thread and one waiting uevent are in
every run. More threads of a kind are serialised by the locks; a second waiting uevent is for the first
what the first is for the one being handled. Deadlock is not checked, because one is known.

* `sound_trigger`: a behaviour has one of three worlds (`world`), fixed at its start: two models, one of
  which captures, and nothing fails; one model with PCMs that fail to open (`badPcms`); or one model
  with PCMs and controls that fail anywhere and the notice anywhere (`faults`). Failures together with a
  second model are left to the proofs.
  Checks, in all of them, `QuietAfterStop` (an action property: once a stop has returned, done or noted, the
  thread does not decide to call the model before it is started again; a call decided on before comes
  only after a stop that was noted without the lock); `SilentInCall`; `PcmKept` (the PCM of a recording
  is not closed under its reader); and with `TypeOK` that every path releases the lock. `SilentInCall`
  excepts the two cases in which the code does leave something on when a call begins (`leftOn`): a model
  that could not be stopped, and a call that finds the microphone off under an armed model or a
  recording. In the first two worlds it checks `RightMic`: the microphone that is on is the active one, and
  it is on whenever something records or an armed model is recognised.
* `sound_trigger_deadlock` (violated): `NoCircularWait`. "Error handling to avoid ST HWservice
  Framework deadlock situation" – the stop of the last model joins the callback thread with
  `trigger_lock` held; `sound_trigger_open_for_streaming()` takes `lock` and waits for `trigger_lock`;
  the callback thread waits for `lock`.

Proved for any number of framework and audio threads, models and waiting uevents, with and without
failing controls and a racing notice (`SoundTriggerProofs`): `TypeCorrect`, `CallSilences`, `PcmsKept`
and `StoppedStaysQuiet`. `Steady` is what most steps do to the record: they arm nothing, switch no
microphone on when no model is armed, and leave the recording alone; it keeps the whole invariant. The lemmas
on the functions called with the lock held (`SetPower`, `PowerCycled`, `HandleStop`, ...) establish it
for each of their results, and the lemmas `*Keeps` go through the entry points. The invariant has
besides the properties `Opening` (who opens a recording keeps readers away and is not in a call),
`Silenced` (a stopped model lacks its callback or is not running) and `Decided` (the model about to
be called was not stopped, or its stop was noted since).

`RightMic` is only model-checked, and with faults it is false in two ways. "update active mic only after
disabling previous mic configuraiton" (line 1692): a stop control that fails (lines 509-511, 535-537)
skips the disabling, the headset's microphone becomes the active one with the controls of the main one
still set, and, as `is_mic_configured` is still true, is never switched on. And the notice calls
`stdev_vts_set_power()`, which "Must be called with the stdev->lock held" (line 428), without it: while a
recording of the sound trigger HAL opens its PCM, with `is_recording` not yet set, the notice takes its
microphone. Nor does `RightMic` speak of a caller that is ending the callback thread (`Ending`): an
unload has then given up the lock, a recording closed meanwhile takes the microphone along, and a
model started by another thread may find the VTS on and leave its microphone off.

The PCM of the streamed keyphrase is not protected like that of a recording: `stdev_vts_set_power()`
closes it (line 438) without `trigger_lock`, under which it is read (line 1409). The model has this
behaviour; `PcmKept` does not speak of it.

`handle_stop_recognition_l()` is to "reconfigure if other model is running" (line 1302), but resets the
execution state of every model (line 1310): a model that was running has its callback and is
recognised, and its callback is not called any more. The model has this behaviour; no
property is about it.

## Audio playback

`AudioPlayback` has PCM streams and the offload stream, each with a framework thread that writes
(`writer`) and one that makes the other calls (`control`), and the offload callback thread. `lock` is
`out->common.lock` between steps; `adev->lock` is held within single steps only. A first write is
`WriteReady`, `WriteRoute`, `WriteOpen`, then `WriteData`, which may write short and leave a message
to the callback thread. `out_standby` is `StandbyWaits` (for `sync_cond`, with the lock released),
`StandbyStops` and `Unroute`; closing goes on with `Remove`, `SendExit` and `Joined`. Waits are
woken by signals and spuriously, and, like the code, standby does not test its condition again.
`SetDevice` (with `NeedRouting`) and `Reroute` are `out_set_parameters`, which decides under
`adev->lock` and acts after releasing and retaking it. Not every stream uses the path: USB and
DisplayPort streams (`OwnDma`) do not count as its users (`Active`), and `adev_set_route` returns early
for a media stream on the AUX_DIGITAL device (`Routes`), to which `AuxStreams` may be directed (`aux`).
`owed` is the set of callbacks the framework waits for.

* `audio_playback`: the offload stream and one PCM stream, which may be directed to AUX_DIGITAL, and one
  message waiting while the thread handles another. Checks `RoutedWhileOpen`: whenever a stream that
  plays on the path has its device open the path is routed or the stream is about to route it,
  though streams decide from each other's status without each other's lock. USB streams and streams on
  AUX_DIGITAL are excepted; as the code says, they have no relation to the route. The run has no USB
  stream, the proof has. Checks also `Answers`: every short write and
  drain gets its callback, and standby and close return, unless the device stays paused, in
  which case the compress driver does not finish. Fairness: a call that was begun goes on, a mutex
  that is free again and again is granted in the end (strong fairness of the standby and of the
  callback thread), and a device that is not paused consumes what was written. No call is promised.
* `audio_status` (violated): `StatusTrue`. "STATUS_IDLE, Stream is opened & Device is opened" – a
  partial drain handled after the standby that closed the device sets it.

Proved for every set of PCM streams, of those with a path of their own and of those that may be
directed to AUX_DIGITAL, and any length of the message list (`AudioPlaybackProofs`): `TypeCorrect` and
`RouteKept`. A stream counts as active from before it looks at the route
(`WriterActive`) until after its device is closed (`OpenIsActive`), and who unroutes has seen every
other stream inactive under `adev->lock`; hence the path stays routed from `WriteRoute` to the close
(`Routed`). Since standby gives the stream's lock up to wait, this needs `LockOwners` and `Leaving`: a
stream that is being closed accepts no write. `ExitLast` and `ThreadLife` bound the messages: the one
that ends the callback thread is the last. `NobodyAssumption` says that the value standing for a free
lock is not a thread.

Left out: voice calls, in-call music and VoIP (other branches of the same functions), MMAP streams,
forced routes, capture, and failing allocation of a message.

## What the checks cannot reach

Liveness (`SwitchEnds`, `SetCallbackEnds`, `RequestEnds`, `Recovers`, `ChangeEnds`, `Answers`) is
checked by TLC only: the prover does not handle fairness. So is `RightMic`, and so are the four violations, which are
counterexamples and need no proof. Everything else the runs check is proved. TLC's results hold for the instances above. Every bound appears
in a guard or an assumption under its own name: `MaxFds`, `Asked`, `MaxTries` (7 in the code),
`MaxUevents`, `MaxSpurious`, `Threads` of `UsbWorker`, `MaxEvents` (of `UsbGadget` and of
`SoundTrigger`), `MaxMessages`, `Functions`, `MaxStatus` (ticks are
counted up to this status; the status itself is bounded by the temperatures).

Each property of a passing run has a mutant: a variant of one definition with a plausible slip
(`*_KeepsRequest`, `*_NoSignal`, ...), under which TLC finds the property violated. The variants stand
before the definitions they alter and are used by nothing else.

## Running

    tlc -config MCBootControl.cfg MCBootControl
    for m in BootControl UsbRoleSwitch UsbWorker UsbGadget ThermalControl ThermalScenario \
             SoundTrigger AudioPlayback; do tlapm ${m}Proofs.tla; done

A passing run takes up to three minutes on two cores; the violated ones end within
seconds. `SoundTriggerProofs` takes some three minutes, every other proof module about one.

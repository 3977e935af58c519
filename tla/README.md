# ARDEP: TLA+ models of the UDS stack, the firmware update, the LIN stack and the drivers

ARDEP is an automotive development platform: libraries, drivers, a firmware
loader and host tools on top of the Zephyr RTOS. This directory models the parts
of it that carry its own logic and keep state over time. Every module names the
files it is translated from; `PROJECT.json` maps each definition to lines.

Run everything from this directory: `tlc -config X.cfg MCX` for a model,
`tlapm XProofs.tla` for proofs.

## 1. Inventory

| Component | State | Operations | What is hard about it | What makes it correct |
|---|---|---|---|---|
| Event dispatch (`lib/uds/uds.c`) | none of its own; static registrations in link order, dynamic ones in list order | `uds_event_callback`, `uds_handle_event` | order, consumption and failure of handlers decide what else runs and what is answered | the actions called are those the documentation describes; a positive answer means that somebody processed the event |
| Dynamic registrations (`uds.c`, `dynamically_define_data_ids.c`) | list of registrations, list of ids, heap | register, unregister, define by id / by address, clear one / all | four or five allocations per request, each may fail; two lists in step; no lock | no leak, no double free, unique ids, nobody else's registration disappears |
| Upload, download, file transfer (`upload_download*.c`) | two static records, flash, an open file | RequestDownload, RequestUpload, RequestFileTransfer, TransferData, TransferExit | address arithmetic, write blocks, padding, failures between two writes, abandoned transfers | writes stay in the window, acknowledged bytes are durable, no handle is lost |
| Sessions, link control, reset (`default_instance.c`, `diag_session_ctrl.c`, `link_control.c`, `ecu_reset.c`, `util.c`) | session type, verified modifier, CAN controller | DiagnosticSessionControl, session timeout, LinkControl, ECUReset | three handlers of one event in link order, failing CAN calls, a receive buffer that keeps old bytes | the default session is reachable at the default bit rate |
| iso14229 server thread (`lib/iso14229/iso14229_common.c`) | thread object, two flags, two mutexes, two queues | thread_start, thread_stop, set_callback, CAN receive, event loop | start/stop/replace from several threads against the loop | one thread in the object, no stale callback, frames delivered, stop ends |
| Firmware loader and runner (`firmware_loader/src`, `scripts/runner/ardep-uds.py`) | slot 0, retained byte, boot mode, erase routine | switch, erase, result, download, reset, timeout | a reboot anywhere, work item in the background, repeated attempts | "complete" means the image is in flash; no endless reboot |
| Legacy update (`lib/uds_legacy`, `scripts/ardep_commands/uds_dfu.py`) | block counter, flash context | seven requests, retries | lost and late answers, 8-bit counter that wraps | every block written once; only whole images confirmed |
| LIN scheduler (`drivers/lin/abstract_lin/lin_scheduler.c`) | active table and entry, semaphore | set_active_table, disable, thread | indices shared through a conditional semaphore, callers not locked against each other | indices in bounds, entries in order, silent when disabled |
| Abstract LIN (`abstract_lin.c`) | table of callbacks and its length | register, unregister, schedule_now, header and rx interrupt | the table is edited, counter first, while interrupts search it | at rest the table is what was registered |
| LIN-to-CAN bridge (`lin2can.c`), CAN router (`can_router.c`) | a bounded queue, one callback per mapped id, filters | send, add and remove filter, incoming and outgoing callback, forward | the id of a CAN frame travels in two bits of its first byte; frames wait until the bus polls | a FIFO channel that may lose frames and does nothing else to them |
| Memory, data identifiers, dynamic reads (`memory_by_address.c`, `data_by_identifier.c`, `dynamically_define_data_ids.c`) | one temporary buffer, the definitions | read, write, IO control, memory access | addresses that wrap, events inside events | memory access exact; a dynamic identifier reads as its parts |
| Registration macros and event tables (`uds_macro.h`, `lib/uds/*.c`) | none | 19 macros, 25 table entries | fourteen files that are near copies of each other | every event reaches the actor documented for it |
| UDS sample (`samples/uds/src`) | values, LED, seeds, a routine | its handlers, the LED thread, a work item | requests against two threads | protected data is protected; the routine ends |
| Power IO shield (`power_io_shield.c`) | cache, semaphore, two work items | start, GPIO API from threads and ISRs, INT line | cache against chip, also when only the processor was reset; levels behind an edge-triggered line | the chip is as asked; interrupts are served |
| HV shield (`drivers/hv_shield`) | copy of a shift register | start, directions, gains, pins | no lock; the copy changes before the transfer | no IO is driven unasked; directions agree |
| CAN log (`can_log.c`) | transmit semaphore, panic flag | line out, callback, panic | callback after the timeout | the log does not run ahead of the bus |
| USB, gearshift, iso14229 glue | none that changes | | | |

How they interact. The CAN interrupt fills the queues of the server thread; the
thread feeds the external iso14229 library, which raises events; the event
callback is `uds_event_callback`, which dispatches to registrations; their
handlers work on static records, flash, file system, CAN controller and the list
of registrations itself. A programming session in the application stores a byte
in retained memory and reboots into the loader, which runs the same stack with an
erase routine; the host runner drives it. A handler may raise events itself: a
dynamically defined identifier is read by events for its elements. The LIN
scheduler's thread calls the abstract LIN driver, whose table holds the callbacks
of the LIN-to-CAN bridge; to the CAN router and to ISO-TP the bridge is a CAN
controller. The shields' drivers and the CAN log are used by applications and do
not interact.

The hazards that follow from this are listed, with their lines, in
`PROJECT.json`. The properties below are aimed at them.

## 2. Modules

| Module | Models | MC module, runs |
|---|---|---|
| `UdsTransfer` | the five transfer services | `MCUdsTransfer`: transfer, transfer_short; proofs in `UdsTransferProofs` |
| `UdsRegistry` | dynamic registrations and 0x2C over a heap | `MCUdsRegistry`: registry, registry_oom; proofs in `UdsRegistryProofs` |
| `UdsDispatch` | uds.c 20-116 as pure operators | through the modules that use it |
| `UdsSession` (extends `UdsDispatch`) | sessions, LinkControl, ECU reset | `MCUdsServices`: services; `MCUdsSession`: session_stalebyte; proofs in `UdsDispatchProofs` |
| `UdsRegistrations` (extends `UdsDispatch`) | the macros of uds_macro.h and the table entry of every event | with `UdsEventFlow`; proofs in `UdsDispatchProofs` |
| `UdsEventFlow` | lists of registrations that grow, against the documented event flow | `MCUdsServices`: services; proofs in `UdsDispatchProofs` |
| `UdsServices` | memory by address, data identifiers, dynamic definitions, as functions of a state | with `UdsEcu`; proofs in `UdsDispatchProofs` |
| `UdsSample` | the handlers of samples/uds | with `UdsEcu` |
| `UdsEcu` | two ECUs: the tests' fixture with the library's handlers, and the sample with its LED thread and work queue | `MCUdsServices`: services, services_readonly |
| `Iso14229Server` | the server thread | `MCIso14229Server`: server; proofs in `Iso14229ServerProofs` |
| `FirmwareUpdate` | application, loader and runner | `MCFirmwareUpdate`: update; proofs in `FirmwareUpdateProofs` |
| `UdsLegacy` | legacy server and client | `MCUdsLegacy`: legacy; proofs in `UdsLegacyProofs` |
| `LinScheduler` | schedule tables | with `LinNetwork`; proofs in `LinNetworkProofs` |
| `AbstractLin` | callback tables of the LIN nodes | with `LinNetwork` |
| `Lin2Can` (extends `AbstractLin`) | the bridge | with `LinNetwork` |
| `CanRouter` (extends `Lin2Can`) | routes | with `LinNetwork` |
| `FrameChannel` | what one direction of the bridge promises (abstract) | refined by `LinNetwork` |
| `LinNetwork` | a bus with a commander and a responder: the five above together | `MCLinNetwork`: lin; proofs in `LinNetworkProofs` |
| `PowerIoShield`, `HvShield`, `CanLog` | one driver each | `MCPeripherals`: peripherals; proofs in `PeripheralsProofs` |

Definitions called "Mutant" in a comment are plausible bugs of the code that
violate one of the properties when they take the place of the definition that
follows; no specification uses them.

### State and actions against the code

*UdsTransfer.* The variables up to `transferred` are the fields of
`upload_download_state` and `file_transfer_state`. Each of the five services is
an action; `RefuseStart`/`StartAllowed` are the `transfer_exit` call at the head
of every start request. Requests run to completion in the UDS thread, so one
request is one step; the two flash writes of a block are inside the step, and the
step can fail between them. Addresses and sizes are added modulo `AddressSpace`,
the width of `uintptr_t`. Any file system call may fail, `fs_close` too, whose
result the code ignores: `unclosed` counts the files it left open. `stray` counts
the bytes of blocks that `fs_write` cut short. Both are history variables, and so
is `image`.

*UdsRegistry.* `regs` and `idlist` are the two lists; heap blocks have an
identity, so that a block that is freed twice or used after it was freed is seen.
`Pointers` and `Target` say which blocks a registration points to; a step frees
what a set of pointers points to (`Frees`), and `fault` is set when two of them
point to one block or one points to a block that is free. `Only` is what
`sys_slist_remove` leaves of a list; `ClearAll` says in one expression which
registrations the loop over the ids takes.
A request is atomic because the UDS thread is cooperative. With
`AppPreempted`, requests run between an application's search for an id and its
insertion, as nothing in `uds.c` prevents. `disturbed` is a history variable: an
id found by the application was given out before it was used, or a client cleared
a registration of the application.

*UdsDispatch / UdsSession.* `Visit` is one turn of the loops in
`uds_handle_event`, `Turns` the state of the loops after each turn. `UdsSession`
feeds them three handlers in an `order` chosen
once: the linker's. `byte2` is the byte of the receive buffer that
`uds_action_default_link_control` reads.

*UdsRegistrations / UdsEventFlow.* A registration is a record of type, id and
actors; a macro is the operator that makes it. `uds_event_handler_data` is the
table that the source files fill section by section; `reach` of an entry says how
its check function treats an id and a NULL pointer, `default_nrc` what is answered
when nobody processes the event: negative for all requests but session changes.
`Reach` is `uds_check_and_act_on_event` for one entry and one registration.
`Documented` gives an event its actor as the comments of `uds_registration_t` do;
two of these disagree on `dynamically_define_data_ids`: uds.h:567, at the
member, names UDS_EVT_DynamicDefineDataId, uds.h:582, at its action, names
UDS_EVT_CommCtrl. The first is taken.

*UdsServices / UdsSample / UdsEcu.* A handler is an operator from a request and
the state `ecu` to a response code, a consume flag and a new state. `ecu.app` says
which program it is, chosen once: "fixture" is tests/lib/uds, which registers the
library's default handlers for memory and 0x2C, on a board or on native_sim
(where `is_memory_address_valid` looks for wrapping only); "sample" is samples/uds,
with its own memory handlers over `fake_memory`. Neither has the other's handlers.
`ecu` has the statics of the library (`temp`, `len`, `dynamic`) and of the sample
under their names. `tester` is a history variable: what the answers so far entitle
the tester to read, the last challenge and seed included. `uds_event_callback` is recursive, as the code is: the action of a
dynamically defined identifier raises an event for each element, with the copy
function that fills the temporary buffer. A request is one step: the handlers run
one after the other in the UDS thread, and hold the sample's mutex when they
touch what `LedThread` and `AsyncWork` use. If the LED's pin cannot be configured
the thread ends with the mutex locked, and a request that needs it never returns.
`k_work_schedule` may fail. `AsyncWork` has a step for the start,
for each turn and for the end of the routine. Values are small numbers that tell
the bytes of one source from those of another.

*Iso14229Server.* One step per critical section or blocking call of
`thread_start`, `thread_stop`, `set_callback`, the loop and the event callback.
The end of the thread (unlock, return) is one step because the thread is
cooperative.

*FirmwareUpdate.* `running` says which program runs. Retained memory, boot mode
and slot 0 survive `Reboot`; everything else is lost. Each request of the runner
is a step of runner and device together; `RunnerGivesUp` covers timeouts.

*UdsLegacy.* Two FIFO channels; `ServeRequest` is one turn of the server thread;
`Timeout` and `Lose` stand for late and lost messages. `faults` is chosen once:
the kinds of things that may go wrong in a behaviour, one or several. `failed` is
a history variable: a flash call failed since the flash context was last
initialized.

*LinScheduler.* One step per access to `current_table`, `current_table_entry` or
the semaphore, for the thread and for callers.

*AbstractLin.* `callbacks` and `used_callbacks` are the driver's. `Register`
takes the slot (the counter goes up), `Fill` writes one field after the other;
`Unregister` decrements the counter, `Shift` moves one slot. `registered` is what
the callers were told. The interrupt handlers read the table between any two.

*Lin2Can.* `queue` is the message queue of a node, `incoming_callbacks` has who
gets the frames of a mapped id. `Encode` puts the index of the id into the two
top bits of the first byte and pads, `Decode` takes it out: the bytes are modelled,
because the ISO-TP frame type shares the byte.

*CanRouter.* `RouteEntry` is one round of the loop over the entries of a table,
`NextTable` one of that over the tables; `FilterResults` is whatever
`can_add_rx_filter` may return, an error or any filter id. `can_router_register`
has no other caller than `can_router_sysinit`. `RouteToLin` is the receive
callback of the CAN side.

*LinNetwork.* `SchedulerStep` is a step of the scheduler's thread, whose
`Schedule` is `ScheduleNow` (`al_schedule_now`) of the abstract driver. `bus` is
the one transfer under way: header, data, end. The LIN driver is external.

*FrameChannel.* `BridgeIsChannel` instantiates it once per direction: `chan` is
the frame on the bus followed by the sender's queue, decoded; `heard` is what the
receiver's CAN callback is being given. Every step of the network has to be an
acceptance, a delivery of the head, a loss or a stutter of both channels.

*PowerIoShield.* `power_io_shield_init` is four steps, each of which but the last may fail: the
interrupt of the INT line is enabled, IOCON and IODIR are written, then the work
items and the semaphore are initialized. The other registers keep what an earlier
run of the program left in them if only the processor was reset (`LeftBehind`);
`retained` says that the interrupt registers still do. `cache`, `trigger`, `lock` and the two work items are the
driver's `data`; `chip` has the registers of the MCP23017, written from its use in
the driver and marked external; `levels` has the inputs that are high and the
outputs whose pin is held at another level than its latch, and `line` is the shared
INT line with the latched edge at the processor. A work item that is run before it
is initialized has no handler (`NullWork`). An operation
is a call, taking the semaphore and one step per I2C transfer, which may fail
with or without effect. `IsrInterruptConfigure` does not wait.

*HvShield.* `registers` is the driver's copy, `stages` the shift registers. The
load and the store of the read-modify-write, the copy that `_hv_shield_update`
makes byte by byte and the transfer are separate steps, as nothing locks them; a
transfer fails before or after it had its effect. Threads set directions and
gains. `settings` has the values a direction or gain may have after the calls so
far. The order of the 40 bits on the SPI is modelled (`SpiBit`),
since a wrong one drives a wrong pin.

*CanLog.* The log thread takes the semaphore, sends and waits; `inFlight` are the
frames in the controller's mailboxes, `debt` counts waits that timed out.

## 3. Runs

Numbers are distinct states.

| Run | States | Checks |
|---|---|---|
| transfer | 59 109 | `OneTransferActive`, `TransferInsideFlash`, `AckedInFlash`, `WritesStayInWindow`, `NoHandleLeak`, `CompleteWhenExited` |
| registry | 222 690 | `HeapOK` (no leak, no double free), `IdsOK` (ids unique, tracked, never 0, and valid for those who hold them, as long as no id was given out between its search and its insertion), with every allocation but the last failing and registrations preempted |
| lin | 131 638 | `SchedulerInv`, `EntriesInOrder`, `SetReturns`, `KeepsSending` of the schedule; `TableExact` of the callback tables; `RoutesInstalled`; `BridgeIsChannel` (refinement) and `QueuesDrain` (liveness) of the bridge |
| server | 116 302 | `CallbacksOK`, `NoThreadReused`, `StopEnds`, `FramesDelivered` |
| services | 78 703 | `DispatchExact` against the event flow of `lib/uds/README.rst`, `EventReachesItsActor` against the comments of uds.h, `ReadsAsService`, `SecretsGuarded`, `MemoryExact`, `RoutineEnds`; `DefaultSessionDefaultBitrate`, `LinkOK`, `RefusedKeepsLink` of sessions and link control |
| update | 2 352 | `CompleteMeansFlashed`, `EraseOK`, `NoRebootLoop` |
| legacy | 1 637 136 | `AckedExactlyOnce`, `ImageOK`, `ClientEnds` |
| peripherals | 449 919 | `ChipAsAsked` and `InterruptsServed` of the power IO shield, `DirectionsAgree` of the HV shield, `LogPaced` of the CAN log |

`HeapOK`, `IdsOK`, `CallbacksOK`, `LinkOK`, `EraseOK` and `ImageOK` are
conjunctions of named invariants of their module, its types among them.
`CallbacksOK` and `EraseOK` have the parts that make them inductive as well
(`MutexesHeld`, `ThreadMarked`; `EraseTracked`, `SentIsWritten`), so the run
checks what the proof assumes.

Four runs show where the code does not do what the repository says of it:

| Run | What it shows |
|---|---|
| registry_oom | the fourth allocation of a definition fails: the list and its items are freed by `uds_unregister_dynamic_identifier` and once more by the caller |
| session_stalebyte | LinkControl transitionMode takes the bit rate from a byte an earlier request left in the buffer, not from the verified modifier |
| services_readonly | a write to an identifier registered without write handlers, which uds_macro.h allows, calls a NULL pointer; so does IO control |
| transfer_short | a block that `fs_write` cut short stays in the file when it is sent again, and the exit of the longer file is answered positively |

### Bounds

* transfer: 16 addresses, flash of 4 cells mapped at 4, write blocks of 2 (and 4,
  larger than the padding buffer), payloads of up to 3, two byte values, files of
  0, 3 and 4 bytes, two handles. A window can be inside, at the end of, beyond
  and wrapped around the flash; a block can be empty, unaligned, full and too
  long; a handle limit can be reached.
* registry: 9 heap blocks, 2 ids, 2 dynamic identifiers of up to 2 items, one
  application identifier, whose registration may be preempted: memory and ids both
  run out.
* lin: queues of one frame, so that they overflow; tables of one and three
  entries and an index out of bounds; three CAN frames, one of which cannot be
  mapped; four filters, one of each kind; the
  routing table of the gateway sample, one spread over three tables of which one is
  empty and one with a route that is refused, with the filter ids 0 and 1 and an error; four slots, of which the responder's
  application can fill those that are left and ask for a bad id. `focus` is
  chosen once and lets a behaviour change filters, the schedule, or the
  registrations, next to the traffic: the three do not share state.
* services: `focus` selects a group of services. Lists of at most 2 static and
  2 dynamic registrations over the 11 behaviours (`Representatives`) that differ
  in a return of `uds_check_and_act_on_event`; up to two uses of a macro. Addresses of 4 bits with
  RAM at 10-12, flash at 3-6 and the sample's memory at 4-6: requests wrap, straddle
  and touch both ends. Seeds 0 (the value before the first challenge), 1 and 2. A
  temporary buffer of 3 and a response of 4 bytes: both overflow. At most
  `MaxElements` = 3 elements in all definitions; access to the data of an element is
  denied and granted at any time. A routine of two turns.
  Sessions: all 6 orders of three handlers, two failing CAN calls.
* server: two clients, three starts, two frames, queues of one: a queue
  overflows, and a stopped thread can be restarted twice.
* update: two blocks, three runs of the runner: a run can meet what two
  unsuccessful ones left behind.
* legacy: four blocks over a counter of three values, so that the counter wraps
  inside an image, three attempts per block, three runs: a run can meet what two
  earlier ones left in the channels. These hold three messages; see section 5 for
  longer ones. Faults of all kinds in one behaviour, and each kind of flash failure
  alone.
* peripherals: `unit` selects a driver, and for the power IO shield the outputs,
  the interrupts or an interrupt that was left behind at the reset (with one call). Two threads and two calls; two inputs, one hard-inverted
  and one fault input on the other port; two outputs; one failing transfer
  (outputs only: after a failure nothing is promised of interrupts); two input
  edges; another shield on the INT line. Interrupts are configured by one thread
  and in ISRs. HV shield: two calls by two threads, directions and gains, one failure, pins of
  different halves of a byte and different bytes, a supported and an unsupported
  gain, any stage high after power-on of one direction and one gain bit. CAN
  log: lines of one and of three frames, three mailboxes, three messages.

Deadlock is checked except where the system may stop: in `update` and `legacy`,
where the client is not started any more after its last run; in `services`, whose
lists stop growing; in `lin`, where a disabled schedule with a full queue waits
for ever; in `peripherals`, when the calls are used up.

### Fairness

* server: weak fairness of the server thread and of clients inside a call
  (threads that are ready are scheduled). Strong fairness where the server takes
  a mutex, because a Zephyr mutex is handed to the waiting thread of the highest
  priority, and of leaving the poll without a further event. No fairness of calls
  or frames.
* lin: weak fairness of start-up, of the scheduler's thread, of callers inside a
  call and of the bus. Strong fairness of an undisturbed header for each receiver:
  a bus that disturbs every transfer of one direction delivers nothing. Nobody has
  to send, to call or to register.
* services: weak fairness of the LED thread, which is scheduled again and again,
  and of the system work queue. No fairness of requests.
* peripherals: weak fairness of threads inside a call, of the work queue, of the
  INT interrupt once its edge is latched, and of the other shield being served.
* update: weak fairness of the device (boot, main, the session timer, the reset
  timer, the work item) and of the runner, which goes on or gives up. Nobody has
  to start the runner.
* legacy: weak fairness of the server thread and of the client, whose receive
  call has a timeout. Messages need not be lost.

## 4. Proofs

Eight modules prove theorems with TLAPS for every value of the constants that
satisfies the named assumptions of the modules, without the bounds of the MC
modules: their `focus` and `unit`, which keep a behaviour to one part, do not
occur. `PROJECT.json` lists the theorems. In each module there is an inductive
invariant, a lemma per action, and a theorem per property. `UNION` and `SUBSET`
are written with parentheses next to another set operator: TLC and the prover do
not agree on how tightly they bind.

`UdsTransferProofs`, from `ConstantsAssumption` (any flash, write block, payload
and file size; the flash and a payload fit into the address space, and a payload
is not longer than the base address):

* `TypeCorrect`, `TransfersExclusive`, `TransferBounded`, `AckedIsDurable`:
  `TypeOK`, `OneTransferActive`, `TransferInsideFlash`, `AckedInFlash`;
* `WritesConfined`, `ExitedIsComplete`, `HandlesAreKept`: the action properties
  `WritesStayInWindow`, `CompleteWhenExited` and `NoHandleLeak`.

The inductive invariant is `TransferInv`. `TransferInsideFlash` alone is not
inductive: a window whose end wraps is accepted by the code, and that
`TransferData` then never moves follows from `WindowInv` (the wrapped end is
inside the flash, and a start has room for a payload). `AckedInFlash` needs
`AckedWithoutHole`: a new block starts at the current address, so it can only
touch cells that nobody was acknowledged. `FileInv` adds that the file position
is the number of bytes transferred and of those in blocks that the file system cut
short (`stray`); `ExitedIsComplete` says so of every file whose exit is answered
positively. That it has the announced size is not true, see run transfer_short.

`UdsRegistryProofs`, from `RegistryAssumption` (a heap of any size, any number of
ids, data ids and items):

* `TypeCorrect`: `TypeOK`;
* `IdsCorrect`: `IdsOK`, whichever allocations fail, with or without preemption and
  whatever data ids clients name. What the code does not prevent is in the property,
  as `disturbed`, and not assumed: until a client gets an id that the application
  has found, or clears a data id of the application, ids are unique, tracked and
  valid;
* `HeapCorrect`: `HeapOK`, with or without preemption, provided that data ids
  differ and that the allocation of the id item, the last of a definition, does
  not fail.

The assumptions of `HeapCorrect` are needed, as TLC shows: run registry_oom, and
with an id in both `AppDids` and `DddiDids` a client clears a registration of the
application and frees what is not its own. `Owners`, who has which data ids, is
the part of the argument that uses it. `HeapOK` is not
inductive: `live = Reachable` would hold of two lists that share a block, and
clearing one of them would leave the other with a freed block. `HeapInv` replaces
it by `OneOwner`: the function from pointers to blocks (`PointsTo`) is injective
and its range is `live`. The proofs then need only how a step changes that
function: a step that removes registrations renumbers the pointers that are left
(`Picks` says how places of a shortened list correspond to those of the list
before), a new identifier adds four, and an item adds one. The lemmas on
`Nth` and `Only` (the k-th smallest number of a finite set exists, is
unique and grows with k) are proved by looking at the least place where they
would fail.

`UdsDispatchProofs`, its part on `UdsEventFlow`, for lists of registrations of any
length:

* `DispatchIsExact`: `DispatchExact`, for every behaviour of a registration, not
  only the 11 `Representatives` of the run, and for every default answer, the
  positive one of session changes too. `Turns` is a recursive function; that
  it satisfies its own equation (`TurnsUnfold`) and that `LoopInv` holds after
  every turn are both shown by looking at the least turn where they would not
  (`LeastNatural`). `LoopInv` says what the loop knows after `n` turns: whether it
  has ended, whether an action succeeded, which were called.
* `EventsReachTheirActors`: `EventReachesItsActor`, and the same for every id, for
  registrations that the macros make of any ids and any functions but `NULL`
  (`MadeByMacros`); the run has one use of each macro and two ids. Every entry of
  the table is the one documented for its event (`EntriesFit`,
  `DocumentedHaveEntries`), the type of a registration says which actors it has
  (`MacrosAreWellMade`), and `CalledInv` says which functions `n` turns have called.
* `FlowCorrect`: both, for every behaviour of `Register` and `UseMacro` (`FlowSpec`); `CatalogueIsMade` shows
  that what `UseMacro` registers is `MadeByMacros`.

Its part on `UdsServices`, for every width of an address and any two memories that
end inside the address space (`MemoriesFit`): `MemoryCheckExact`, that the default
handlers accept exactly the ranges that lie in the RAM or, for a read, in the
flash, and on native_sim those that do not wrap, and `MemoryAccessExact`, that an accepted request reads or writes the bytes
of its range and no others. Together they are what `MemoryExact` says of the
handlers; that a request of the tester gets to them is `EventReachesItsActor`.

Its part on `UdsSession`, for every order of the three handlers (`SessionAssumption`:
an order is a permutation of them), any bit rates and number of failures:

* `DefaultSessionIsReachable`: `DefaultSessionDefaultBitrate`, provided that the
  application's handler does not consume session events (`~CustomConsumes`);
* `LinkStaysUp`: `LinkOK`, provided that `can_start` does not fail;
* `RefusalKeepsLink`: `RefusedKeepsLink`, without further assumption;
* `TimeoutRestores`: `RestoredOnTimeout`, under both assumptions.

Both assumptions are needed, as TLC shows: see `util.c:49` in section 5, and a
handler that consumes the event keeps the one behind it from restoring the bit
rate. The dispatch of an event is unfolded into its three turns (`ThreeTurns`).
`SessionInv` adds that a controller no call of which has failed is running: a
stopped one refuses `can_stop`, and the bit rate would stay as it is.

`Iso14229ServerProofs`, for any number of client threads, starts and frames:
`CallbacksAreSafe` (`CallbacksOK`) and `ThreadObjectNotReused` (`NoThreadReused`).
The argument is who holds which mutex at each place (`MutexesHeld`), and that a
thread that exists is marked as running, or its creator still has the mutex
(`ThreadMarked`).

`FirmwareUpdateProofs`, for any number of blocks and runs: `CompleteIsFlashed`
(`CompleteMeansFlashed`) and `NoEraseDuringTransfer` (`EraseOK`). The runner's
place must be tied to the loader's state across a reboot: `EraseTracked` (the
routine is in progress exactly as long as its work item is pending or runs, so a
result means that nothing erases any more) and `SentIsWritten` (the blocks the
runner counts are in slot 0, and the loader's download is at the next one unless
a reboot has ended it).

`UdsLegacyProofs`, for images of any size, any counter of at least two values and
any number of retries and runs and any combination of faults, provided that at
most four requests are queued, which is Zephyr's default (`ShortQueue`); with more
the properties fail, see section 5. `BlocksWrittenOnce` is `AckedExactlyOnce` and
`ConfirmedImages` is `ImageOK`; `TypeCorrect` needs no such assumption. Both
properties except a flash context in which a call has `failed`: `ImageOK` only
when another kind of fault is possible as well, where a confirmed image may have
a hole (`RetransmitWasWritten`, section 5). Lost and late messages alone, flash
failures alone and everything until a flash call fails are covered.

* Whatever goes wrong (`LateInv`), requests of earlier runs may
  still be queued and be answered in the place of new ones. What saves the update
  is that the queue is short: an erase that is followed by a transfer has a
  download in between (`QueueInv`), and behind the erase that the client accepts
  there is room for one old request only, so nothing that writes
  (`OpeningInv`). From then on the queue holds requests for the last block
  acknowledged and, behind them, for the next one (`Behind`, `Ahead`), whose
  counters differ; at the end it holds nothing that writes (`ClosingInv`). Each
  part says this of the flash context as long as no flash call has failed in it
  (`OnStage`).
* With one kind of flash failure and no timeouts (`SyncInv`) there is one request at a time. A failed write or flush
  is answered negatively before it is answered positively, and the client gives up
  (`Doomed`). After a failed `flash_img_init` there is no flash context, because
  every run that had one went on to close it (`ContextOwned`), and
  `handle_transfer_exit` refuses.

`LinNetworkProofs`, its part on `LinScheduler`, for any number of callers and tables of any length and for
callers that exclude each other (`ASSUME Serialized`): `SchedulerInv`, from it
`SectionsExclusive`, `IndexInBounds` and `QuietWhileDisabled`, and
`EntriesAreInOrder`, the action property `EntriesInOrder`. `SchedulerInv` adds
`OneCaller`, `TokenInv` (when the semaphore can be taken nobody uses the indices
and a table is active) and `IndexInv` (the entry fits the table except between
the two assignments of `set_active_table`); `OrderInv` says where the shared
index is relative to the last frame sent. The assumption is needed: see section 5.

`LinNetworkProofs`, its part on the network, for queues, callback tables and routing tables of any length,
any CAN frames, and any frames of the applications:

* `NetRunsScheduler`: the network implements the specification of `LinScheduler`,
  so `NetScheduleInOrder` has the results above for the network;
* `TablesAreExact`: `TableExact`. `TableInv` says which slots are `Live` in the
  middle of a call, and what of the slot being filled is there already;
* `RoutesAreInstalled`: `RoutesInstalled`, for any routing tables and whatever
  `can_add_rx_filter` returns, refused routes and filter ids other than 0 included;
* `BridgeImplementsChannel`: the refinement `BridgeIsChannel`. `NetInv` adds that
  queues hold encoded frames only, that the bridge's callbacks stay in the first
  two slots of each table (so an interrupt finds them whatever the applications
  are doing), and what the bus carries in each phase. `Decode` undoes `Encode` on
  frames of the ISO-TP form; `Or` is the `|=` of `lin2can.c:282` by its arithmetic.

They assume: a frame has one to eight bytes and the first is below 64
(`IsoTpAssumption`; the bridge is made for ISO-TP, see section 5 for others);
applications leave the two diagnostic ids alone and what is registered at start
fits, with different ids (`LinNetworkAssumption`). Of the routing tables only their
type is assumed (`CanRouterAssumption`).

`PeripheralsProofs`, for any number of threads, calls and faults, each driver on
its own:

* `LogIsPaced`: `LogPaced`. `LogBalance` counts a given semaphore as a frame;
* `ShieldDirectionsAgree`: `DirectionsAgree`, for any pins and gains and any number
  of threads that set them. `HvOnlyAsked` covers what calls in progress have loaded
  and copied, and is kept by overlapping ones; `HvAgree` says how copy, shift
  register and map differ in the middle of a call;
* `ExpanderAsAsked`: `ChipAsAsked`, whatever registers the expander kept at the
  reset and whatever level its pins are held at. The semaphore excludes (`PioLocked`), cache
  and chip hold a value that was asked for (`PioOutputsKnown`), and the
  registers written so far are those of the cache (`PioConfigKnown`).

Only model-checked:

* Liveness, which the prover does not do: `SetReturns`, `KeepsSending`,
  `QueuesDrain`, `StopEnds`, `FramesDelivered`, `RoutineEnds`, `NoRebootLoop`, `ClientEnds`, `InterruptsServed`.
* `ReadsAsService`, `SecretsGuarded` and `MemoryExact` of `UdsEcu`, which rest on
  the recursive operator `uds_event_callback`. Of `MemoryExact` the handlers' part
  is proved (`MemoryCheckExact`, `MemoryAccessExact`).

## 5. Observations that are not runs

Each names the line, and the property of a module that fails, with the constants
to change where the run's own do not show it.

UDS.

* `upload_download.c:306`: after an abandoned incomplete file transfer the next
  start request is refused with the old transfer's error.
  `StartNotRefusedForOldTransfer` in run transfer.
* `upload_download_file_transfer.c:118`: when `fs_stat` fails or finds a
  directory the file opened before stays open, because `file_open` is not set
  yet. `NoHandleLeak` excepts refused requests for this reason. Line 72: the result
  of `fs_close` is ignored, and `file_open` cleared; these files are counted apart.
* `uds.c:187`: `IdsUnique` alone fails in run registry: id search and insertion are
  not locked against the cooperative UDS thread, although uds.h:235 speaks of "the
  assigned unique ID". A definition in between gets the same id.
* `dynamically_define_data_ids.c:460`: with an id in both `AppDids` and `DddiDids`,
  `AppIdsValid` fails: a client that clears the id removes the registration of the
  application.
* `diag_session_ctrl.c:62`: `UnprocessedIsRefused` of `UdsEventFlow` fails: the event
  has `default_nrc = UDS_PositiveResponse`, so a session change that no handler
  processes is answered positively; `lib/uds/README.rst:148` says that a negative
  response is sent. `DispatchExact` leaves the default answer to the table.
* `include/ardep/uds.h:582`: the comment on the action of
  `dynamically_define_data_ids` names UDS_EVT_CommCtrl; line 567 and the code have
  UDS_EVT_DynamicDefineDataId.
* `uds.c:72`: with two `Instances`, `OnlyOwnHandlers` of `UdsEventFlow` fails:
  static registrations are not filtered by instance. Their order is the linker's.
* `dynamically_define_data_ids.c:117`: `NestedReadsAsService` of `UdsEcu` fails
  (`DataSpec` of `MCUdsServices`, also with `TempSize = 6`): one temporary buffer
  serves all levels, so an identifier made of another dynamic one takes its part
  from the inner one's uncut data, although lines 88-90 say it is handled exactly
  the same.
* `dynamically_define_data_ids.c:102`: an identifier that contains itself recurses
  without end; `MaxDepth` stops the model with `StackOverflow`.
* `memory_by_address.c:55`: `FlashWritable` of `UdsEcu` fails: on a board the default
  handler refuses every write to the flash, as a test expects
  (`tests/lib/uds/src/test_0x3D_write_memory_by_address.c:134`), while
  `include/ardep/uds.h:718` and `:726`, `uds_macro.h:337` and
  `lib/uds/README.rst:416` say that flash can be written. `MemoryExact` says what
  the code and the test do.
* `samples/uds/src/mem_by_address.c:34`: `FakeMemoryExact` of `UdsEcu` fails: the end
  of a range is compared with `>=` to the exclusive end of `fake_memory`, so the
  last byte is out of reach; the 32-bit sum may wrap.
* `samples/uds/src/data_by_id.c:321`: `LedFollows` of `UdsEcu` fails: if the LED's pin
  cannot be configured its thread returns with `led_data_mutex` locked. The LED stays
  as it is, and the next request that writes or controls it blocks the server.
* `samples/uds/src/authentication.c:157`: the challenge is 0 before the first one is
  sent, and a proof of 0 is accepted then. `SecretsGuarded` counts it as entitled.
* `util.c:49`: with `CanFaults = {"start"}`, `RestoredOnTimeout` fails: once
  `can_start` has failed `can_stop` fails as well, and nothing starts the
  controller again.
* `iso14229_common.c:131`: `StopReturns` fails: `thread_stop` unlocks before it
  joins; if the thread is restarted in between it waits for the new one for ever.
* `firmware_loader/src/uds_routine_control.c:73`: `ErasedWhenReported` fails: a
  failed `flash_area_erase` is only logged, and the client is told that slot 0 was
  erased. `CompleteMeansFlashed` holds nevertheless.
* `uds_legacy/uds.c:281`: `RetransmitWasWritten` fails (also with
  `Scenarios <- LateWrites`): `block_id` advances before the write, so a block whose
  write failed is acknowledged as a retransmit when the client sends it again
  because the negative answer was lost or late, and the image is confirmed with a
  hole.
* `scripts/ardep_commands/uds_dfu.py`: with `N = 2`, `MaxRetries = 2`,
  `MaxRuns = 6` and `MaxQueue = 5`, `AckedExactlyOnce` fails: answers that earlier
  runs left in the channel are taken for those of the current one, run after run.
  With `MaxQueue` up to 4, Zephyr's default for `CONFIG_ISOTP_RX_SF_FF_BUF_COUNT`,
  it holds for all constants (`BlocksWrittenOnce`).
* `samples/uds/src/routine_control.c`: a stop that comes after the last turn is
  answered, and the routine still ends as a success. The routine sleeps in the
  system work queue and holds up every other user of it.

LIN and CAN.

* `lin_scheduler.c:46`: with `Serialized = FALSE`, `QuietWhileDisabled` fails:
  the decision to take the semaphore is made from an index read without it.
* `lin_scheduler.c:53`: setting the table that is already active starts it again;
  done often enough the entries at its end are never sent. `QueuesDrain` asks that
  the table is left alone for this reason.
* `abstract_lin.c:160`: `CallsRegistered` of `LinNetwork` fails: an interrupt
  between the counter and the fields of a slot finds the old contents of the slot,
  or a new id with an old callback.
* `lin2can.c:186`, `:213`: callback and user data of a filter are two stores; an
  interrupt in between passes the wrong user data. Not modelled apart.
* `lin2can.c:255`: the mapped id is put into the two top bits of the first byte,
  whatever they hold: a frame without data, or one that is not ISO-TP, comes out
  changed. `CanFrames` has ISO-TP frames only.
* `can_router.c:42`: `can_add_rx_filter` returns a filter id, and any id but 0 is
  taken for an error: the second filter on one controller ends the registration of
  all later routes. The gateway sample has one route per controller.
  `RoutesInstalled` states exactly which routes stand then.
* The schedule of the gateway sample has slots of 5 ms; a frame of eight bytes at
  19200 baud takes longer. Time is not modelled.
* `can_log.c:71`: a transmit callback after the timeout releases the wait of a
  later frame. `LogPaced` counts these waits.

Shields.

* `power_io_shield.c:211`: callbacks run while the semaphore is held; one that
  uses the driver waits for itself.
* `power_io_shield.c:214`: `LevelServedAlways` fails (`PioMaxCalls = 3`,
  `PioInputs = {0}`): a level interrupt that is disabled and enabled again around
  a run of the handler leaves INT asserted, with no edge to come.
* `InterruptClearedStacked` fails: stacked shields share an edge-triggered INT
  line; while the other one holds it, an interrupt of this one makes no edge
  (`boards/shields/power_io_shield/doc/interface/index.rst:30`).
* `power_io_shield.c:266`: `OnlyMaskedChange` fails: a write of one output sends the
  cached register, which is not the latch when only the processor was reset
  (line 574: `power_io_shield_init` writes IOCON and IODIR and leaves the outputs)
  or after a pin was read that is held at another level (line 238). The other
  outputs change with it. `ChipAsAsked` excepts them.
* `power_io_shield.c:574`: an interrupt that was left enabled at the reset is not
  cleared or disabled until interrupts are configured; `InterruptsServed` asks for
  none (`hist.clean`).
* `power_io_shield.c:562`: the interrupt of the INT line is enabled before
  `k_work_init` and `k_sem_init` (593-597). If the work queue gets to the item in
  between it has no handler (`NullWork`); an item that is initialized while it is
  queued is taken to stay queued, which Zephyr does not promise.
* `power_io_shield.c:225`: reading the port clears the chip's interrupts; an edge
  that was pending is lost. So is a second edge between the reads of INTF and
  INTCAP, and a failed read leaves INT asserted.
* `power_io_shield.c:290`: a failed `pin_configure` leaves the new value in the
  cache, which the next write sends.
* `power_io_shield.c:484`: a failure to submit the work is stored in an inner
  `ret` that hides the one returned.
* `hv_shield.c:142`: overlapping calls can undo each other, and a failed transfer
  leaves the copy changed. `DirectionsAgree` excepts overlapping calls and allows
  either direction after a failure. A transfer that ends in the middle, and a
  caller of the public `hv_shield_set_gpio_output_enable` other than the GPIO
  driver, are left out.

## 6. Not modelled

* CAN, LIN and flash drivers, file system, retained memory, MCUboot, the MCP23017,
  Zephyr's kernel and the iso14229, ISO-TP and udsoncan libraries are external.
  They appear as what the code uses of them: calls that may fail, queues, mutexes,
  registers, one receive buffer.
* Contents of messages other than the bytes the control flow or a property looks
  at, timing other than the order of events, and logging.
* The sample's DTC and session handlers, which log or answer constants;
  the cryptography of its authentication (a proof is right or wrong); the other
  samples.
* `manage_callback` of the shields, DAC values, pin levels (`input_map` masks their
  reading) and interrupts of the HV shield, the emulator of the power IO shield,
  capability and mode calls of the bridge: passed on, refused or constant.
* USB and USB DFU, gearshift and encoded GPIO, iso14229 glue, boards: no state or
  no logic of their own.
* In UdsLegacy, requests its client never makes; one of them ends the server
  thread (`uds.c:387`).
* The calls of the LIN scheduler before its thread has run.

## 7. Plan

Done, in this order: the services that write flash, what can stop the server, what
spans a reboot or a channel, then the LIN stack with its abstract channel, the
services and the sample on the dispatch, and the drivers.

Then the proofs of the safety properties, component by component, those of
`UdsRegistry`, of the macros and of `UdsLegacy` last. What section 4 lists as only
model-checked is left, and so are a second caller of the LIN scheduler and partial
SPI transfers.

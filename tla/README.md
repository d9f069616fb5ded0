# Verification of the K230 RT-Smart libraries

TLA+ models of the parts of this repository whose correctness depends on what
several threads, a device or a clock do at the same time; TLC runs that check
them on small instances; TLAPS proofs of the results that matter most, for every
value of the constants.  `PROJECT.json` lists components, runs, the source lines
behind every definition, the hazards and the theorems.

How to check, in this directory:

    tlc -workers 2 -config MC_NplEventq.cfg MC_NplEventq
    tlapm NplEventqProofs.tla

## 1. Inventory

The repository is the user-space library collection of the K230 RT-Smart SDK.
It has no central program: applications link the libraries they need, so each
library is a component, and the components meet in a few places (section 1.7).

### 1.1 NimBLE porting layer, OS part (`3rd-party/nimble/port/src/nimble_npl_os.c`)

The Bluetooth host stack runs on event queues, callouts, mutexes, semaphores and
critical sections that this file builds from POSIX threads.

* **Event queue.**  State: an intrusive linked list (`head`, `tail`,
  `event->next`, `event->queued`), a mutex, a condition variable.  Operations:
  `get` (with a timeout), `put`, `remove`, `event_init`.  Hard: one signal per
  event, threads that steal an event from the one that was woken, time-outs and
  spurious wake-ups, unlinking at either end.  Correct means: the list is a FIFO
  queue, no event waits while everybody sleeps, a timed get returns.
* **Callouts.**  State: a global list, per callout `active`, `deadline`,
  `listed`; one worker thread.  Operations: `init`, `reset`, `stop`,
  `remaining_ticks`.  Hard: 32-bit time that wraps, a wait on CLOCK_REALTIME for
  deadlines on CLOCK_MONOTONIC, the lock released between claiming a callout and
  delivering it.  Correct means: never early, once per arming, never forgotten.
* **Mutexes, semaphores, critical sections.**  Thin wrappers; not modelled yet.

### 1.2 HCI transport (`3rd-party/nimble/port/src/hal_uart.c`) and HAL HCI driver (`rtsmart_hal/drivers/hci/drv_hci.c`)

State: the open device, a receive thread, a transmit lock and a packet buffer.
The host pushes bytes; `hal_uart_start_tx` draws them one by one through a
callback, finds the packet boundaries again and hands whole packets to the
driver, which tests them and writes them, waiting for room.  The receive thread
polls, reads and calls back.  Hard: concurrent senders, packets at the size of
the buffer, close while the thread is in a poll or in the callback.

### 1.3 4G modem (`rtsmart_hal/components/modem/hal_modem.c`)

State: the tty and its reader thread, a capture buffer, the GPIO pin REQ_READY, a
PMU handle, the IMEI cache.  Operations: `modem_init`, `modem_deinit`,
`modem_wake`, `modem_dial`, `modem_get_imei`, `modem_enter_edrx`.  Hard: a modem
that answers late, never, or disappears; three waits against one deadline.

### 1.4 WLAN offload client (`wlan_offload/`)

State: a descriptor and an atomic request counter, shared by threads.
Operations: queries, commands, responses, `receive_event`; encoders and decoders
for every request and event.  Hard: poll and read are two steps on a shared
descriptor; answers, late answers and events come in one queue; `size_t` lengths
go into 8- and 16-bit fields; channel geometry.

### 1.5 HAL drivers (`rtsmart_hal/drivers/`)

GPIO, timers, SPI, UART, I2C, input, PMU and power management, ADC, PWM,
temperature sensor, watchdog, pin multiplexer, SBUS, rotary encoder, touch,
WS2812, one-wire, FFT, gzip, PUF security.  Most are an `*_inst_create` /
`*_inst_destroy` pair around a descriptor and functions of one ioctl each.  The
ones with state of their own:

* **GPIO.**  One descriptor with a count for all instances, under a lock; per
  instance the level and the mode it remembers, by which calls are skipped;
  interrupts that come as signals, eight of which are dealt out to all
  registrations and whose value is the address of the instance.  Hard: two
  instances of a pin, signals reused, signals on their way when an instance or a
  handler goes.
* **Timers.**  Hard timers with a signal each, one soft timer on SIGALRM, `started`
  flags; nothing is locked.  Hard: destruction with a call that fails, a flag that
  is tested at the start of a create and set at its end.
* **SPI.**  Handles share a controller that keeps one configuration; `g_handle_id`
  names the handle it belongs to.  Hard: the lock covers the choice, not the
  transfer, and not the CONFIG of a create; `cs_status` tracks a pin others drive and
  whose writes may fail unnoticed.
* **Input.**  A descriptor bound to a slot whose device may be replaced, the
  remembered information, `button_state` across frames.  Hard: replacement
  between any two system calls.
* **SBUS.**  Sixteen fields of eleven bits across byte boundaries.
* **PMU.**  The power key comes as a signal that an instance blocks, registers,
  fetches with sigwait and gives back.  Hard: registrations that fail half-way or
  share a signal, signals on their way when the mask is restored.
* **ADC** (a count without a lock): not modelled.

### 1.6 LVGL port (`3rd-party/lvgl/port/`), and the rest

* **Display** (`lv_k230_display.c`).  Three frame buffers go round between LVGL,
  which draws the rows that changed, and the video output VO, which shows one
  frame, keeps one for the next refresh and drops it when another is pushed.
  State: `last_buffer`, the range of dirty rows, for each buffer the range of rows
  it missed, the layer's configuration, `reconfigure_failed`.  Operations: create,
  delete, change of the colour format (new buffers, rollback), render start,
  flush, refresh request.  Hard: VO owns buffers for as long as it likes and may
  refuse any call; a buffer is several frames behind when its turn comes.  Correct
  means: no buffer VO owns is written or freed, every frame pushed is up to date,
  rendering stops while there is no layer and starts again, nothing waits for good.
* **Keypad** (`lv_k230_input_hid.c`).  State: shift and caps lock, the key each
  code was pressed as, a queue of 32 key events.  Hard: frames that overrun the
  queue, modifiers that change between press and release, keyboards replaced with
  keys held.
* **VG-Lite buffers, image conversion, touch**: a registry of buffers with an
  address cache, pixel arithmetic, one sample per call; not modelled.

`components/`: network management, OTA, board information, system calls (one
ioctl or system call per function), VG-Lite (the chip vendor's driver).
`3rd-party/`: vendored libpeer, libwebsockets, mbedtls, Tuya SDK and their build
glue.  `nncase/`, `openblas/`, `opencv/`: headers and prebuilt archives.

### 1.7 Interactions

* The callout worker puts events on an event queue; the host task takes them and
  runs their handlers, which reset and stop callouts.
* The NimBLE host sends through `hal_uart_start_tx`, which writes through the HAL
  HCI driver; the receive thread calls back into the host.
* The modem component uses GPIO (REQ_READY), the PMU (shutdown) and network
  management (default device, DHCP).
* The LVGL keypad reads frames of the HAL input driver, which replaces an
  unplugged device without telling; the LVGL display asks the renderer whether its
  buffers are cached.
* GPIO asks the pin multiplexer; SPI creates a GPIO instance for its chip select;
  GPIO and the timers divide the real-time signals.

## 2. Modules and how they correspond to the code

| Module | Models | Level of a step |
|---|---|---|
| `NplEventqAbs` | what an event queue promises: a FIFO that gives each event to one thread | one operation |
| `NplEventq` | `ble_npl_eventq_*`, `ble_npl_event_init` | one critical section of the queue's lock |
| `NplCallout` | `ble_npl_callout_*`, `callout_worker`; delivers into `NplEventqAbs` | one critical section of `callout_lock`, one delivery, one tick |
| `HciTransport` | `hal_uart_*`, `hci_rx_worker`, `rtsmart_nimble_hci_set_device`, `drv_hci_*` | one call of the device or of a callback, one byte drawn |
| `ModemAt` | `at_reader_fn`, `at_cmd`, `at_capture`, `at_ready`, init, deinit | between two accesses to what the threads share |
| `ModemWake` | `modem_wake` with `wait_until`, `modem_enter_edrx` | one test of a predicate, one sleep |
| `WlanSession` | the handle, `next_request_id`, `send_command_id`, `read_message`, the queries | one atomic increment, one system call |
| `WlanChannel` | `channel_geometry_valid`, `channel_to_wire`, `channel_from_wire` | one conversion |
| `WlanMessages` | the length tests of every request and of `decode_event` | one message |
| `Gpio` | `drv_gpio_*` | one critical section of `gpio_lock`, and each half of `register_cnt++` |
| `HalTimers` | `drv_hard_timer_*`, `drv_soft_timer_*` | one call, a soft create in two steps |
| `SpiBus` | `drv_spi_*` | one critical section of the controller's lock, one ioctl outside it |
| `InputDevice` | `drv_input_*` | one system call |
| `PmuKey` | `drv_pmu_inst_*`, `drv_pmu_key_*` | one system call |
| `SbusFrame` | `sbus_*` | one call |
| `LvDisplay` | `lv_k230_display_create`, `k230_display_reconfigure`, `prepare_draw_buffer`, `flush_cb`, `event_cb` | one event of LVGL, one area, one wait, one refresh of the panel |
| `HidKeypad` | `lv_k230_hid_keypad_read_cb`, `lv_k230_hid_collect_key_events` | one frame read, one event of it looked at, one delivered |
| `MC_*` | constants for TLC.  `MC_Modem`, `MC_Drivers` and `MC_Codecs` put modules that share no variable side by side, so that one run explores all of them: a step is a step of one of them | |
| `*Proofs` | theorems (section 5) | |

`NplCallout` composes the callouts with the event queue through its abstract
specification, which `NplEventq` is proved to implement.  `ModemWake` uses
`ModemAt` by the duration and the result of a command.  `HciTransport` holds the
transport and the driver under it.

**Event queue.**  `head`, `tail`, `next`, `queued` are the code's fields; the
memory of an event holds anything until `EventInit`.  `Get` is the part of
`ble_npl_eventq_get` up to its wait, `WaitExpires` and `SpuriousWakeup` end the
wait, and `Resume` is the part after it (`WokenTakes`, `WokenGivesUp`,
`WokenWaitsAgain`); so a thread that was signalled still has to win the lock.
`order` is history: the events put and not yet gone.

**Callouts.**  `Claim` disarms the first due callout of the list and releases the
lock; `FireToQueue` or `FireRuns` delivers it; `Sleep` computes the wait;
`RealtimeSet` is somebody setting the clock.  `left` (the true remaining time)
and `budget` (runs accounted for by resets) are history.

**HCI.**  Bytes are numbers below `Base`, and `PacketSize` is computed from them
as in the code, so that a lost boundary can make a parameter look like a packet
type.  `DrainByte` is one round of the loop in `hal_uart_start_tx`; `Write`,
`PollOut` and `Rewrite` are the driver's write with its wait for room.

**Modem.**  The tokens the modem sends carry, as history, the number of the
command they answer.  The steps of the reader are split at every access to
`at_reopen`, the tty and `at_buf`; the caller's `at_cmd` at the write, each look
at the buffer and the end of the capture.

**WLAN.**  `Draw` and `Redraw` are the two atomic increments of
`next_request_id`.  `Poll` and `Read` are separate, and the descriptor blocks, as
the code opens it.  Lengths in `WlanMessages` are reduced modulo the width of
their field where the code assigns them.

**GPIO.**  `inst` holds what `drv_gpio_inst_t` remembers; `latch`, `kmode` and `kirq`
are the kernel's view of the pin.  A create is split at the open, the destruction
of an instance it replaces and the allocation; a registration at the two halves
of `register_cnt++` and at SET_IRQ.  `doubt` and `lapses` are history: the causes
for which what is remembered may be wrong, or a signal may miss its instance.
`DropHandler` restores the default action, because `sa_sigaction = NULL` writes
the word that `sa_handler = SIG_IGN` wrote before it.

**Timers.**  `irqOf` is the instance the kernel signals, `ticking` the POSIX timers
that count.  `SoftCheck` and `SoftCreate` are the two ends of
`drv_soft_timer_create`.  `slips` is history, as `lapses` is.

**SPI.**  `owner` is `g_handle_id`, `kcfg` what the controller was told last.
`TransferLocks` is the critical section of a transfer, `TransferRuns` the RW
behind it; `CreateNumbers`, `CreateConfigures` and `CreateRecords` are the unlocked
tail of a create.  `raced` and `overtaken` record that a CONFIG fell into one of
the windows the lock leaves open, `csDoubt` that something else drove the pin, or
that a write of it failed: the driver ignores what `drv_gpio_value_set` returns
(`drv_spi.c:165`, `:167`, `:493`, `:496`, `:501`), so `GpioValueSet` gives the outcomes
of a write, done or not, and `PinLeft` takes one of them.

**Input.**  `dev` is what sits in a slot now, `info` what the instance remembers.
`Find` and `Reopen` are two steps, between which the device may be replaced.
`heard` (history) is what the events read from the device that is in the slot now
say; `kept` (history) that a device left the slot with a button held, which
`button_state` keeps until an event of the button or a disconnection.

**PMU.**  `mask` is the thread's signal mask, `notify` what the kernel was asked to
send, `told` (history) the instances signalled for a press not fetched yet.
`BlockSignal` and `RegisterNotify` are the two system calls of a registration,
`UnregisterNotify` and `UnregisterEnds` those of its end, `WaitSignal` and
`ReadRequest` those of a wait.

**SBUS.**  A number is the set of its one bits, so that shifting and masking are
exact and no width is lost.

**LVGL display.**  A buffer is the set of its rows that hold what was rendered
last (`current`), less those that are still in the CPU's cache or the GPU's queue
(`unwritten`); a range of rows is the set of these rows.  `RenderStart` is
`prepare_draw_buffer` up to its wait, with VO free to say EBUSY also of a buffer it
does not own; `Prepared` is the rest of it.  `FlushArea`, `FlushDropped` and
`FlushLast` are `flush_cb` by its returns.  `ConfigureFailures` are the layers that
the three calls of `k230_display_configure_osd` leave behind when one is refused;
`Reconfigure`, `RolledBack` and `RollbackFails` are the three ends of
`k230_display_reconfigure`.  VO's layer gives its frames back when it is disabled;
that is how the code uses it.  `drawn` and `lost` are history.

**LVGL keypad.**  `CollectFrame` is a successful `drv_input_read_keyboard_frame`, and
chooses how many of the waiting events it brings.  `CollectShift`, `CollectCaps` and
`CollectKey` are the loop over them, one event each; only the keyboard moves in
between, and the frame is out of its reach.  `seen`, `missed` and `torn` are history:
what LVGL was told, which presses the queue lost, and that a keyboard went with keys
held or events unread.

Outside the repository, and modelled by how the code uses it: the modem, the
controller's bytes, LVGL's rendering, the video output, the keyboard, the host's
transmit queue, the kernel side of the WLAN control device, the default network
device, the pins, timers, signals and input devices of the kernel.

## 3. Runs

| Run | Instance | Shows |
|---|---|---|
| `eventq` | 3 events, 2 threads, 94 000 states | the list is the FIFO (`ListIsOrder`, `ImplementsFifo`), no lost wake-up, every event leaves, timed gets return |
| `callout` | 2 callouts (one queued), clock modulo 6, lag up to 2, CLOCK_REALTIME set, 118 000 states | never early, a sleep covers the earliest deadline and `remaining_ticks` tells the true time across the wrap, one run per arming, due callouts are served |
| `hci` | 2 senders, 2 packets of 6 shapes, 2 devices, 177 000 states | packets whole and in order, driver and transport agree on their size, none stranded or sent twice, close and start_tx return |
| `modem` | 2 commands, 3 unread tokens, buffer of 2; budget 6, probe 2, dial 4, poll 1; 465 000 states | the modem never stalls for good, deinit returns; the wake is bounded |
| `modem_stale` | the AT channel with 2 unread tokens | **violated**: `OkIsForThisCommand` |
| `wlan` | 2 threads that do everything, ids modulo 5, 1.3 million states | ids in use distinct and not 0, a query succeeds only with its own answer, calls with a timeout return as long as no two threads read at a time |
| `wlan_shared` | 2 threads read | **violated**: `TimedReturns` |
| `codecs` | all widths, 16 frequencies; 19 lengths for every part; SBUS values at the edges of a byte and of eleven bits; a keyboard with a letter, a special key, shift and caps lock, queue and frames of 2 events; 5.1 million states | exactly the proper channels pass and come back unchanged; exactly the messages that fit pass; every SBUS frame has the layout of the protocol; no key stays pressed, and a key is released as it was pressed |
| `drivers` | 2 GPIO handles on 2 pins and 2 signals, 2 owners of timers, 2 SPI handles, 2 PMU instances, 832 000 states | descriptor count, remembered levels and modes, signals that find their handler and instance, one soft timer, transfers under their own settings, `cs_status`, the power key's signal and mask |
| `input` | 2 slots, 3 devices of 2 kinds, frames of 2 events, 219 000 states | buttons are those of the device in the slot, unless one left it with a button held and the driver could not tell yet; a replaced device is noticed |
| `lv_display` | screen of 2 rows, 4 colour formats, frames of 1 or 2 areas, 784 000 states | no buffer of VO is drawn into or freed, pushed frames are current, rendering follows the layer, a render whose last frame VO took gets a buffer |
| `lv_display_wait` | frames of 1 area | **violated**: `EveryRenderProceeds` |

### Bounds, and why they are enough

* Three events make a list with a first, a middle and a last element; two threads
  make one that sleeps and one that steals.  The theorems of `NplEventqProofs`
  lift both bounds.
* The clock of `callout` wraps inside every behaviour, and the initial time is
  any; `TicksArgs` and `MaxLag` stay below half the modulus, as intervals in the
  code must stay below 2^31 ms.  `MaxLag` also bounds how far the setting of the
  clock makes the worker oversleep; the code has no such bound.
* Two packets are enough for one to be drawn while the other is pushed or
  written, by the same sender or by two.  The shapes sit at the limits: a full
  buffer, one byte more, a two-byte length, flag bits above the ISO length, a
  type that is not sent.
* Two commands are enough for the first one's answer to meet the second.  Three
  unread tokens exceed a buffer of two, in one chunk or several.
* Ids modulo 5 pass 0 from the starting points that matter (the liveness part
  starts within two of the wrap); a session never uses an id twice (assumption
  `SessionAssumption`; 2^32 commands in the code).
* In `modem`, the durations of commands reach beyond what is left of the budget.
  `HalDriversProofs` lifts the numbers.
* `drivers` explores four drivers that share no variable, one per behaviour while
  the others stay in their initial states, so what each may do is bounded by its
  own constants.  A constraint ends a behaviour where the properties promise
  nothing more (two causes recorded, a race over the bus), lets one SPI transfer be
  overtaken or one chip select be in doubt but not both, since the first is about the
  bus and the second about the pin, and keeps levels and
  interrupts of GPIO, and hard and soft timers, in behaviours of their own, since
  neither reads what the other writes.  Two handles make two instances of one
  pin and two of different pins; the signals are fewer than the registrations, so
  that they are reused.
  Handles, pins and SPI settings are symmetric: they are only compared.
  Several of these properties except, through a history, the very defect of their
  hazard (a signal shared by two registrations, a write that failed): they say that
  nothing else breaks what they state, not that the defect is harmless.
* In `input`, frames are shorter than the events that can wait, so that a frame is
  cut by its end, by the lack of events, by its size and by the device going.  Two
  devices of one kind are needed for a replacement that only the remembered
  information tells apart.
* Two rows are the least that make a range of rows miss something; the theorems of
  `LvDisplayProofs` hold for every height.  Pools are numbered from a set of two,
  because at most two exist at a time and a freed number may come back.  Two of the
  four colour formats share a pixel format, one has none.
* In `codecs`, which explores the codecs and the LVGL keypad one at a time, a frame
  of keys is as long as the queue, as in the code, so a frame read behind another
  pushes events out.  Two events wait at most, which is a whole frame.  The
  constraint `PlainOverrun` ends a behaviour where a press is lost while shift or
  caps lock is on, so an overrun is explored with both off.  The theorems of
  `CodecProofs` lift the sizes and the constraint.  One shift key stands for both; see
  section 6.

Deadlock is checked except where a behaviour really ends: the modem after the
power went, an LVGL thread that called abort(), a conversion that is done, a WLAN
session whose calls are used up, counted calls and registrations that are used up.

### Fairness

* `eventq`: a thread that is out of its wait gets the lock, a finite wait ends,
  and the host task calls get again and again, as its loop does.
* `callout`: the clock runs; the worker thread and the host task are scheduled
  and the handlers return.
* `hci`: threads are scheduled, polls end at their timeout.  Nothing is assumed of
  the controller or of the host's pushes.
* `modem`: both threads are scheduled and the waits of `at_cmd` end; nothing is
  assumed of the modem or its port.
* `wlan`, `wlan_shared`: the threads are scheduled and polls end; the
  kernel owes no answer.
* `input`: a call under way goes on, and the application keeps polling and reading
  (strong fairness of its calls: the loop comes back to them, and a poll is not
  interrupted by a signal, nor a device replaced, at every single slice).
* `lv_display`, `lv_display_wait`: the panel is refreshed while VO has a frame for
  it (its clock runs), and a wait ends once VO has released the frame.  Nothing is
  assumed of LVGL, so a violation does not come from a thread that is not run.

Except for strong fairness in `input` and the panel's clock, all of it is weak
fairness of one thread's own steps, which a preemptive scheduler gives.

## 4. Findings

* `modem_stale`: `at_cmd` takes any `OK` that reaches the buffer while it
  captures.  The late `OK` of a command that timed out, or a chunk the reader had
  read and not stored when the next command emptied the buffer, answers that next
  command; a dial nobody accepted can be reported as accepted.
* `wlan_shared`: `read_message` polls with a timeout and then reads a blocking
  descriptor; if another thread of the same handle takes the message in between,
  the call with a timeout waits without one.
* `lv_display_wait`: when VO releases no buffer, `prepare_draw_buffer` waits without
  a timeout for a buffer chosen by its index.  After a refused push the two buffers
  besides `last_buffer` are the one shown and the one that follows; waiting for the
  latter never ends, since nothing replaces it on the panel.

Three more behaviours a reader of the code may not expect are what the passing runs
leave room for:

* `wait_until` looks at the deadline only after a failed test, and the test of the
  dial phase is an AT command with a timeout of its own; a wake can come back,
  successful, about half a minute behind its budget.  `LongestWake` has the bound.
* A WLAN query consumes the next message and fails if it is not its answer
  (`wlan_offload_client.c:460`); its own answer stays behind and can make the next
  query fail the same way.  `AnswerIsMine` is that it never succeeds with another's.
* A frame that `flush_cb` drops because the GPU did not finish
  (`lv_k230_display.c:507`) is not noted in the other buffers, and LVGL does not
  render it again; its rows are missing from the next frame unless that takes the
  same buffer.  They are the set `lost` that `FramesAreCurrent` excepts.

## 5. Proofs

* **`NplEventqProofs`**, for any finite sets of events and threads.  The inductive
  invariant is `IInv == TypeOK /\ ListIsOrder /\ FlagIsMembership /\
  NoLostWakeup`.  No conjunct is inductive alone: unlinking is right because the
  list spells out `order` without repetition, put may link because the flag tells
  membership, and a get may go to sleep because an empty `head` means an empty
  `order`.  There is one lemma per action.  The walk of `remove` is defined as
  the least set closed under `next`; `VisitedIsOrder` shows that it is the list.
  From `IInv` follow `TypeCorrect`, `ListCorrect`, `FlagCorrect`, `WakeupCorrect`
  and `FifoCorrect`, the refinement: each step is a step of `NplEventqAbs` or
  leaves its queue alone.  Assumptions: NULL is no event, both sets are finite.
* **`NplCalloutProofs`**, for any set of callouts, any even width of the clock and any
  tick arguments and lag below half of it.  None of the properties is inductive.
  `Armed` says that the deadline of an armed callout is where an unbounded clock has
  it, less than half a turn away, so that the signed 32-bit difference is the true
  one; `WaitFits` that while the worker sleeps its wait ends before every deadline;
  `QueuedOnce` that the queue holds an event once, without which a delivery could not
  be charged to one reset.  `WaitIsShortEnough`, `RunsCounted` and `ClaimsNotEarly`
  follow.  The half-turn limits are named assumptions (`TicksAssumption`,
  `LagAssumption`): beyond them the code is wrong.
* **`HciTransportProofs`**, for any finite set of senders, any packets, byte base and
  buffer size.  `Assembled` says that the packets handed to the driver, the bytes drawn
  and the bytes in the queue together are what the host pushed: there are offsets
  (`Split`) at which the packets lie in the bytes, which avoids a recursive
  concatenation.  `PrefixSize` shows that a beginning of a valid packet is never taken
  for a whole one, `SizeIsValid` that what is complete passes the driver's test.
  `LockHeld` keeps senders apart, `OnWire` orders the writes.  From `HciInv` follow
  `PacketsAssembled`, `DriverAgrees` and `NonePending`.  Assumptions
  (`HciAssumption`): packets are bytes, and the buffer is smaller than SIZE_MAX.
* **`WlanSessionProofs`**, for any finite set of threads and any width of the id.  The
  ids in use are those of the last increments of the counter.  `Counted` bounds the
  number `n` of increments by the calls made, plus the one that draws 0 again;
  `HeldIds` and `Messages` say that ids in use, in the kernel and in the queue are at
  most `n` increments old, hence different, and that the holder of an answer's id is the
  call it answers.  `IdsAreDistinct` and `OwnAnswers` follow.  Assumption: a session makes
  fewer calls than there are ids (2^32), `MaxCalls + 2 <= Modulus`.
* **`CodecProofs`**.  Channels, for every frequency, band and width:
  `OffsetIsDistance` relates the offsets listed in the code to the 20 MHz channels of a
  block; `GeometryIsProper` concludes that the code's test is the standards' geometry;
  the invariant of the conversions then gives `CodecRoundTrip` and `CodecExact`
  (from `CodecAccepts` and `CodecRefuses`).  Messages, for lengths of any size:
  `RequestPartsOK` and `EventPartsOK` compare each limit that is tested with the room
  behind it and the width of its count field; `MessagesExact` concludes that exactly
  the messages that fit pass, and no count is cut.  SBUS, for all channels of eleven
  bits: `PartBits` numbers the bits of the payload through and says that the three
  shifts put bit x of channel i at 11 i + x, so that no two channels meet
  (`FrameBits`); `SbusFrames` concludes that layout and decoder agree.  Keypad, for any
  keys and any sizes of queue, batch and frame: `HidInv` says of the events that wait
  that, with no key held, the last typed one is a release (`AllUp`; `LastIsUp` where a
  keyboard was torn off), and that the releases and presses of a code alternate in them
  and in `translated_keys` (`FirstRelease`, `Alternate`, `HeldOnce`, `HeldAgain`); and
  of the queue that a release in it is of the key that LVGL will have pressed by then
  (`QueueShown`), while `translated_keys` is what LVGL has pressed after all of it
  (`TranslatedShown`).  `ReleasedAsPressed` speaks of the head of the queue only and
  `QuietIsReleased` of an empty one; neither is inductive alone.  `QuietKeys`,
  `ReleasesMatch`.
* **`GpioProofs`**, for any finite set of handles, any pins, any number of signals.
  `GpioInv` adds to the properties where a call may be (`CallsFit`), that signals dealt
  out once are below `register_cnt`, owned once and handled (`SignalsDealt`), and that
  an interrupt and a signal under way are of a registered instance (`IrqsServed`).
  `DescriptorCounted`, `CachesRight`, `ArmedStays` and `GpioSignalsServed` follow; the
  last three use `doubt` and `lapses` as the properties do, and so say that the causes
  recorded there are the only ones.
* **`HalDriversProofs`**.  Each driver has its own invariant.
  * SPI, for any handles, settings and number of creates: that the bus serves the
    handle named by `g_handle_id` must hold at the unlock already.  `SpiInv` adds, as
    long as no race was recorded, that numbered handles have different ids below
    `idx` (`IdsApart`), that a create between its CONFIG and its recording is served
    (`ConfiguredServes`), and that else the bus serves the live handle whose id is
    recorded (`OwnerServes`).  `CsInv` adds that `gpio_cs` remembers nothing or the
    inactive level, the latter where the pin is not in doubt, and that a transfer takes
    an unselected chip; `PinLeftKeeps` covers each outcome of a write.  Theorems `OwnSettings`,
    `ChipSelectKnown`.
  * Timers, for any owners and timers: `TimerInv` says that a timer has one instance
    and its interrupt is set for that one.  `HardSignalsServed`, `OneSoftTimer`.
  * PMU, for any instances and signals: `MaskFits` relates the thread's mask to the one
    it came with and the signals that are held, `NotifyFits` the kernel's
    notifications to the registered instances, `ToldFits` a press to the signal that
    brings it.  `PressKept`.
  * Modem wake, for every budget, poll interval and command length: `WakeBounded` does
    not say when a test may start; `WakeInv` adds that a sleep begins before the
    deadline and that the test of each phase starts no later than the deadline, one
    poll, and the overrun of the phases before it.  `WakeIsBounded`, `WakeTypes`;
    `DarkBoard` needs that the cut is only reached with the pin low, or after a write
    of it failed, which `req_ready_set` does not report (`refused`, a history).
  * AT channel, for all sizes of the buffers and any number of commands: `CaptureFits`
    says that `at_capture` stays within `at_buf` whatever the chunk, hence `AtTypes`.
    `AtLife` relates `at_started`, the reader, the port and the capture to where the
    caller is; `NothingLeftBehind` follows: after `modem_deinit` there is no thread, no
    open port, no handle and no capture, and before it a started reader stays in its
    loop.
  * Input, for any number of slots and devices and any frame buffer: `Follows` says
    that what was heard of the device in the slot, or kept of one that left it with a
    button held, is `button_state` with the events of the open frame applied.
    `ButtonsAreDevices`.  `Pressed` looks at the last button event of a frame, so that
    no induction over the frame is needed.
* **`LvDisplayProofs`**, for every height of the screen and every set of colour
  formats.  `FramesAreCurrent` speaks of the last buffer only and is not inductive;
  `ContentOK` says of every buffer that a row which is not current in it is among
  the rows it will be given, was rendered for the frame at hand, or was lost
  (`Missed`), and of a display without a last frame that everything is still to be
  rendered.  `CacheOK` says where rows may be unwritten, `LayerOK` what the layer
  is and holds, `TimerOK` when the refresh runs, `PhaseOK` where the thread is.
  One lemma per action; lemmas on ranges of rows (`SpanHolds`) and on what VO holds
  after each call.  From `DisplayInvariance` follow `PushedIsCurrent`,
  `HeldIsSafe` and `RefreshIsRight`.  Assumptions: the height is
  positive, NONE is neither a buffer nor a frame.

Assumptions on the constants are named in the modules (`ASSUME`) and evaluated in the
runs.  Besides those above they say that the marker of "none" is no instance, pin or
signal, and that the sets that are counted are finite.

Every invariant and every action property that a passing run checks is also proved.
Only model-checked is liveness, `CallsReturn` and `ReplacedIsNoticed` among it
(fairness is out of the prover's reach; that a wake ends does follow from
`WakeIsBounded`, since every sleep takes time).

## 6. Not modelled

The repository is mostly vendored code (mbedtls, usrsctp, libwebsockets, the Tuya
SDK), headers of prebuilt libraries and tables; the models cover the code
that is this repository's own and has state.  What is left of sections 1.5 and 1.6
is listed in `PROJECT.json` with a reason each.  Inside modelled components:

* a second `callout_init` of a callout in use (the code does not check it; the
  stack does not do it);
* `hal_uart_close` during a send (the host does not), the digits of the IMEI, the
  contents of WLAN messages other than channels and lengths;
* the clock being set during a modem wait (`hal_modem.c:80`), and a request to
  reopen the port that falls between the test and the clearing of `at_reopen`,
  which delays the reopening by one probe (`hal_modem.c:150`);
* that an `hal_uart_config` after the receive thread ended on an error answers 0 and
  receives nothing until a close (`hal_uart.c:94`): the model does the same, and no
  property forbids it;
* the settings and callbacks of the timers; the leak of a descriptor when a hard
  timer's instance cannot be allocated (`drv_hardtimer.c:130`);
* the axes of a pointer frame; a device that is replaced by one that never goes
  quiet: `drv_input_poll` looks at the slot only after a quiet slice, which is why
  `ReplacedIsNoticed` is stated under a fairness that lets one happen;
* that a button held by a device which was replaced in its slot by one with the same
  information, or while the instance has no information (it never asked with
  `drv_input_get_info`), stays pressed until the new device sends an event of that
  button (`drv_input.c:209` and `:246` are the only resets): the model does the same,
  and `ButtonsFollowDevice` excepts it;
* `use_hw_cs`, which only `drv_spi_update_config` looks at: a transfer that
  configures the bus after another handle used it selects `cs_pin` again
  (`drv_spi.c:283`).  The model does the same; nothing says which is meant.
* several displays at once (`s_display_count` only guards the deinitialisation of
  the image converter), the buffers of a deleted display whose layer could not be
  disabled (`lv_k230_display.c:577`), `lv_refr_now` called by an application while
  the refresh is paused;
* the one flag for two shift keys of the LVGL keypad (`lv_k230_input_hid.c:434`),
  which is wrong after one of two held keys is let go; and
  `lv_k230_hid_reset_runtime_state`, which nothing calls: shift, caps lock and the
  pressed key of a keyboard that was pulled out stay, as `Replace` has it;
* the pointer of the LVGL input port, which keeps a position inside the screen and
  the state of one button.

## 7. Plan

1. `HalInstances`: creation over an existing instance with every failing step, for
   UART, I2C, ADC, PWM and the rotary encoder, against one abstract
   specification (a handle is whole or absent, and nothing leaks).
2. Semaphores and critical sections of the porting layer, as clients of signals
   that interrupt them (`sem_pend` computes its deadline again after every EINTR,
   `nimble_npl_os.c:241`).
3. The VG-Lite buffer registry and its address cache, which is filled after the lock
   was released (`lv_k230_vglite.c:475`).

# TLA+ models of the openwrt-misc programs

The repository is a collection of independent programs and kernel modules for
small OpenWrt boards: SPI/USB CAN drivers, an I2S audio driver, a TCP proxy,
GPIO helpers, a smart-meter agent and flash programmers.  There is no program
that ties them together, so the verification project is a set of models, one
per driver or daemon that has behaviour of its own.  The largest and most
intricate of them, the transmit path of the MCP25xxFD CAN driver
(`src/mcp25xxfd/src/mcp25xxfd.c`, 4400 lines), comes first, then the rest of
that driver; then the transmit path of `mcp2515-usb`, the two CAN drivers with
one transmit buffer (`sun4i_can`, `mcp2515-banged`), and the two drivers of the
AR934x audio DMA engine (`ath-i2s`, `ath-i2s-qca`).

## 1. Inventory

| Part | State it keeps | Operations | How it interacts | What makes it correct |
|---|---|---|---|---|
| **mcp25xxfd**, transmit | `tx_submitted_mask`, `tx_pending_mask`, `tx_pending_mask_in_irq`, `tx_processed_mask`, echo slots, network queue, `can.state`, `force_quit`, `tef_address` | `start_xmit`, SPI completion `mark_tx_pending`, threaded interrupt `mcp25xxfd_can_ist`, `open`, `stop` | shared masks between the stack, the SPI pump and the interrupt thread; registers and RAM of the controller over SPI | frames leave in order, a FIFO is not reused early, the queue wakes and only when idle, echo frames match transmissions |
| mcp25xxfd, receive | `rxb[]`, receive FIFO bookkeeping | `handle_rxif`, read and queue objects | same interrupt thread | no object read twice or lost, `rxb` bounds |
| mcp25xxfd, FIFO layout | `fifo_address[]`, RAM addresses | `setup_fifo` | module parameters, payload mode | FIFOs fit in 2048 bytes and do not overlap |
| mcp25xxfd, clock and GPIO users | `clk_user_mask`, power and transceiver regulators | `start_clock`, `stop_clock`, `suspend`, `resume`, GPIO request/free | CAN interface and two GPIO lines share one clock | the clock runs while somebody uses it |
| **sun4i_can** | one echo slot, controller mode, error state | `start_xmit`, interrupt loop, `set_mode`, open/stop | one command register written by two contexts | every frame completed once; recovery from bus-off |
| **mcp2515-banged** (and its `-rpi-spi` sibling) | `tx_skb`, `tx_len`, `after_suspend`, `force_quit`, `restart_tx` | `start_xmit`, interrupt thread, bus-off, stop | `mcp_lock` around the bit-banged SPI transfers | one frame in flight; restart works |
| **mcp2515-usb** | transmit contexts, `active_tx_urbs`, echo slots | `start_xmit`, URB completion, close, disconnect | USB core calls back in interrupt context, newest URB first when they are killed | every context is released once, frames are looped back once and in order |
| **ath-i2s** | DMA descriptor ring with OWN bits | `read`, `write`, `open`, `close`, pause | the DMA engine walks the ring on its own | a buffer is touched only by its owner; samples stay in order |
| ath-i2s-qca | descriptor list, elapsed counters | ALSA `pcm` ops, mailbox interrupt | DMA engine, ALSA core | pointer reported matches what was played |
| **micro-proxy** | per-connection process pairs, sockets | accept, connect, forward | fork, shutdown, signals | every byte reaches the other side, nobody is left over |
| **gpio-proxyd** and **gpio-proxy-module** | one static request, mapped GPIOs | UDP commands, `ioctl` | daemon, device file, GPIO core | a caller gets the answer to its own request |
| **sml-snmp-agent** | meter values under a lock | serial reader thread, SNMP responder | two threads, BER encoding | answers are consistent and correctly encoded |
| c2tool, c2t-new, c2t-module | none beyond the device | C2 command and flash protocol | bit-banged pins | polling order, timeouts, verify |
| ath-hs-uart | transmit ring, interrupt mask | tty ops, interrupt | serial core | no lost wake-up of the transmitter |
| the rest | — | vendored drivers and tools, board files, recipes, experiments | — | not modelled, see `PROJECT.json` |

### What is hard in this code

* mcp25xxfd: three contexts (stack, SPI message pump, interrupt thread) share
  four bit masks without a lock; registers are sampled at different moments of
  one SPI read; SPI failures are dropped in some places and returned in others;
  `stop` and `open` clear some of the masks; the set-up of the controller and
  the GPIO lines share the oscillator without a common lock.
* sun4i_can: flags are cleared as they were read, so an event of the same kind
  that came meanwhile is cleared with them; a restart after bus-off races with
  the handler and with `start_xmit`, and writes the state after it has let the
  handler run.
* mcp2515-usb: completion order (counter before context) and a stop of the
  queue that is decided on a stale counter.
* mcp2515-banged: the busy test is outside the lock; the interrupt is an edge,
  so the handler must not end while a flag is set; a restart work item that
  nobody queues.
* ath-i2s: a ring shared with a DMA engine without a lock, calls that sleep in
  the middle of it, a close that waits for the engine.
* ath-i2s-qca: the handler walks the ring twice while the engine goes on, and
  ALSA is told a position found from where OWN changes.
* micro-proxy: half-closed connections; gpio-proxy: one request shared by all
  callers; sml-snmp: values published one by one.

Every hazard is listed in `PROJECT.json` at the line where it bites, with the
property that would catch it or the reason why none does.

## 2. Modules

| Module | Models | Extends / uses |
|---|---|---|
| `CanTxQueue` | abstract: what a CAN driver promises the network stack about transmission | |
| `Mcp25xxfdTx` | mcp25xxfd transmit path, transmit events, error states, open and stop | refines `CanTxQueue` |
| `Mcp25xxfdRx` | mcp25xxfd receive path of the interrupt thread | |
| `Mcp25xxfdFifos` | how `mcp25xxfd_open` divides FIFOs and RAM | |
| `Mcp25xxfdClock` | clock users, supplies, sleep mode, suspend and resume | |
| `Mcp2515Usb` | mcp2515-usb transmit contexts and URB completion | |
| `CanNetDev` | what the two drivers with one transmit buffer share: network stack, CAN core, controller | |
| `Sun4iCan` | sun4i_can: transmission, interrupt loop, reception, error states, restart | extends `CanNetDev` |
| `Mcp2515Banged` | mcp2515-banged: the same with `mcp_lock`, two receive buffers, an edge-triggered interrupt | extends `CanNetDev` |
| `CanSingleBuffer` | both, and what both promise | extends both, refines `CanTxQueue` |
| `AthMboxDma` | one channel of the audio DMA engine and its ring | |
| `AthI2sRing` | ath-i2s: read, write, pause, resume, open, close, handler | extends `AthMboxDma` |
| `Ath79Pcm` | ath-i2s-qca: one ALSA stream, handler, position | extends `AthMboxDma` |
| `AthAudio` | both, and what they promise | extends both |
| `ProofLemmas` | facts about least and greatest elements and sequences | |
| `Mcp25xxfdTx_proofs` | proofs about `Mcp25xxfdTx` | `ProofLemmas` |
| `Mcp25xxfdRx_proofs` | proofs about `Mcp25xxfdRx` | `ProofLemmas` |
| `Mcp25xxfdFifos_proofs` | proofs about `Mcp25xxfdFifos` | `ProofLemmas` |
| `Mcp25xxfdClock_proofs` | proofs about `Mcp25xxfdClock` | |
| `Mcp2515Usb_proofs` | proofs about `Mcp2515Usb` | `ProofLemmas` |
| `CanSingleBuffer_proofs` | proofs about `CanSingleBuffer` | `ProofLemmas` |
| `AthAudio_proofs` | proofs about `AthAudio` | |

There are no separate model-checking modules: the constants of every module
are numbers, Booleans and small sets that a `.cfg` file gives directly.  The
numbers carry an order (FIFOs, frames), so no symmetry is used.

### 2.1 `Mcp25xxfdTx`: transmission

Bit masks are sets of FIFO numbers; a frame is its position in the order in
which the stack hands frames over.  The variables are the driver's own
(`submitted`, `pending`, `inIrq`, `processed` are the four masks of
`priv->fifos`; `echo`, `queue`, `canState`, `forceQuit`), the queue of SPI
messages (`spi`), the registers and FIFOs of the controller, and two histories:
`wire`, what was transmitted, and `confirmed`, what was looped back.

| Code | Actions |
|---|---|
| `mcp25xxfd_start_xmit` | `XmitBusOff`, `Xmit`, `XmitPutEcho` (the echo frame is stored after `spi_async`, so it is a step of its own) |
| SPI pump and `mcp25xxfd_mark_tx_pending` | `SpiComplete` |
| controller and bus (external) | `BusSend`, `BusAbort`, `BusErrorState`, `BusReceive` |
| `mcp25xxfd_can_ist` and what it calls | `IrqStart` … `IrqState`, one step for each SPI transfer; `IrqReadFlags` and `IrqReadRequests` are two halves of one transfer because registers are sampled while they are clocked out; `IrqState` (new state, wake-up) makes no transfer and so does not wait for the messages queued before it; `IrqSleep` is the transfer that follows a bus-off |
| a transfer that returns an error | `IrqSpiFault`, the failing branch of `Xmit`, `OpenFails` |
| a transfer whose error nobody looks at | the `"lost"` branches of `SpiComplete`, `IrqAbort`, `ReadTefEntry` and `IrqSleep` |
| `mcp25xxfd_open`, `mcp25xxfd_stop` | `Open`, `StopBegin`, `StopEnd` |

`start_xmit` may be preempted between `spi_async` and `can_put_echo_skb` for as
long as it likes; `late` records the frames whose transmit event was read
meanwhile.  The 24-bit time stamp is compared as a signed number: transmissions
are numbered, the number is the time stamp, and its sign changes every `TsHalf`
of them; `straddled` records that one pass has read events from both sides of
such a change.  `misread` records that an event was read which was not there,
or which will be read again because its release was lost.

As a queue (`CanTxQueue`) the driver holds the frames of the requested FIFOs,
lowest FIFO first (`InFifoOrder`), and behind them those of the SPI messages in
the order in which they were submitted; its capacity is the number of transmit
FIFOs.

### 2.2 `Mcp25xxfdRx`: reception

An event is a frame that ended on the bus, numbered in bus order; the number,
in a range of 2 `TsHalf`, is its time stamp, compared as the code does, as a
signed number (`SignedTs`); `mixed` records the passes that sorted stamps of
both signs.  The controller fills the highest free receive FIFO (that is
what the filters of `Mcp25xxfdFifos` make of it).  The interrupt thread is
`handle_rxif` in its two forms (`IrqReadOne`, `IrqReadBlock`), the release of
FIFOs (`IrqRelease`), one transmit event (`IrqTef`), sort and delivery
(`IrqSort`, `IrqDeliver`), overflow and the end of the pass (`IrqEnd`).  How
many transmit events the thread reads depends on the masks of `Mcp25xxfdTx`;
here it is any number from one to all of them.

### 2.3 `Mcp25xxfdFifos`: layout

The arithmetic of `mcp25xxfd_setup_fifo` as operators, and the stages of
`mcp25xxfd_open` as actions: clear the filters, choose the layout, set up
transmit and receive FIFOs, read the addresses back, prepare the messages.
Each loop is one step that ends after any number of rounds.  Between opens the
MTU and the module parameter change.  `FifoUA` is where the controller itself
puts each FIFO: behind the transmit event FIFO, the transmit queue (TXQ) if it
is on, and all lower FIFOs, with the object size each of them is configured for.
The TXQ is on after a reset; the write that switches it off may fail and its
result is overwritten (`txqen` in `Open`).

### 2.4 `Mcp25xxfdClock`: clock and supplies

`StartClock` and `StopClock` are `mcp25xxfd_start_clock` and `_stop_clock`
with the guard as it is in the code (see the deviations below).  They are used
by probe, open, stop, bus-off, GPIO request and free, suspend.  `oscdis` is the
driver's copy of the oscillator register and `hwMode` the truth in the
controller.  The set-up of the controller does not hold `clk_user_lock`:
`OpenOsc` (write of the oscillator register), `OpenPoll` and `OpenModes` are
steps of their own, and so is the transfer with which a freed GPIO line puts
the controller to sleep (`GpioFree`, `GpioFreeSleeps`).  `raced` records that a
line was freed during a set-up.

### 2.5 `Mcp2515Usb`: transmission over USB

`XmitTake`, `XmitSubmit` (or `XmitFails`), `XmitCheck` and `XmitStop` are the
steps of `mcp2515dm_bm_start_xmit` between which the completion callback may
run; `UrbDone`, `CallbackEcho`, `CallbackRelease` and `CallbackWake` are the
steps of `mcp2515dm_bm_write_int_callback`.  `Restart` is the CAN core's
restart after bus-off, `Close` and `Closed` are `mcp2515dm_bm_close` before and
after the URBs are killed.  `usb_kill_anchored_urbs` takes the newest URB first
while others still complete in order: when the interface is being closed or the
device is gone (`Unplug`), `UrbDone` may take either end; `killed` has the
frames of URBs taken before older ones.  When no context is free `start_xmit` hands the frame
back and nothing changes, so that branch is no action.

### 2.6 `CanSingleBuffer`: two drivers with one transmit buffer

An image has one of the two drivers: the variable `driver` says which, never
changes, and the variables of the other one keep their initial values.  What
both share is in `CanNetDev`: the queue, `can.state`, echo slot 0, the
controller's transmit buffer and error state, and the histories (`wire`,
`reported` = `tx_packets`, `looped`, `delivered`, `missed`).

| Code | Actions |
|---|---|
| `sun4ican_start_xmit` | `SunXmit` up to `can_put_echo_skb`, `SunRequest` the command |
| `sun4i_can_interrupt`, `_rx`, `_err` | `SunIrqRead`, `SunIrqStatus`, `SunIrqTx`, `SunIrqRx`, `SunIrqErr`, `SunIrqClear`: one step for each register access others can come between |
| `sun4ican_open`, `_close`, `_set_mode` | `SunOpen` and `SunRestart` (both `EnterNormal`) up to the normal mode, `SunStarted` the write of `can.state` that follows, with interrupts on in between; `SunClose` and `SunClosed` (before and after `free_irq`) |
| `mcp2515_hard_start_xmit` | `BangedXmit` outside and `BangedLoad` inside `mcp_lock` |
| `mcp2515_can_ist` | `IstStart`, `IstReadFlags`, `IstReadErrors`, `IstRx0`, `IstRx1`, `IstClear`, `IstState` |
| `mcp2515_open`, `_stop`, `_do_set_mode` | `BangedOpen`, `BangedStop`, `BangedStopped`, `BangedRestart` |
| controllers and bus (external) | `SunTransmit`, `SunArrive`, `SunError`, `BangedTransmit`, `BangedArrive`, `BangedError`, `BangedRecover` |

What is assumed of the hardware and the kernel: in reset mode the Allwinner
controller forgets its request, its receive FIFO and its interrupt flags (it is
a relative of the SJA1000); error counters cross one threshold at a time, and
only a failing transmission leads to bus-off; the MCP2515 returns from bus-off
by itself.  A failing allocation of a socket buffer is a stutter in
`sun4i_can_rx` (the loop tries again) and changes only statistics elsewhere.
The limit of 20 passes of the interrupt loop does not matter: the line stays
asserted and the handler starts again.

`overtaken` records for which kind of event sun4i's handler cleared a flag that
had been set again since it was read, and an error event whose state the end of
`sun4i_can_start` wrote over (`told`).  The properties except exactly these.

### 2.7 `AthAudio`: two drivers of the DMA engine

Again one of two drivers, and one direction of it (`mode`).  The SoC has one
CPU and its kernels are not preemptive, so calls are interleaved only where one
sleeps, and the interrupt handler runs between their steps (`irq = "idle"` in
the guards of the calls); the engine (`Complete`, `Stall`) runs beside both.

In `AthI2sRing` a buffer carries a number (`given` is the last one put in,
`taken` the last one taken out, modulo `Modulus`).  `Begin`, `Wait`, `Signal`,
`Copy`, `CopyFails`, `Finish` are `ath_i2s_wr` and `ath_i2s_read` with the loop
of `ath_i2s_write` around them, which takes the positive result of a failed copy
for bytes written and goes on; `I2sClose` and `I2sCloseDone` are `ath_i2s_close`
before and after the wait for OWN.  The engine of a ring that was freed makes
no step before the next START.

In `Ath79Pcm` the calls of ALSA are `PcmOpen` to `PcmClose`; the handler is one
step per descriptor and walk (`IrqLastPlayed`, `IrqSetOwn`), then `IrqAck` and
`IrqElapsed`.  `hwptr` is what ALSA makes of the reported position, `lag` how
many descriptors were finished and not yet reported (kept below twice the
ring).  Assumed: the delay in `ath79_mbox_dma_stop` outlasts the last
interrupt (so the engine may finish one more descriptor while it is stopped),
and what the engine plays while one run of the handler lasts is less than
`SlipBytes`.  At most one descriptor is finished under a handler when each has
that many bytes; the last one holds only the rest of the buffer, and with
`LastBytes < SlipBytes` it may be finished as well.

## 3. What is checked

| Run | Question | Instance | Distinct states |
|---|---|---|---|
| `tx_order` | Are frames looped back in wire order, is there always a FIFO when the queue runs, does a stopped queue run again, does an accepted frame reach the bus? | 2 FIFOs, 5 frames, one change of the error state, `TsHalf` = 2 | 434 thousand |
| `tx_reopen` | Does every variable keep its type, do the masks agree with the controller, is the queue woken only when nothing is in flight, do frames go out in order, does the driver implement `CanTxQueue`? | 2 FIFOs, 5 frames, a noticed SPI failure anywhere, bus-off with automatic restart, a second open | 6,877 thousand |
| `tx_faults` | Can a frame be overtaken, in one-shot mode or after a failure nobody looks at, other than by a misread transmit event or abort? | 2 FIFOs, 5 frames, any of them given up, one unnoticed failure, no change of the stamp's sign (`TsHalf` = 8) | 17,011 thousand |
| `rx` | Are received frames delivered in order, at most once, none lost but for the documented reasons, in bounds, eventually? | 3 receive FIFOs, 2 transmit FIFOs, 5 events, `TsHalf` = 3, one failing allocation, one failing transfer | 967 thousand |
| `fifos_layout` | Does every accepted layout fit, are addresses and filters those of the present layout? | `tx_fifos` in {0, 1, 23, 24, 30, 31}, both MTUs, two opens, a failure anywhere | 1,458 thousand |
| `clock_users` | Are supplies paired, does the user mask name its users, is open never refused without cause? | two GPIO lines, two failing transfers | 102 thousand |
| `usb` | Are URBs counted, do contexts and echo slots stay with their URBs, are frames looped back in order? | 3 contexts, 5 frames, one failure, two opens or restarts | 445 thousand |
| `can_single` | Are both drivers a queue of one frame, do reports follow the wire and the state the controller, does a stopped queue run again, is nothing left in the receive buffers? | each driver: 2 frames out, 2 in, 3 changes of the error state, 2 opens | 1,319 thousand |
| `i2s` | Do buffers pass once and in order, does close wait for the last one, does a waiting caller go on, is ALSA's position never ahead? | each driver, each direction: 3 descriptors, the last one short, calls of 1 to 4 buffers | 928 thousand |
| `tx_busoff_stuck` | (violation) does the driver notice that the controller recovered? | 2 FIFOs | |
| `fifos_masks` | (violation) do the masks name the FIFOs of the layout? | default `tx_fifos`, two opens | |
| `clock_gpio_free` | (violation) is the controller awake while the interface is up? | one GPIO line | |

The properties are described where they are defined; the hazards they are for
are in `PROJECT.json`.

### Bounds

* *FIFOs and frames.*  What makes the transmit path hard is the round: the
  FIFOs are used from the lowest to the highest and the masks are cleared only
  after the last.  With 2 FIFOs and 5 frames there are two full rounds and a
  third one begun, so a mask or a transmit event that survives a round shows
  when the next one ends early: that is what it takes for a frame to overtake
  after a lost release, and `tx_faults` has as many.  Its time stamps do not
  change sign, because the order on the wire does not depend on the sort.
* *Time stamps.*  The sign changes after `TsHalf` frames, few enough that it
  does so in the middle of a pass and between passes, and more than once.
* *Failures and error states.*  One or two of each, at any transfer: the code
  handles every transfer for itself and keeps no count of failures, so the
  failure to look for is the one at the worst place.
* *Opens.*  Two, because what survives an open is what matters.
* *tx_fifos.*  The default, the two ends, the two values around the limit for
  64-byte frames and one that is refused; the theorem `LayoutCorrect` covers
  every other value.
* *USB.*  Three contexts instead of 20: one to complete, one to be chosen and
  one to keep the counter away from both ends; with five frames every context
  is used again.
* *Single-buffer drivers.*  Two frames, so that one can be overtaken or
  overwritten by the next; two arrivals, so that both receive buffers (or the
  FIFO and an overrun) are used; three changes of the error state, just enough
  for bus-off from error active; a second open.  The theorems cover every
  number of each for the properties they state.
* *Descriptors.*  Two bytes each and one in the last, with `SlipBytes` = 2: the
  last one may be finished under a handler in addition to the one before.
* *Rings.*  Three descriptors are the fewest on which before, at and behind the
  engine differ; calls of four buffers go once round and further; `Modulus` is
  greater than the ring, so a buffer that was skipped or repeated has a number
  of its own.  There is no bound on calls, opens or pauses.
* `MaxClk` bounds the enable count of the clock in both directions; the count
  drifts because of the deviation in `stop_clock`.

Deadlock is not checked in any run: all bounds can be used up, and an interface
may be down for good.

### Fairness

`Mcp25xxfdTx`: the SPI core works its queue off, the interrupt thread runs
while the level-triggered line is asserted and does not stop half-way, the
controller transmits what is requested, a `start_xmit` that has begun goes on,
and the stack offers the frame it has.  Nothing is assumed about opens, stops,
failures or changes of the error state.  `Mcp25xxfdRx`: only the interrupt
thread is fair.
`CanSingleBuffer`: the interrupt handler runs while its line asks for it and
goes on once begun, `start_xmit` gets to its end (for the banged driver: gets
the lock, which the handler gives up between two interrupts), and the bus takes
a requested frame.  `AthAudio`: a caller that is not asleep and a handler go
on, and a running engine finishes a buffer of its own; nobody has to call
again, resume or close.  Weak fairness is enough everywhere because no step is
disabled by another over and over.

### Assumptions that are part of a run

* `EchoThereForTef` excepts the frames whose transmit event was read while their
  `start_xmit` was still on its way to `can_put_echo_skb`, `ConfirmedFollowsWire`
  runs in which that happened or in which one pass read events from both sides
  of a change of the sign.
* `tx_order`, `tx_reopen` and the theorems about masks, order and the queue
  exclude one-shot mode and unnoticed failures: with either of them frames can
  overtake: in the instance of `tx_faults`, `WireInOrder` is violated in one-shot
  mode alone and by one unnoticed failure alone.  What is left of the order is
  `OvertakesOnlyAfterMisread`; the theorem `TypeCorrect` has neither exclusion.
* `NextFifoValid` is checked for one open: after a second one it is violated
  (section 4, `:3812`); `tx_reopen` checks that the masks a stop leaves behind
  break neither the order nor the wake-up.
* `RxInOrder`, `NothingLost` and `RxDelivered` speak of runs without a failing
  transfer, `RxAtMostOnce` of runs in which reading single FIFOs was not given
  up.  `RxInOrder` excepts two frames that one pass sorted together with a change
  of the sign between them.
* `RamLayout` says that objects lie inside the RAM only when the TXQ is off
  (section 4, `:3722`); that they do not overlap, and that the driver's addresses are
  the controller's, it says always.
* `NeverRefused` speaks of runs without a failing transfer, without suspend, and
  without a GPIO line freed while the controller was being set up.
* `LoopedBackInOrder` excepts a URB that was killed while an older one was left.
* Nothing is said about a stopped queue of `Mcp2515Usb`: one that is stopped
  after the last callback stays stopped (section 4), and every other callback
  wakes it in its last step.
* `StateFollows`, `QueueWakes` and `RxDelivered` of `CanSingleBuffer` except
  events recorded in `overtaken`, a banged handler that has given up after
  bus-off, and (the last two) a controller that is off the bus.
* `StreamInOrder` and `StreamGoesOn` except a stream in which copying from or to
  the caller failed; `StreamGoesOn` also a paused stream and a close without a
  first call.

## 4. Deviations of the code

Three are shown by a run and listed under `findings`:

* `mcp25xxfd.c:2942` (`tx_busoff_stuck`): after bus-off `can.state` never leaves
  `BUS_OFF` although the controller has recovered; `start_xmit` stops the queue
  for good.
* `:3573` (`fifos_masks`): `tx_fifo_mask` is only added to.  After a change of
  the layout the test that wakes the queue compares with FIFOs that do not exist.
* `:1467` (`clock_gpio_free`): `stop_clock` returns when no user is left and
  stops the clock when one is.

Others were met while modelling.  The models contain them, and the properties
leave them out explicitly, as said above:

* `mcp25xxfd.c:2551`: the number of transmit events to read counts a frame given
  up in one-shot mode after the abort flags were sampled.  A stale event is
  read, the round ends early and a later frame overtakes ("to avoid reordering
  the frames", `:94`).
* `:2458`: when the release of a transmit event fails, the next round reads it
  again and ends while a frame is still requested; the next frame overtakes.
* `:1938`: the echo frame is stored after the message was queued; its transmit
  event can come first.
* `:3812`: `ndo_stop` keeps `tx_submitted_mask` and `tx_processed_mask`; after a
  reopen in the middle of a round the first frames use the remaining FIFOs, and
  after a full round there is none: `start_xmit` returns `NETDEV_TX_BUSY` at
  the branch commented "this should not happen".
* `:2184`: time stamps are compared as two signed numbers, not by their
  difference, so two objects of one pass on both sides of a change of the sign
  are sorted the wrong way round ("handle rollover correctly", `:2180`).
* `:3722`: the result of the write that switches the TXQ off is overwritten;
  when it fails every FIFO lies one object further than computed, and the
  default CAN FD layout ends outside the RAM.
* `:2591`: a frame given up in one-shot mode is looped back as if sent.
* `:2984`: a frame received while transmit events are being read is delivered
  one pass after transmit events that are younger.
* `:2329`: a FIFO read on its own is queued before it is released; if the
  release fails the frame is delivered twice.
* `:4283`: a probe that cannot write IOCON leaves the supply on.
* `:4372`: after resume the remembered oscillator register may be stale, and
  the next open is refused.
* `:3389`: a GPIO line freed between the write of the oscillator register and
  the poll puts the controller to sleep, and the open is refused.
* `mcp2515-usb.c:998`: URBs are killed newest first and the callback loops back
  the frame of a killed URB like any other, so on close frames are looped back
  in reverse.
* `mcp2515-usb.c:833`: if every URB completes between the test of the counter
  and `netif_stop_queue` nobody wakes the queue.
* `mcp2515-usb.c:810`: "May never happen!" does: the counter is decremented
  before the context is released.
* `sun4i_can.c:696`: an event that sets its flag again between reading and
  clearing the flags is not seen; a transmission that ends there leaves the
  queue stopped, a frame that arrives there waits for the next one.
* `sun4i_can.c:366`: interrupts and the normal mode are on before `can.state` is
  written; a warning handled in between is written over.
* `sun4i_can.c:371`: a handler that is busy while the interface is closed may
  write `can.state` after `sun4i_can_stop` has.
* `sun4i_can.c:482`: without a socket buffer the receive loop makes no progress.
* `mcp2515-banged.c:553`: a frame that `start_xmit` meets in bus-off is dropped
  with the queue stopped, and nothing wakes the queue; `:589`: the work item
  that would after a restart by hand is never queued.
* `mcp2515-banged.c:840`: both receive buffers are read in the order of their
  numbers, so a frame that rolled over into buffer 1 can be delivered after one
  that came later into buffer 0.
* `ath_i2s.c:452`: a copy that fails returns without saving the tail, and
  `ath_i2s_write` takes its result for bytes written and goes on.
* `ath79-mbox.c:180`: the last descriptor may be short.  In a ring of two, a
  second completion under the handler can then leave no descriptor with an
  interrupt to come, and the stream stalls; the run has three.
* `ath_i2s.c:609`: close of a paused playback resumes the channel that its file
  mode names.
* `ath79-pcm.h:116`: `ath79_pcm_get_last_played` returns with the lock held
  (on one CPU the lock is nothing); `ath79-mbox.c:170`: a second `hw_params`
  without `hw_free` appends a second ring to the first.
* `ath79-pcm.c:115`: a capture whose descriptors are all finished when the
  handler runs is not reported.

## 5. What is proved

All proofs are checked by TLAPS for every value of the constants that the
`ASSUME` of the module allows.

* **`TypeCorrect` (`Mcp25xxfdTx_proofs`)**: `TypeOK` is inductive by itself.
  The interesting part is that `NextFifo`, TEF entries and the sort stay within
  the transmit FIFOs and the echo slots.
* **`MasksCorrect`, `FifosNotReused`, `WakesWhenIdle`
  (`Mcp25xxfdTx_proofs`)**, assuming `~OneShot` and `MaxLostFaults = 0`.
  `FifoNotReused` is not inductive: that a FIFO above all taken ones is free
  needs to know that every place a frame can be in is marked as submitted
  (`MasksCover`), and that the masks may be cleared needs that the thread never
  expects more transmit events than there are (`TefExpected`), which relates
  the copy of the pending mask, the TXREQ value read later and the TEF.  That no
  message is queued when the queue is woken is not a guard of the step, it
  follows from the masks: a message's FIFO is submitted and not processed.
  `MaskInv` is the conjunction of these with `NoAborts` and `DownIsQuiet`, and
  is an invariant of the run `tx_reopen`.
* **`WireOrdered`, `FifosInOrder`** (the same assumptions): `OrderInv` compares
  every frame on the wire with every requested FIFO and every queued message,
  and rests on `MaskInv`.
* **`QueueOfFifos`** (the same assumptions): the refinement of `CanTxQueue`.
  The waiting frames are a sequence computed from a set of FIFOs, so the proof
  first shows which sequence it is (`Lists`: an increasing list of a set is the
  one `InFifoOrder` chooses), then what a FIFO that is requested, sent or
  forgotten does to it.  A completed message adds a FIFO above the requested
  ones and removes the head of the messages, which leaves the queue as it was;
  a transmission takes the lowest FIFO and thereby the head of the queue.  Both
  need `OrderInv` and `MaskInv`.
* **`FifoFound`**, assuming in addition `MaxOpens <= 1`: `QueueInv` says that the
  highest FIFO is not reserved while the queue runs.  The assumption is needed:
  `ndo_stop` keeps `tx_submitted_mask` (section 4).
* **`EchoFound`, `ConfirmedInOrder`**, assuming in addition no failing transfer.
  `EchoInv` says which echo slots are in use and by which frame: those of the
  FIFOs in a message, requested, in the TEF or read from it, except the one that
  `start_xmit` has yet to store and those of late frames, whose slot stays in
  use.  `TellInv` splits the wire into the frames told, the events read and the
  events unread, each with its position as its time stamp, so that the sort finds
  the events in order and changes nothing (`MonotoneBijection`) when their stamps
  have one sign.
* **`RxDeliveredInOrder`, `RxDeliveredOnce`, `RxNothingLost`, `RxQueueFits`,
  `RxTypeCorrect` (`Mcp25xxfdRx_proofs`)**: `RxInv` has a part for each
  question.  `PlacesInv` says that no event is in two FIFOs and `PassInv` that a
  FIFO stays filled until it is released.  `AgeInv` orders the places by age:
  what was delivered is older than what the pass has read, and this is older
  than what is in FIFOs filled since the status was read; the last part is what
  allows the bus to refill FIFOs behind the thread.  Only between events that one
  pass has sorted may the order be another (`Precedes`, `OfOnePass`).  `OnceInv` follows each
  event from FIFO to batch, queue and stack, `RoomInv` counts the FIFOs still to
  be read together with the objects already queued.
* **`LayoutCorrect`, `FiltersCorrect` (`Mcp25xxfdFifos_proofs`)**: the
  arithmetic is a lemma about `Accepted` and `Layout` for both payloads; the
  invariants say that the layout is the accepted one in every later stage and
  how far the filters have been written.
* **`TypeCorrect`, `AddressesCorrect` (`Mcp25xxfdFifos_proofs`)**: `ConfigInv`
  says that the registers agree with the layout once they are written,
  `AddressInv` that the driver's addresses are the controller's once they are
  read.  `FifoUA` is a recursive function; a set argument shows that it exists
  for the 31 FIFOs (`StartsExist`), after which its recursive equation can be
  used, and `Spans` gives the sum in closed form: the TXQ object if it is on, all
  receive objects, then all transmit objects, up to an end that `LayoutFits`
  bounds by 2048 when the TXQ is off.
* **`TypeCorrect`, `UrbsCounted`, `EchoesMatch` (`Mcp2515Usb_proofs`)**:
  `UsbInv` adds `Quiet` to the checked properties: what is idle when, and that
  the callback has emptied the echo slot before it frees the context.
* **`LoopedBackOrdered` (`Mcp2515Usb_proofs`)**: `LoopInv` orders by age the
  frames looped back, the one in the callback, those of the URBs, the one in
  `start_xmit` and the next one of the stack; a frame may precede an older one
  only if it was killed.
* **`TypeCorrect`, `SuppliesCorrect`, `UsersCorrect`, `OpenNotRefused`
  (`Mcp25xxfdClock_proofs`)**: one invariant for all four.  `Stages` says which
  combinations of device, link and suspend there are, `Holders` who is in the
  user mask in each, `Recorded` that the remembered oscillator register agrees
  once the controller was found and as long as nothing has failed, been
  suspended or raced with the set-up.  What
  `StartClock` and `StopClock` keep are lemmas used by every action that calls
  them.
* **`TypeCorrect`, `QueueImplemented`, `ReportsCorrect`
  (`CanSingleBuffer_proofs`)**: the refinement needs to know that the queue is
  stopped whenever a frame is in `start_xmit`, in the transmit buffer or done
  and not yet reported.  What could break this is a restart: it wakes the queue
  although a frame may wait.  `SunOff` shows that a restart is possible only
  while the controller is still off the bus, so that the frame is not done and
  is given up by the reset, and that no second error warning is on its way.
  `BangedInv` is the same for a handler under a lock.  `Reports` says
  that a completion that is still to be handled stands for a frame on the wire
  that was not reported, and `SunEcho` whose frame the echo slot holds.
* **`StateCorrect` (`CanSingleBuffer_proofs`)**: a handler works with a state it
  has read earlier.  `SunFollows` says which error flags may be pending
  together and what each says about the difference between the driver's state
  and the controller's; `BangedFollows` that a handler in its last pass has
  read the present state, or the flag is set again and the edge brings another
  run.
* **`TypeCorrect`, `BuffersInOrder` (`AthAudio_proofs`)**: `Queue` describes a
  queue laid out in a ring by its set of descriptors, its first and its last
  one; a full and an empty ring have the same ends.  Filling, playing,
  recording and reading are its put and take (`QueuePut`, `QueueTake`), and
  `Control` says where the ends are while a call is under way.  That close
  returns only when everything was played is the case of the empty queue.
* **`PointerBehindEngine` (`AthAudio_proofs`)**, assuming `LastBytes >= SlipBytes`
  (one completion under a handler; the run also has a second one): that `lag` is never negative is
  far from inductive.  `Finished` says that the finished descriptors are the
  ones just before the engine, `Unreported` and `Covered` that the way from
  ALSA's position over the one `ath79_pcm_pointer` gives to the engine is not
  longer than `lag`.  The hard part is the handler's second walk, which gives
  descriptors back while the engine may finish one more: `SlippedOnly` says
  that this one is the only finished one left behind.  These distances are
  below twice the ring, so the bound on `lag` takes nothing away from the
  argument.

Every invariant, every action property and both refinements that a passing run
checks are stated by one of these theorems, under the assumptions named here,
except `OvertakesOnlyAfterMisread`.  It and the liveness properties `QueueWakes`,
`FrameSent`, `RxDelivered` and `StreamGoesOn` are only model-checked: liveness
under fairness is out of the prover's reach.  The properties of the runs that
expect a violation are refuted by TLC and no theorem states them.

## 6. What is not modelled

* mcp25xxfd: `use_bulk_release_fifos`, bit timing, the contents of error
  frames, ECC and CRC counters, debugfs, GPIO levels, and the lifetime of
  memory (`spi_transmit_fifos` is freed in `ndo_stop` while messages may be
  queued).
* mcp2515-usb: receive URBs, commands to the device (their answers share an
  endpoint with the receive URBs), probe, and what disconnect does beyond killing
  the URBs.
* sun4i_can and mcp2515-banged: bit timing, the contents of error frames, the
  bit-banged transfers, clock or reset failures, probe and remove.
* ath-i2s and ath-i2s-qca: volume, frequency and PLL settings, both directions
  at once, failing allocations, the set-up of mailbox FIFOs and channels.
* Other programs of this repository.  `micro-proxy`, `gpio-proxyd`,
  `gpio-proxy-module`, `sml-snmp-agent`, `c2t-new` and `c2t-module` are
  sequential, or share one variable without any protocol: what can go wrong is
  said by the line itself (some are listed as hazards), and a model would have
  no property that could fail in an unexpected order.  `ath-hs-uart` and
  `mcp2515-rpi-spi` follow drivers of the kernel closely.
* Most lines of the repository are vendored or third-party (libsml, wiringPi,
  fbtft, dtoverlay, kernel I2C and C2 cores, the Renesas flash tool, register
  headers), older copies of a file that is modelled, board tables, or programs
  that read a register and print it.  The reason is given for each component in
  `PROJECT.json`.

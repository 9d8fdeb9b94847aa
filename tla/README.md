# TLA+ models of NP2kai

NP2kai emulates the NEC PC-9801 and PC-9821. These modules model the parts of
the emulator whose correctness is a matter of order: which event comes first,
which thread has seen which flag, which interrupt is accepted while which other
one is in service, what is left in a queue when something is reset. They are
written from the C and C++ sources of the repository; paths below are relative
to its root. `PROJECT.json` gives the lines each definition models.

## The system and its parts

One thread, the *emulator*, runs `pccore_exec` (`pccore.c`) once for each
display frame. Within a frame it alternates between `pic_irq`, which accepts an
interrupt, a time slice of the CPU core, and `nevent_progress`, which calls the
callbacks of the events that have become due. Devices are sequential code that
is called in two ways: by the guest's I/O instructions during a slice, and as
callbacks of events. They interact through three shared services: the event
scheduler, the interrupt controllers and the DMA controller.

| Component | State | Operations | What makes it hard | What makes it correct |
|---|---|---|---|---|
| Event scheduler (`nevent.c`) | sorted list `level`, clocks, the events that wait to be called, `CPU_BASECLOCK`, `CPU_REMCLOCK` | set (absolute, relative), reset, progress, execute, changeclock, forceexit | callbacks that set and cancel other due events; instructions that overshoot their slice, or stretch it; interrupts that take clocks when none are left; rescaling | list sorted, no slice beyond an event (but for the instruction behind an STI), each event called effectively once, frame event never lost, frames end |
| Frame loop (`pccore.c`, `timing.c`) | `screendispflag`, the phase of the frame, the clock multiple | `pccore_exec`, `screenvsync`, `screendisp`, automatic change of the multiple, reset | order of progress, interrupt and slice | as above |
| Emulation thread (`wx/np2mt.cpp`, `wx/np2frame.cpp`) | `s_running`, `s_pause_req`, `s_paused`, the option `multithread`, `m_running`, the dialog | start, stop, suspend, resume, and the window's handlers | two threads, no lock, a timeout, a nested event loop | nobody is told that the emulator is idle when it is not; no request stands forever; closing ends |
| Keyboard (`keystat.c`, keyboard part of `io/serial.c`) | held keys, locks, repeat table, ring of bytes, answer ring, shift register | press, release, repeat, commands, reset, retry, the event that delivers | full ring, commands in between, reset with keys held, two host keys for one | no byte stalls, no stuck key, lamps right |
| Interrupt controllers (`io/pic.c`) | `irr`, `imr`, `isr`, priorities, special mask, ICW sequence, twice | request, withdraw, accept, mask, OCW2, OCW3, ICW | two cascaded controllers, rotation, nested handlers, a slice that must end | acceptance by priority, EOI ends the right interrupt, vsync not lost, a slice in which an interrupt becomes acceptable ends, but for two exceptions |
| Interval timers (`io/pit.c`) | three counters, modes, latches, byte toggles, `PIT_FLAG_I` | mode, count, latch, read, three callbacks | a latch between two bytes, a new mode or half a count while the event runs | a read is of one count; the count written interrupts in its time, an older one never |
| DMA (`io/dmac.c`) | masks, `work`, `working`, ready lines, addresses | mask, ready, transfer, terminal count, master clear | edges over two conditions, a client that refuses | what is ready and not masked works, and nothing else |
| Floppy controller (`io/fdc.c`) | command, phase, status, result buffer, `chgreg`, `intreq` | commands, reset, DMA, seek ends, interrupt 512 clocks later | a mode change between a result and its interrupt, masks and master clears within a transfer, disks that change meanwhile | channel ready exactly during transfers, no transfer stalls, all that waits is announced by an interrupt |
| Disk changes (`fdd/diskdrv.c`) | image and delay per drive | eject, insert after 20 frames | a change during a seek or a transfer of another drive | the attention is announced |
| RS-232C (`io/serial.c`) | receive ring of 64, expiry counter, write FIFO, status | callback, read, command, FIFO ports | a full ring drops the byte that is in the data register; two interrupt modes | bytes in order and none twice, an interrupt for each that is offered |
| FM timers (`sound/opntimer.c`) | two timers, status flags | set, callbacks | flag cleared while an event waits | status and interrupt agree |
| Sound stream (`sound/sound.c`) | stream buffer, pointer, `locks` | `sound_sync`, `sound_pcmlock`, `unlock` | audio callback on another thread | no sample lost or repeated while locked |
| Network (`network/net.c`, `network/lgy98.c`) | ring of 128 packets, flags of two threads, page ring | send, reader, writer, reset, close | threads without lock, a reset or close in between | packets leave once and in order, unread packets are not overwritten unless the test of the room was not made for what it lets in |
| Saved states (`statsave.c`) | sections of all devices | save, load, check | load in the middle of waiting events | what is loaded runs as it would have |
| CPU cores, BIOS, disk images, display, hostdrv, other ports | | | sequential code over much data | not modelled |

The wx port runs the emulator in a thread of its own (`CMakeLists.txt` switches
on `SUPPORT_MULTITHREAD` for it); the SDL and libretro ports run it on the thread of
their event loop, where keys and menus are handled between two frames.

## The modules

| Module | Models | State and actions |
|---|---|---|
| `AlarmClock` | the promise of the scheduler | alarms with a time left, ringing in order of their deadlines; `turn` says whether the guest executes (`Execute`), and when its turn begins (`Enter`) and ends (`Ring`) |
| `NEvent` | `nevent.c` and the frame loop | `level`, `waitevent`, `clock`, `base`, `rem` are the fields of the same names; one action for every call of the scheduler, for `pic_irq` and the clocks of the interrupt it accepts (`PicIrq`), for an instruction of the CPU (`CpuStep`, `CpuHalt`, and `CpuShadow` for those of the i286 core that another one must follow), for the changes of the clock multiple by the guest, the reset and the speed of the host (`AsyncChangeClock`, with the limits of the code), for the first half of `nevent_progress` (`Progress`), and for the return of each callback |
| `EmuThread` | `wx/np2mt.cpp` and the handlers of `wx/np2frame.cpp` that use it | the three flags; `emu` and `ui` say where each thread is; each access to a flag is an action |
| `KeyLine` | the promise of the keyboard interface | two queues and a register |
| `Keyboard` | `keystat.c` and the interface | the rings and tables under their names; actions for the host (`keystat_down`, `keystat_up`, ...), the guest's ports and the event |
| `Pic` | `io/pic.c`, the vertical sync, the CPU's interrupt flag | `irr`, `imr`, `isr`, `pry`, ... for both controllers; `phase` is the place in `pccore_exec`; actions for `pic_irq`, the callbacks, and each instruction of the guest that matters |
| `Dmac` | `io/dmac.c`, `mem/dmax86.c` | masks, ready lines and the two working registers as sets of channels; a helper of `Fdc` with no behaviour of its own |
| `Fdc` | `io/fdc.c`, `fdd/diskdrv.c` on top of `Dmac` | `event`, `cmd`, `tc`, `int_timer`, ...; actions for a guest's command, result byte, mask, clear, control and mode write, for a byte of `dmax86`, the late interrupt (`fdc_intwait`), a frame, and the user's changes of disks |
| `Network` | `network/net.c`, `network/lgy98.c` (Linux build) | the two rings under their names; `epc`, `wpc` and `rpc` say where the emulator and each writer and reader thread are; the test of the room, the later read of `curpag`, the store and the publication of a packet are actions of their own, as are the reads and writes of the ring positions |
| `Rs232c` | the receiver in `io/serial.c` | ring, `removecounter`, `irqflag`, ...; actions for the callback, the ports, and the guest's handler |
| `Pit` | counter 0 of `io/pit.c` | `flag`, `value`, `latch` under their names; actions for mode, latch, count and read ports, the event and the interrupt's acceptance |
| `MC*` | instances for TLC | constants, refinement mappings |
| `*Proofs` | theorems | see below |

How they relate: `NEvent` implements `AlarmClock` under the mapping `AlarmLeft`
(an alarm's time left is `nevent_getremain`), and `Keyboard` implements `KeyLine`
with `Pending` for its keys and `ctr` for its replies. Both are stated at the end of
the detailed module, checked by a run and proved. `Keyboard`, `Pic`, `Fdc`, `Rs232c` and `Pit` see the
scheduler as `AlarmClock` promises it: an event that is set is called at some
later time between two slices, and `Pit` also counts the clocks until then.
`Fdc` is composed with `Dmac`: it extends it, and each of its actions that calls
`dmac_check` contains the step of `Dmac`. `EmuThread` sees a whole frame (`np2_exec`) as one state.

### What each abstraction leaves out

* `NEvent`: callbacks may set, extend and cancel any event in any order, which
  covers every device. `Progress` splits the sorted list at the due events
  instead of filtering it; in a list that is not sorted, or with an event that
  waits already, it would be disabled and TLC would report a deadlock. Clocks are mathematical
  integers, a relative set is bounded by `ClockCap`. `NEVENT_WAIT` is set by
  no callback. An accepted interrupt takes its clocks in `PicIrq` (`pccore.c:1917`; `i286c/i286c.c:300`,
  `i386c/ia32/exception.c:266`) even if none are left, down to `-EntryCap`: the rounds of the
  loop in which it does so again and again without a slice are bounded. STI, POP SS and MOV SS of the
  i286 core (`i286c/i286c_mn.c:17-27`) give one clock to the instruction behind them; a row of them
  raises `CPU_BASECLOCK` each time, to `ShadowCap` at most. `Lowered` and `Raised` are the limits of
  `pccore.c:1800` and `:1843`; the steps of its tables are the constant `Steps`.
* `EmuThread`: flags are sequentially consistent (`volatile` promises less). The critical section
  `np2_multithread_enter_cs` is entered by nothing.
* `Keyboard`: bytes are pairs of a direction and a key; one guest key per host
  key; the clocks of the automatic repeat are left out, a repeat may come at any
  time. The answer ring is the sequence of the bytes that wait in it. `pressed`,
  `lost`, `missing` and `reply` are history: what the guest has read of keys, whether a
  byte was dropped or a make code withheld since the last reset, and the last answer.
* `Pic`: lines are numbers below `N`, registers are sets of lines. ICW2 to ICW4 are
  counted but their contents are those of the reset, so the slave stays on the same line
  of the master. A guest instruction may be the last of its slice at any time,
  which covers every length of slice; behind an STI there is always one more. MOV SS and POP SS, which
  have such an instruction too, are left out.

* `Dmac`: addresses, banks and directions; a client that refuses to start. The
  floppy controller never refuses.
* `Fdc`: the data and the kind of the media; a transfer is the number of sectors
  left on each side. Transfers by the CPU are left out (bit NDM); so are the busy
  bits, which only the guest reads. `us` is overwritten by a change of
  disks as in the code. `intreq` stands for the interrupt: whether `fdc_intwait` raises
  line 0Bh or 0Ah, by the mode at that time (`io/fdc.c:43-53`), is not modelled.
* `Network`: the data and the remote DMA. A packet that arrives is its number of pages, up to
  `MaxPacket`, which is more than the `MaxFrame` that `ne2000_buffer_full` wants to be free; the
  filter for addresses may refuse any. Stores of one thread are seen
  by the others in program order, which the code takes for granted.
* `Rs232c`: the transmitter; its interrupts are taken to be masked, as they are
  after a reset. A byte is its number on the line.
* `Pit`: counters 1 and 2, and the status byte (that one is latched and read is
  in the model, its value is not). The multiple of the CPU clock is 1. A slice may
  end up to `Late` clocks after the event was due.

The guest program is external. `Pic` has two: `FreeGuest` writes whatever it
likes, and properties of the controllers themselves hold for it; `Orderly` with
`EndHandler` is a program whose handlers end as the hardware's manuals ask (interrupts
disabled, EOI to the slave, a look at its `isr`, EOI to the master, IRET). The other guests are as
free, but for what a correct driver avoids; each restriction is a guard of an action:

* `Fdc`: programs the channel's count before a transfer, and neither changes the mode nor resets
  the controller during one (modes that change between a result and its interrupt are in the run);
* `Rs232c`: the handler reads the cause in FIFO mode and the data register only if RxRDY is set; mask,
  mode and speed (13Ah, which clears the cause) change while nothing is offered;
* `Pit`: does not latch a count between the two bytes of another;
* `Network`: the driver reads a packet's header and gives its pages back by moving `boundary`; it
  does not keep a page free.

## The runs

All bounds are constants of the `.cfg` files. `pass` runs finish with no
error; a `violation` run shows that the code does not do what a comment or a doc
says.

| Run | Configuration and why it is enough | Shows |
|---|---|---|
| `nevent` | frame event of 3 and 2 clocks and two devices with a delay of 2, slices of at most 4, instructions of 1 and 2 clocks, interrupts of 1, a multiple of 2 that the host's speed lowers to 1: events coincide, overshoot, are set again while waiting, and are rounded to zero; interrupts and the instruction behind an STI find an event overdue | `LevelOrdered`, `NeverSleepsPastEvent`, `EffectiveOnce`, `FrameEventKept`, refinement of `AlarmClock`, `FrameEnds` |
| `emuthread` | three looks at the flag before the timeout; any number of user actions | `ExecNotReported`, `FreshSuspendStops`, `NoRequestLeft`; `SuspendEnds`, `CloseEnds`, `RunsAgain` |
| `emuthread_stale_report` | the same | violation, below |
| `keyboard_keys` | `CarefulSpec`: two keys that repeat, three host keys, two of them for one guest key; ring of two bytes, repeat table of one; the option is switched while the table is empty | `TypeOK`, `KeysAgree`, `NoStuckKey`, `NoStall`, `FullInterrupts` |
| `keyboard_commands` | one lock, all commands and resets | `AnswerIsLast`, `LampsAgree`, refinement of `KeyLine`, `Drains` |
| `keyboard_phantom` | two keys that repeat, the option switched on and off | violation, below |
| `fdc` | two drives, one that is accessed and one whose disks change; sectors of two bytes, transfers of one sector, of two, and of two on different sides, a count of three, results of three bytes, delays of one frame: terminal counts within and at the end of a sector, seeks during which disks change, masks that change in a transfer, modes that change between a result and its interrupt | `ReadyIffTransfer`, `NoStaleCount`, `Announced`, `NotStalled` |
| `network` | three slots, five pages, a test for three free pages, packets of one to six pages; four are sent and three arrive, one opening: both rings fill and wrap, packets are longer than the test assumes and as long as the ring, and the ring fills to its last page | `InOrder`, `UnreadKept` |
| `rs232c` | ring of five, expiry after four callbacks, twelve bytes: the ring fills, wraps twice, drops and expires | `OffersNext`, `Announced` |
| `pit` | bytes of three values, so that a count has two digits and wraps; counts of two or less are too small, one clock of lateness | `ReadsOneCount`, `InterruptsOnTime` |
| `pic_free` | three lines on each controller, vsync, slave and a device on it; every EOI, rotation, special mask command and initialisation sequence, masks that include the slave's line | `VsyncKept`, `PriorityRespected`, `Prompt`, `TypeOK` (the ICW count) |
| `pic_orderly` | the same lines, timer and two devices on the slave, nested handlers | `ServiceMatches`, `InnermostIsHighest`, `Served` |

The algorithms treat lines, keys and events alike, so two or three of a kind
show every relation between them (equal, earlier, shared, higher); the rings are
so small that they fill and wrap within the first few steps. Deadlock is
checked except for `EmuThread`, where closing the window ends the system, and
`Network`, where the shutdown does.

`fdc` has a view, `Live`: it leaves out the command, head and count while no command
is in progress, and the status that a seek will set while its timer does
not run. Each is written before it is read again, so states that the view takes for
one have the same futures, and no invariant looks at what it leaves out. The
theorems of `FdcProofs` do not depend on it.

The instances of `network` open the device once, because `InOrder` and `UnreadKept` say nothing
after a second opening (see the observations); the theorems allow any number.

### Fairness

`FairSpec` of `NEvent` asks that the thread goes on (`WF` of `Run`): a slice and a
callback end after finitely many calls, and a row of STIs ends at some other
instruction (`ShadowCap`). `FrameEnds` speaks of runs in which the
clock multiple changes finitely often: pccore changes it by the speed of the
host, and a guest that rescales all clocks for ever is not expected to get
anywhere. `FairSpec` of `EmuThread` asks only that a handler of the UI which was
entered continues, so `SuspendEnds` holds even if `np2_exec` hangs; `CloseEnds` and
`RunsAgain` assume `EmulatorRuns`, that the operating system schedules the
other thread and its frames end (`FrameEnds`). `Keyboard` asks that the event is called, which `AlarmClock` promises, and that the
guest reads the register when its interrupt is requested. `Pic` asks that the
main loop goes on, that a handler which is not interrupted again and again
proceeds to its end (strong fairness, since nesting interrupts it), and that
the program enables interrupts again: assumptions on the guest, without which
no controller could serve anything. The other modules have safety properties only:
what they promise in the end is said as what must not be missing in the meantime
(`NotStalled`, both `Announced`).

### What the violations show

* `wx/np2mt.h:19` promises that a suspend waits until the thread is idle. After
  a quick resume it may see the report of the last suspend. `FreshSuspendStops`
  is what does hold.
* `sdl/libretro/libretro_core_options.h:55` says that the key that is repeated continues to be
  pressed. A key that is released while the option is off stays in the repeat
  table, and is repeated when the option is switched on again; the guest then takes
  it to be down. `KeysAgree` and `NoStuckKey` are therefore checked and proved of
  `CarefulSpec`, in which the option is switched on only when the table is empty. The
  theorem `RepeatsHeld` shows that this is the only way to get there.

### Other observations

Met while the models were written; most follow from a single condition in the code, which a
property would only repeat.

* `nevent.c:283` says that automatic changes of the clock happen when
  `CPU_BASECLOCK` equals `CPU_REMCLOCK`. The last instruction of a slice overshoots
  it, so they may differ, and the branch for changes by I/O is taken. The safety
  properties hold for both branches.
* The periodic screenshot resumes an emulator that the preferences have
  suspended (`wx/np2frame.cpp:740`; the comment at `:902` says that the thread is
  paused while the dialog is open). `OnCycleScreenshotTimer` of `EmuThread` does this. No property
  speaks of it: `NoRequestLeft` only says that no request is left standing.
* Switching multithreading off in the preferences leaves thread and timer both
  driving `np2_exec`: `OnEmuTimer` looks at the option, not at the thread.
* A key whose break finds the ring full stays down for the guest (`io/serial.c:139`); the
  properties of the keys hold until a byte is dropped.
* `keyrepeat_proc` does not look at the guest's command to stop the repeat
  (`keystat.c:283`).
* Unmasking the slave's line in the master does not end the slice although an
  interrupt is acceptable: `pic_o02` looks at the `irr` of the controller that is
  written (`io/pic.c:353`). It is accepted after the slice. For the lines of the
  master `Prompt` says that the slice ends, with two exceptions: special mask mode, which OCW3 sets
  without `nevent_forceexit` (`io/pic.c:313`) although it may free a request from what is in
  service; and a request of higher priority that is withdrawn or masked while another one waits. In
  both the interrupt waits for the end of the slice.
* The clocks that `pic_irq` takes come before the test of `CPU_REMCLOCK` (`pccore.c:1977`), so
  that time passes with an event overdue; and in the i286 core the instruction behind an STI executes
  at the end of a slice in any case. `AlarmClock` allows both, and `NeverSleepsPastEvent` names the
  one clock. Behind a row of STIs the event is as late as the row is long.
* `pic_irq` tests the mask of the slave's line only where it looks for any
  request at all. With rotated priorities, the slave in service and its line
  masked, a request of another line lets an interrupt of the slave through.
  `PriorityRespected` names this exception; without it TLC finds the case in
  18 steps.
* OCW3 without `PIC_OCW3_RR` cuts off the special mask bits, so 68h alone does
  not set the mode. ICW1 leaves `isr`.
* A timer request that arrives unmasked while the event NEVENT_PICMASK is
  running stays if the line is masked after that event.
* The stopgap at `nevent.c:242` for a lost NEVENT_FLAMES never applies when one
  thread calls the scheduler (`FrameEventKept`); what it covers must come from elsewhere.
* The repeat table takes a key before it is known whether its make code finds
  room in the ring.
* A change of the clock multiple rounds three clocks, so that an event may
  become late by one clock (`Rescale` of `AlarmClock`); not by more, which `ScaleLeft`
  proves.
* Floppy controller: `fdc.us` is overwritten by `fdd/diskdrv.c:241` and `:265`, so a
  change of another drive's disk during a transfer moves the rest of the transfer to that drive, and
  its result clears the attention of that drive. A reset (80h to
  port 94h), or a new mode, during a transfer leaves the channel of the transfer
  ready; the guest of `Fdc` does neither. After the master clear of the
  DMA controller one more byte is moved. SCAN EQUAL is never answered with
  `SUPPORT_KAI_IMAGES`, and a write by the CPU over several sectors loses
  `FDCSTAT_RQM`. The interrupt goes to the line of the mode 512 clocks after the result, the
  channel's ready line to that of the mode at the call.
* Network: `np2net_hThreadE` (`network/net.c:110`) is set nowhere, so `closeTAP` joins
  nothing; a second opening leaves two writers and two readers, and packets are
  sent twice or not at all. `InOrder` and `UnreadKept` say so by their first
  condition. After the shutdown the old threads go on with a closed file. A
  failed write drops its packet.
* `ne2000_receive` measures its room by `curpag` and `boundary`
  (`network/lgy98.c:300`). A ring filled to the last page has them equal and looks
  empty, and what follows overwrites what is unread; `ENISR_OVER` is not set. Nothing in the
  code, and nothing in the model's driver, keeps the ring from filling so far. Also, the room is that of
  a packet of 1514 bytes, while up to 16384 are read from the device (`network/net.c:391`); the test for giant
  packets compares them with the whole ring (`network/lgy98.c:359`), and of the lengths that take every
  page of it lets seven pass. `UnreadKept` says that accepting such a packet is the only way to overwrite what
  is unread: `clean` ends there, and nowhere else while the board runs. A reset of
  the board while a reader thread is within `ne2000_receive` publishes a page that is
  not one (the other end of `clean`).
* The interrupt status of the board is changed by `|=` in the reader thread and by
  `&= ~` in the emulator (`network/lgy98.c:163`); one of them may be lost, for which the
  code has its poll after 2 ms.
* Serial port: a read of 130h takes the byte that `rs232c_callback` is made to
  offer (`io/serial.c:640`) without returning it when the ring was empty. The transmitter's cause overwrites the
  receiver's (`io/serial.c:228`, `:366`). The ring's positions survive a reset of the port, and a
  ring that is full then never sets RxRDY in FIFO mode. Unmasking the interrupt with RxRDY set raises none
  until the next byte expires. A write of 13Ah while a byte is offered forgets its cause (`io/serial.c:875`).
* Timer: a second count latch between the two bytes mixes two counts (the 8253 ignores it),
  which `ReadsOneCount` rules out by the guest. Counts of at most 8 become
  65536 (the comment at `io/pit.c:28` says that it has no ground). Modes 6 and 7,
  aliases of 2 and 3, are one-shot here. A mode write lets the old event
  go on, and takes back its request: a tick that was pending is lost
  (`io/pit.c:470`). In modes 1 and 5 a count that is written while `PIT_FLAG_I` is set starts no
  event.
* With multithreading off, a suspend waits its whole 500 ms, since no thread
  reports; with the option switched on and no thread running, nothing drives
  the emulator.

## The proofs

TLAPS proves these for every value of the constants that the modules' assumptions
allow: any number of devices, keys and lines, any clocks, ring sizes and timeouts.

| Theorem | For | Argument |
|---|---|---|
| `NEventProofs!ImplementsClock` | `Spec => Alarm!Spec` | One lemma for each action. What stays the same is the time left, `clock - Elapsed`, also where an STI raises `base` and `rem` alike or an interrupt lowers `rem`: a set shifts `base` and `rem` alike, `Progress` takes `base` off the clocks and off the elapsed time. `ScaleLeft` bounds the rounding of a change of the multiple. |
| `NEventProofs!Invariance` with `TypeCorrect`, `Sorted`, `NoEventSlept`, `CalledOnce`, `FrameKept` | `TypeOK`, `LevelOrdered`, `NeverSleepsPastEvent`, `EffectiveOnce`, `FrameEventKept` | `IInv` adds `SliceOrShadow` (the slice ends no later than the first event, or it is the one clock behind an STI; and the time used is not negative) and `PhaseFits`. Without it a set in the middle of a slice could lengthen it. The lemmas are about insertion, deletion and monotone rescaling of a sorted list, and `MultipleChanges` about the limits of the multiple. |
| `EmuThreadProofs!Invariance` with `NeverReportedInFrame`, `FreshSuspend`, `RequestCleared`, `TypeCorrect` | `TypeOK`, `ExecNotReported`, `FreshSuspendStops`, `NoRequestLeft` | `IInv` adds `RequestStands`: the request stands from a suspend to the end of its section, and a report that came after the call is not outdated |
| `KeyboardProofs!Invariance` with `NeverStalls`, `AlwaysInterrupts`, `LampsRight` | `NoStall`, `FullInterrupts`, `LampsAgree` | what is sent sets the event, in the same step; `IInv` is their conjunction |
| `KeyboardProofs!TypeCorrect` | `TypeOK` | `SendStores`: the bytes that fit go to places that none of those that wait has (`PlacesDiffer`), for any size of the ring. An answer has at most three bytes and drops the one before (`AnswerReplaces`) |
| `KeyboardProofs!ImplementsLine` | `Spec => Line!Spec` | `SendAppends` and `CallbackRing`: on the sequence `Pending` a send appends and the callback takes the head, wherever the ring wraps |
| `KeyboardProofs!AnswersNotMixed` | `AnswerIsLast` | a command replaces the answer as a whole, the callback takes its head, a reset drops it (`AnswerSteps`) |
| `KeyboardProofs!ViewInvariance` with `NeverStuck`, `GuestKnows`, `RepeatsHeld`, `FixedOption` | `NoStuckKey`, `KeysAgree`, `RepeatsHeldKey` | The set that the guest will take to be down is a function of what it was and of all bytes that wait (`Taken`), and reading in two parts is the same as reading at once (`TakenConcat`): so reading and delivering change nothing, and a send adds or removes the keys of its bytes. `RepHeld` is the strengthening: keys in the repeat table are down. A press or a release has one of four effects (`DownEffect`, `UpEffect`), each with its lemma |
| `PicProofs!Invariance` with `TypeCorrect`, `VsyncNeverLost` | `TypeOK`, `VsyncKept` | types are needed for the two searches; the request or `vsyncint` is there as long as the guest is owed an interrupt |
| `PicProofs!OrderlyInvariance` with `InServiceOnce`, `EoiIsOwn` | `ServiceMatches`, `InnermostIsHighest` | for the orderly guest: `Service` says that the lines in service are those of the handlers, that each handler was entered above all it interrupted, within the slave and within the master, and how far the ending of the innermost has come. That the innermost is the highest follows, so the EOI, which names no line, finds it. |
| `PicProofs!NothingWaits` | `Prompt` | for the free guest, by cases of what a step does in a slice that goes on: a line that is acceptable behind it was `Open` before it (requested, unmasked, the flag enabled, clear of what is in service, and of what goes before it) or was freed in one of the two ways that the property names (`FreeGuestOpens`, `NothingLeft`) |
| `FdcProofs` (`ReadyDuringTransfers`, `CountIsConsumed`, `NothingWaitsUnannounced`, `TransfersGoOn`, `TypeCorrect`) | `ReadyIffTransfer`, `NoStaleCount`, `Announced`, `NotStalled` | one inductive invariant: `Lines` (what is started works; what is ready and not masked is started), `Buffer` (a transfer has a byte to move) and the four properties, none of which is inductive without the others |
| `NetworkProofs` (`SentInOrder`, `RoomTestSuffices`, `TypeCorrect`) | `InOrder`, `UnreadKept` | two invariants. `RingInv`: the ring's contents are consecutive, and a slot that the writer has seen is not reused before it moves the position. `PInv`: the unread packets are chained page by page, and a reader that has passed the test of the room still has what it saw when it reads `curpag`, stores and publishes, since the driver only adds to it. As long as `clean` holds, what it accepted fits in there |
| `Rs232cProofs` (`NothingTwice`, `NoLostInterrupt`, `TypeCorrect`) | `OffersNext`, `Announced` | `RingInv`: the bytes of the ring are the last that came, so what was read is older; `HandlerLearns`: a handler that was entered finds the cause |
| `PitProofs` (`LatchKept`, `OnTime`, `TypeCorrect`) | `ReadsOneCount`, `InterruptsOnTime` | `Followed` and `Bytes` relate the guest's place to the byte toggle and the latch; `Clocked` and `Owed` the time left of the event to the count that was written |
| `PicProofs!HighestFirst` | `PriorityRespected` | `FirstIsHighest`: the search from `pry` on finds the line of least rank, by the well-foundedness of the ranks; then what wins is clear of anything above it |

Assumptions are only those named in the modules (`DevicesAssumption`,
`ClocksAssumption`, `PollsAssumption`, `KeysAssumption`, `SizesAssumption`,
`LinesAssumption`, `CountsAssumption`, `FdcAssumption`, `NetworkAssumption`, `Rs232cAssumption`,
`PitAssumption`); TLC evaluates each of them in the runs.

Checked by TLC only: all liveness (`FrameEnds`, `SuspendEnds`, `CloseEnds`,
`RunsAgain`, `Drains`, `Served`), since fairness and ENABLED are outside of what the
prover does. Every invariant and every refinement that a run checks is also proved.

Two recursive functions of `Keyboard` needed an induction over data: `Filter`, which
keeps the elements of a sequence that are in a set, and the successive
`keyboard_ctrl` of `AnswerWith`. `UpTo` of `KeyboardProofs` is the induction for a set (from
the well-foundedness of the naturals), `Recursion` shows with it that such a function exists,
and `FilterProperties` and `AnswerStep` say what the two compute.

## Not modelled

The models stop where order stops to matter or where a small instance can no longer show
it. Most of the repository's half million lines is one of these:

* sequential computation over large data: the instruction sets (`i286c`, `i386c`, with the
  soft float), drawing (`vram`, `wab`), synthesis (`sound/fmgen`, `sound/opna`), the BIOS
  services, the formats of disk images, and the translation tables. Tests against
  references are the better tool for them;
* input and output: host file sharing (`generic/hostdrv*`), menus and dialogs, fonts;
* copies: the ports of the same shell to other systems (`windows`, `x`, `macosx`, `sdl`) and the
  libraries in the tree (`libretro-common`, zlib, `softfloat`). The wx port was chosen for its thread, the
  others drive the emulator from one thread.

Left out although order matters in them:

* the FM timers, the MIDI receive ring and the mouse have the shape of `Pit` or `Rs232c`;
  hard disks that of `Fdc` without its timers;
* the sound stream meets its consumer under a lock (`SNDCSEC`), the keyboard's ring the UI thread
  under none (`wx/kbtrans.cpp:137`): every counter of `Keyboard` could then change between any two
  accesses, and none of its properties would be left to check. The race is listed as a hazard;
* saved states are the composition of all other modules, beyond a small instance;
* counters 1 and 2 of the timer, the transmitter of the serial port, the remote DMA of the
  network board and clients of the DMA controller that refuse.

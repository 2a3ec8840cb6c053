# rabbits: TLA+ models, checks and proofs

rabbits simulates a multiprocessor: SystemC devices on a network-on-chip
around QEMU, which executes the processors' instructions and calls into the
wrapper for every bus access, interrupt acknowledge and synchronisation.  The
modules here model the parts of it whose correctness is a matter of order:
threads that wait for events which are not remembered, requests and responses
in bounded queues, interrupt lines computed from several inputs, devices whose
threads work while software goes on writing their registers, drivers that meet
their interrupt handlers, processes of the host that share memory with a
device.

Paths below are relative to `src/`; `components/` is `src/rabbits/components/`,
`drivers/` is `src/platforms/roger/soft/linux/drivers/`.

## Contents

| Module | What it is | Code |
|---|---|---|
| `MwsrFifo` | queue of the interconnect: ring, events, several writers, one reader | `components/abstract_noc/mwsr_ta_fifo.cpp` |
| `BoundedFifo` | what that queue promises | abstract |
| `NocTransport` | request pool of a CPU, dispatchers, slave and master devices | `qemu_wrapper_request.cpp`, `qemu_cpu_wrapper.cpp`, `interconnect_*.cpp`, `slave_device.cpp`, `master_device.cpp` |
| `BusMemory` | what the bus promises: a memory with write buffers | abstract |
| `AddressMap` | the two searches of the address map, three platforms | `interconnect_master.*`, `qemu_wrapper.cpp`, `platforms/*/maps`, `main.cpp` |
| `MemDevice` | the bytes of an access: lines, masks, lanes | `mem_device.cpp`, `sram_device.cpp`, `master_device.cpp` |
| `ByteMemory` | what a memory promises: an array of bytes | abstract |
| `ExclusiveMonitor` | the exclusive list behind load- and store-exclusive | `platforms/*/main.cpp` |
| `Mailbox` | mailboxes, the hardware semaphore and a driver that sends | `components/sl_mailbox`, `components/sem`, `drivers/ecmgr_drv` |
| `QemuInterrupts` | interrupts, masks, software interrupts and sleep of the CPUs | `qemu_wrapper.cpp`, `qemu_cpu_wrapper.cpp` |
| `CpuClock` | cycles, frequency levels, counters and time of the CPUs | `qemu_cpu_wrapper.cpp`, `cpu_logs.cpp`, `drivers/qemu_drv` |
| `EnergyTrace` | samples of energy and their average | `components/etrace/etrace_if.cpp` |
| `Aicu` | the interrupt controller | `components/aicu/aicu_device.cpp` |
| `Timer`, `SlTimer` | the two timers | `components/timer`, `components/sl_timer` |
| `SlBlockDevice` | the disk, its control thread and its bus master | `components/sl_blockdevice/sl_block_device.cpp` |
| `HostDisk` | the Linux driver of the disk, over `SlBlockDevice` | `drivers/rabbits_host_access` |
| `ByteFile` | what that driver promises: a file and its descriptors | abstract |
| `TtySerial` | the console's input: reading thread, ring, interrupt | `components/tty_serial/tty_serial_device.cpp` |
| `FbViewer` | the conversions of the viewer, from bytes to pixels | `rabbits/tools/fb_viewer/src/fb_viewer.c`, `conv.c` |
| `Framebuffer` | image buffers, display and DMA, interrupt, and the viewer process | `framebuffer_device.cpp`, `fb_viewer.c` |
| `FbDriver` | its Linux driver, over `Framebuffer` | `drivers/rabbitsfb` |
| `Xramdac` | the viewer process of the SoCLib displays | `rabbits/tools/ramdac/src/xramdac.c` and the devices' ends of it |
| `SlFramebuffer`, `Ramdac` | the two devices that show pictures with it | `components/sl_framebuffer`, `components/ramdac` |
| `DbfDevice` | the deblocking filter: threads, registers, interrupt | `components/dbf/dbf_device.cpp` |
| `DbfDriver` | its Linux driver and two processes, over `DbfDevice` | `drivers/h264dbf_drv` |
| `DbfImage` | what its slices and its copy do to the picture | `dbf_device.cpp` |
| `DbfFilter` | its arithmetic | `dbf_device.cpp` |
| `DbfPorts` | its bus ports | `dbf_device.cpp` |
| `InterconnectProofs` | theorems about `NocTransport` and `MwsrFifo` | |
| `CpuProofs` | about `QemuInterrupts`, `CpuClock` and `EnergyTrace` | |
| `AicuTimerProofs` | about `Aicu`, `Timer` and `SlTimer` | |
| `MemoryProofs` | about `MemDevice`, `AddressMap`, `ExclusiveMonitor` and `Mailbox` | |
| `DiskProofs` | about `SlBlockDevice` and `HostDisk` | |
| `HostProofs` | about `TtySerial`, and about `FbViewer`, `SlFramebuffer` and `Ramdac` as `MCHost` joins them | |
| `FbProofs` | about `Framebuffer` and `FbDriver` | |
| `DbfProofs` | about `DbfFilter`, `DbfImage`, `DbfPorts`, and `DbfDriver` over `DbfDevice` | |
| `MCInterconnect`, `MCCpu`, `MCAicu`, `MCMemory`, `MCHost`, `MCDbf` | values for the runs, and the components that share a run | |

## The system

### Scheduling

Everything runs in one SystemC simulation.  A process (`SC_THREAD`) runs until
it calls `wait`; nothing preempts it.  So an action of the models is the code
between two waits, and all interleavings at the waits are explored.  Facts of
the SystemC kernel that decide much of what can go wrong, and that the models
keep:

- `notify()` makes the processes ready that wait *now*; it is not remembered.
  A process that starts to wait a moment later sleeps on.  `notify(0, SC_NS)`
  happens at the end of the delta cycle instead, and a later `notify()` of the
  same event cancels it.
- A write to an `sc_signal` is seen in the next delta cycle, and a process
  sensitive to several signals runs once for all that changed.
- Time passes when nothing can run in the present instant.

QEMU is not in this repository (a submodule).  It runs a CPU inside that CPU's
`cpu_thread` until the CPU is halted, has consumed its cycles, or makes a bus
access, and each access is a call that waits for the answer.  Drivers run in the
simulated Linux: a register access of a driver is one step, between two of them
the devices, the interrupt handler and (on several CPUs) other processes go on.
Viewers are processes of the host, tied to a device by shared memory and
signals.

### Components

| Component | State | Operations | Interacts with | What is hard | What makes it correct |
|---|---|---|---|---|---|
| `mwsr_ta_fifo` | ring, read and write index, two events | `Write`, `Read`, `Reset` | every port of the interconnect | events that are not remembered, several writers woken for one slot | it is a bounded fifo, nobody sleeps beside a slot he waits for |
| request pool, accesses of a CPU | free and busy requests, each with `bDone` and an event; `evEmpty` | `read`, `write`, `rcv_rsp`, `GetNewRequest`, `FreeRequest`, `WaitWBEmpty` | QEMU above, interconnect below | writes are posted; ids are reused; the pool is finite | reads and device writes come after the CPU's earlier writes; each response reaches the access it answers; the pool never runs out |
| interconnect | request queue per master, response queue per master, queues per slave | `put`, `get`, the two dispatchers | masters and slaves | queues are full; a dispatcher holds one item while it waits | nothing lost, doubled or overtaken; the two directions do not block each other |
| `slave_device`, `master_device` | the request being served; the response being built | `request_thread`, `send_rsp`, `send_req`, `response_thread` | every device | a request that arrives while one is served would be dropped | one request at a time |
| address map | windows of the slaves | lookups by dispatcher and by QEMU's direct access | map files | two lookups with different boundary conditions | a memory is one memory, however it is reached |
| `mem_device`, `sram_device` | bytes | `read`, `write` by mask | the bus | masks, lanes and widths in four places; refused accesses | it is an array of bytes |
| exclusive list | list of (word, CPU or set of CPUs) | mark, test, clear | QEMU | other CPUs between load, test and store | no lost update |
| `sem_device`, `sl_mailbox_device` | lock bytes; command, data and status of each box | register accesses | several CPUs, `ecmgr_drv` | overwritten before read; the lock is taken in two ways | a message is received once, whole |
| `qemu_wrapper`, interrupts | one enable mask; raw and enabled status, global and per CPU; software interrupts and line per CPU | `interrupts_thread`, `set_int_enable`, `generate_swi`, `swi_ack`, vector registers, halt | inputs, CPUs, QEMU | one run for several edges; copies kept up to date in three places; two causes share one line; sleeping CPUs | the line is high exactly while something is pending; nobody sleeps on an interrupt |
| `qemu_cpu_wrapper`, time; `cpu_logs` | cycles consumed, frequency level, latched register halves; time at each level | `consume_*`, `sync`, `set_cpu_fv_level`, time and cycle registers | QEMU, other CPUs, etrace | levels change while cycles are slept through; 64-bit values read as two halves | cycles take the time of the levels they were spent at; a pair of halves is one instant |
| `etrace` | mode of each peripheral, list of samples, rolling history, a measure | mode change, sample, start and stop of a measure | every device with modes | a change at the end of a sample; a history that is not full | a sample holds the energy of its period |
| `aicu_device` | per output: mask, status, current interrupt; shared inputs | register accesses, `irq_update_thread` | devices, `qemu_wrapper` | edges against acknowledges; the current interrupt is cached | an edge stays pending until acknowledged; outputs follow |
| `timer_device`, `sl_timer_device` | period, mode, pending interrupt | register accesses, thread, `irq_update_thread` | software, aicu | acknowledge, change of period and end of period are the same event; unsigned differences | whole periods, no interrupt missed |
| `sl_block_device` | registers, operation in progress, disk | register accesses, `control_thread`, `irq_update_thread`, bus master | software, memory | errors in mid-transfer; registers rewritten during an operation | a success means the blocks are there |
| `rabbits_host_access` | state of the device, descriptors, one buffer | open, name, read, write, seek, release | `sl_block_device`, programs | failures that change the state all descriptors share | one file of bytes |
| `tty_serial_device` | ring of input, mask, level | register accesses, `read_thread`, `irq_update_thread` | terminal process, software | ring full; last character taken while one arrives | no input lost or swapped |
| `framebuffer`, `rabbitsfb`, `fb_viewer` | image buffers, start/stop, DMA; descriptors of waiting processes | register accesses, `display_thread`, `start_stop_thread`; interrupt service, register, wait | viewer process, memory | swap during DMA, lost notifications, handler without the lock | an image displayed is shown whole, its end is reported once |
| `sl_framebuffer`, `ramdac`, `xramdac` | image buffers, turn, conversion | word writes | viewer process | the end of an image is inferred; the turn is counted on both sides | the picture completed last is shown |
| `dbf_device`, `h264dbf_drv` | ports, slices, status; descriptors | register accesses, slice threads, copy; service, register, wait | software, memory | single response slot; slices finish during acknowledge; slices share a picture | no response and no interrupt lost; slices independent |
| `tty`, `sl_tty`, `tg`, other host tools | buffers of a pipe | output | host processes | little | not modelled |

The hazards of each, with their lines and the properties about them, are listed
in `PROJECT.json`.

## The models

Each model names in its comments the function an action stands for; the lines
are in `PROJECT.json` under `map`.

### The queue: `MwsrFifo`, `BoundedFifo`

State: the ring (`fifo`, slots `0 .. Size`, `m_size` = `Size + 1`), `ridx`,
`widx`, and for the reader and each writer where it is: running, waiting
(`wait(can_write)`, `wait(can_read)`) or woken.  `TryWrite` is `Write` up to its
wait or its end, `ResumeWrite` what a woken writer does, likewise `Read`.  A
woken writer tests `IsFull` again (the code loops), which matters: `Read` wakes
all writers for one slot.

- `NoLostWakeup`: whoever is in `wait` has its condition false.  This is what a
  mistake with unremembered notifications breaks.
- `RefinesFifo`: the ring, seen as the sequence between the indices, behaves
  like `BoundedFifo`.

That a particular writer ever succeeds is *not* claimed: another may take the
slot each time.

### The bus: `NocTransport`, `BusMemory`

State: per CPU the free and busy requests of the pool and what its thread does
(`run`, `drain`: waiting for the pool to empty, `put`: blocked on the
interconnect's queue, `wait`: for `evDone`); the queues `mReq` (master to
dispatcher), `sReq` (to slave), `sRsp`, `mRsp` and what a dispatcher holds
between its two waits; per slave device what `request_thread` does; the memory.

The actions follow the code's waits: `Access` (up to the first wait of `read` or
`write`), `FireEmpty`, `FinishPut`, `Complete`, `ReceiveResponse`, `TakeRequest`
and `DispatchRequest` (the dispatcher waits 3 ns between them and may block in
the second), the same for responses, `GetRequest`, `Serve`, `Respond`.  The
queues are taken as the `BoundedFifo` that `MwsrFifo` is proved to be, with room
and emptiness tests as guards.

`Posting` is the set of CPUs with unblocking writes, which
`set_unblocking_write ()` of their wrapper chooses when the platform is built.  A
posting CPU does not wait for a write to RAM; it waits for an empty pool before a
read or an I/O access.

- `TransactionsConserved`: a busy request is carried by exactly one message, a
  free one by none.  Responses are matched by id only, so this is what makes
  the matching right.
- `RefinesMemory`: values, and with them the order: what reads return is what a
  memory returns to which each CPU posts its writes, and which performs those of
  a CPU to one slave in their order.  A posted write is a write request anywhere
  between the thread that issued it and the device; a value names its writer and
  its place in the program, so the set of posted writes keeps their order.
- `AccessReturns`: the two directions never wait for each other.
- `NeverOutOfRequests`, in the full path of `noc_pool`.

**The pool.**  `GetNewRequest` exits the simulation when the pool is empty, and
a posting CPU is held back only by full queues.  With `Q` the depth of a queue and
`M` memories, a path holds `2Q + 1 + M(2Q + 2)` transactions of one CPU: two queues
and the dispatcher on the master's side; two queues, the device and the dispatcher
on the side of each memory; and one more where there are slaves that are not
memories, since an access to these is not posted and comes after the pool is
empty.  That a larger pool never runs out is a theorem (`PoolSuffices`).
With `Q = 8`, a roger with two memories needs 54 of its 100 requests; with five
memories, 108, the pool would not suffice.  `noc_pool` shows the formula to be
tight: at `Q = 1` with one memory it gives 7, and a pool of 8 never runs
out although 9 writes are made.

### Addresses and memories: `AddressMap`, `MemDevice`, `ByteMemory`

`AddressMap` has the tables of three platforms, windows in their order and next
to their neighbours, cut to a few addresses each.  A memory is reached over the
bus (`dispatch_requests_thread`: `begin <= a < end`), by the pointer that QEMU
asks for (`get_slave_id_for_mem_addr`: `begin <= a <= end`), and by the loader of
images.  `OneMemory`: these are one memory, although the second search takes the
end of a window in.  It holds by the order of the tables: where a memory's end
is the beginning of another memory, that one comes first or is not one that
the pointer would be asked for.  Two facts outside the property: the first
byte of the tty of roger and energizer is, by pointer, a byte past `sram`; and
thumper keeps the boot code of its other processors behind the memory.

`MemDevice` is the data path of one access, in sets of lanes:
`master_device::send_req` makes line, mask and lanes from the address, the
device interprets the mask in its switch, `response_thread` finds the first
enabled lane again.  `rdata`, the response buffer, is never cleared.
`IsByteArray`: all this is an array of bytes.  Accesses the switches do not know
(unaligned ones) may be refused; aligned ones never are.  Accesses across an
8-byte line are split by the simulator before the bus and are outside the model;
so are bursts, which return a host address.  `long` is 32 bits wide, as this
code assumes; compiled for 64 bits, `mem_device::write` would scale word
accesses by eight.

### Locks and messages: `ExclusiveMonitor`, `Mailbox`

The CPUs alternate load- and store-exclusive on words of their choice.
`platform` selects the list: sets of loaders (roger) or the first loader
(energizer, thumper).  `YieldingStores` are the platforms where other CPUs may
run between test and store.  On energizer and thumper the entry is cleared
after the store, so `NoLostUpdate` holds with such yields.  roger drops the entry
in the test: there it is checked with test and store in one step, and the model
with `"roger" \in YieldingStores` loses updates.  Whether QEMU yields at that
point is outside this repository.

`Mailbox` has mailboxes of four registers, found from offset and byte enables as
in the code, each behind a register of `sem_device`.  A sender takes the lock by
reading 0, the first one by a write, polls the status and makes the three writes
of `ecmgr_drv_chr_ioctl_send_use`; a receiver reads on the interrupt and resets.
`MessagesArrive`: messages are received whole, in order, once.  The device itself
has no flow control, and `ecmgr_drv` does not look before it writes: this is the
protocol that makes it safe, and senders and receivers are the environment.  A
second write of 1 to a lock that is held ends the simulator; nobody makes one.

### Interrupts of the CPUs: `QemuInterrupts`

Masks are sets of interrupt numbers.  State: the input signals as written and
as handled (`UpdatePorts` is the update phase of a delta cycle), the one enable
mask, the raw and enabled status globally and once more per CPU, pending
software interrupts, the line to the simulator, and whether the CPU sleeps.
`IrqCpus` routes interrupts to CPUs, `EnableWriters` are the CPUs whose software
writes the mask.

`InterruptsThread` is one run of `interrupts_thread` with all edges of the delta
cycle; `SetIntEnable`, `GenerateSwi`, `SwiAck`, `Halt` and the vector register
(`MaxIntPending`) are the register accesses.

- `LineFollowsSources`: the line is high exactly while an enabled interrupt or
  a software interrupt is pending for the CPU.
- `InterruptWakes`: stated for CPUs whose interrupts no other CPU enables
  (`OwnEnable`).  `set_int_enable` raises lines without `wakeup()`; if another
  CPU enables an interrupt for a sleeping one, it sleeps on.  On the platforms
  all interrupts are routed to one CPU, whose kernel writes the mask.
- `InterruptHasVector`: a CPU whose line is high for a hardware interrupt reads
  a vector of an interrupt that is high and enabled.  It need not be one routed to
  that CPU: the register looks at the status of all CPUs together.

### Time and energy of the CPUs: `CpuClock`, `EnergyTrace`

A CPU consumes a slice of cycles by sleeping as long as they take at its level
(`Consume`, `Account`, a loop around `wait(..., m_ev_sync)`); meanwhile others
change that level (`WriteLevel`, the three registers the `qemu` driver writes)
or read its counter (`ReadCycles`: notify, wait a delta cycle, `ReadLow`,
`ReadHigh`), and `timeout_thread` notifies everybody.  Besides, a CPU sleeps until an
interrupt (`Doze`, `Wakeup`) and waits for the bus (`Access`, `AccessDone`, for the
CPUs in `Masters`).  A level is a speed in
units of work per tick and a cycle is `Cycle` units, so that the arithmetic
which the code does in doubles is exact here; rounding to the tick is kept.

- `CyclesTakeTheirTime`: a slice takes the time of its cycles at the levels that
  were set while it lasted.
- `TimeIsAtItsLevel` says what the log of the time at each level gets, and that it
  gets nothing else.  For a slice, every level gets the time spent at it, in
  nanoseconds, though others change the level while the CPU sleeps; a sleep until
  an interrupt goes to the idle place.  An access of the bus goes in wrongly, and the
  property says so: see "Facts the properties state as they are".
- `CountIsFresh`: a counter read by another CPU is up to date, but for what each
  interruption rounds off, and two halves read as a pair belong to one instant.
  The latch is one for all counters of a CPU, so software that reads an odd
  number of halves mispairs all later ones; the property is about pairs.

`EnergyTrace` is `etrace_if`: `ChangeMode`, the sample at the end of a period
(`Sample`), `RollAverage`, and a measure that is started and stopped.
`EnergyIsIntegral`: a sample holds what each peripheral used in its period,
wherever in it modes changed, the average is that of the last samples, and a
measure that of its section.  A measure stopped before its first sample divides
by zero and is left out.

### Interrupt controller and timers: `Aicu`, `Timer`, `SlTimer`

`Aicu`: outputs with local inputs, shared (global) inputs, one
`irq_update_thread`.  `CurrentIsPending`: when the thread has nothing to do, each
output is up exactly if something unmasked is pending for it and the current
interrupt is the lowest of these; outputs not recomputed since a reset of the
controller are excepted, since `reset_registers` does not wake the thread.
`NoEdgeLost`: a rising edge seen while the controller is on is in the status
until software clears it.  `PendingIsSignalled`: what stays pending and enabled
reaches the output.

`Timer` keeps the two waits of `timer_thread` and the one event that tells it of
a new divisor and of an acknowledge, with SystemC's rules for time: it advances
when no process can run.  `expected` is what software may count on.
`InterruptsOnTime` is about software that acknowledges only a raised interrupt
and writes the divisor only between interrupts; a write of the divisor while the
interrupt is up acts as an acknowledge, and an acknowledge without an interrupt
ends the period at once.

`SlTimer` keeps the counter since the last start and the deadline apart, as the
code does.  `PeriodsAreWhole` holds for any software, but a timer started after
its period was written has a first tick that is late by the time in between.
Also facts of the code: a stopped timer goes on interrupting if its interrupt is
enabled, and a write of mode or period forgets a pending interrupt.

### The disk and its driver: `SlBlockDevice`, `HostDisk`, `ByteFile`

The slave half's registers (`WriteSetup`, `WriteOp`, `WriteIrqEnable`,
`ReadStatus`), `control_thread` with one action per bus access, each of which
may fail, and `irq_update_thread`.  Bytes of disk and memory carry their origin,
so a misplaced byte is seen.  `ret` (the code's `func_ret`) starts undefined and
survives operations, as in the code.  `BLOCK_DEVICE_OP` values outside the four
known ones, which make `control_thread` spin without waiting, are not written.

- `TransfersAreWhole`: a success means the right bytes are in place, including
  the second loop of a read, which retries a failed word byte by byte, and reads
  past the end.  For writes it is stated for software that does not rewrite the
  registers during the operation (`touched`): `m_lba` of a write is read only
  when the data has been loaded.
- `InterruptMeansDone`: the line, at rest, is only high for a success not yet
  acknowledged.  The converse does not hold: errors end without an interrupt.
- `OperationsEnd`: with the bus answering, every operation ends.

`HostDisk` is rabbitsha over that device with blocks of one byte: open and name,
read, write, seek and release of several descriptors, each register access a
step.  `state` and the buffer belong to the device, not to a descriptor, and
there is no lock, so the model is of programs that call one at a time.

- `RefinesFile`: through every descriptor programs see one `ByteFile`.
- `StateIsRight`: whatever fails, the driver talks to the disk only with a file
  open and a descriptor held.

Outside of it: a write of no bytes after a read at the end of the file leaves the
driver without file, and a read that comes back short copies old bytes behind
what it returns.

### The console: `TtySerial`

`read_thread` (one action per stretch between waits: `Poll`, `Retry`), the ring,
`irq_update_thread` and the register accesses.  `DeliverRead` is the end of the
delta cycle in which `evRead.notify(0, SC_NS)` takes effect.  Characters are
numbered as typed.  `InputInOrder`: what software read, the ring, the character
that `read_thread` holds and the pipe are together the characters typed, in
order.  `InputIsRead`, with fairness: they are all read.

### Displays: `Framebuffer`, `FbDriver`, `FbViewer`, `Xramdac`, `SlFramebuffer`, `Ramdac`

Device and viewer share two buffers.  `display()` makes the other buffer current
(`memIdx`) and notifies `display_thread` (`StartDisplay`, `Transfer` per word),
which signals the viewer; the viewer (`Refresh`, `Copy` per word) has an index of
its own that it turns at each signal.  A word of an image is the address of the
image it belongs to.  `job` holds the thread's locals; `frame` and `aligned` are
history.

- `ScreenIsImage`: an image displayed is on the screen, whole, and what software
  writes next is neither transferred nor copied.
- It holds for software that waits for an image before it touches the device
  (`Paced`), and for a viewer that has finished by then, which the device does
  not report.  Software that displays during a transfer loses the notification
  while the buffers are swapped: from then on device and viewer are one buffer
  apart.  The same follows from `rabbitsfb_reset` after an odd number of images,
  since the viewer starts with buffer 0 and `mem_idx` is kept (`aligned`).
- `Software` writes the registers in any order, but displays only while the
  device runs and stops it only between images.  Otherwise the simulator itself
  fails: `uninit` unmaps the buffers and leaves `mem_size`.
- A read of an image word returns `tmp & ~mask`, which is 0 for a whole word
  (`framebuffer_device.cpp:677`): nothing here reads images back.

`FbDriver` puts the driver on the device, with `Words = 1`: reset, address and
DMA, registration, display, wait, unregistration and release; the handler in two
steps (`Service` acknowledges, `Wake` marks the descriptor), the process in one
step per access that matters.  `smp` says whether handler and process run side by
side, or the handler between two steps of the process where `irq_lock` is not
held.  `PendingIsOwed`; `ImageReported` for a process that polls on one CPU.  On
several CPUs the handler, which takes no lock, can set `pending` between the
reading and the clearing in `rabbitsfb_int_wait`, and that image is never
reported.

`FbViewer` has every conversion of `fbviewer` from the bytes of an image to
pixels: packed and 32-bit colours, planar and interleaved YUV, byte orders and
the pixel formats of the host.  A byte of the screen is where it came from.
`GREY`, which the device knows, has no conversion; YUV images of odd sizes are not
handled by the loops and left out.

`Xramdac` is the viewer of the SoCLib displays: `SIGUSR1` pending or not, a
handler that copies cell by cell, a turn of its own.  `SlFramebuffer` shows a
picture when the first byte of the next one is written, `Ramdac` when the last
word is.  `PictureIsWhole` joins these: the picture completed last is on the
screen and nothing else, each pixel with its own samples.  Facts of the code that
the models keep: a signal before the process has its handler kills it; the first
thing `sl_fb_device` displays is the empty buffer and the last picture is never
displayed; two of its three YUV conversions are empty (`Plain` and `YV16` are
what the property is about); `components` of `ramdac` is not initialised, and if
it is not 0 the device never becomes ready.

### The deblocking filter: `DbfDevice`, `DbfDriver`, `DbfImage`, `DbfFilter`, `DbfPorts`

Four sides that share no state but the interrupt and the order of jobs.

`DbfDevice` has the interrupt registers, the slice threads, the thread that
copies the frame and the one that sets the output.  `DbfDriver` puts the driver
above it with two processes, one that filters frames and waits for all slices and
one that has them copied, and the handler in three steps (`ReadStatus`, `Ack`,
`Wake`).

- `PendingIsDone`: what a descriptor holds is the end of the job its process
  started; no end counts twice.  `JobReported`: on one CPU a process that
  polls finds it.
- `HandlerAnswers`: the output is up exactly while something finished and
  enabled is not acknowledged, and then bit 7 is set, without which the handler
  takes it for nobody's interrupt.

The handler serves descriptors `0 .. nb_irq_en - 1`, so the processes of the model
register and unregister in the order that makes this right; `REG_INT_ENABLE` is
changed without the lock when a process unregisters, so they do not do both at
once.  The ioctl of the wait does not copy the bits it collected to the program.

`DbfImage`: slices of any partition of a picture are cleared and filtered in
place, in any order; a macroblock is the sequence of the edges that touched it.
`SlicesAreApart`: each slice is as if it were alone, whatever column it begins
at, because of the edges that `filter_slice` skips.  Then the copy walks the
blocks in four nested loops; `CopyIsRaster`: memory gets the picture line by line, at
consecutive words if the address is incremented, and otherwise all at one word,
which is not always the one software named: see "Facts the properties state as they
are".
The pictures are those that fit in `REG_GLO_VER`: the 1584 macroblocks of a 4CIF
picture do not, 416 do.

`DbfFilter`: strength, thresholds from the three tables, both filters.
`get_bS` tests `qx % 16` also for horizontal edges (`aligned` is an input).
`alpha_t` is an array of `char`: where `char` is signed its values above 127 are
negative and such edges are not filtered.  Only the samples at the edge are
clipped; `NoSampleWraps`: the others need it not.

`DbfPorts`: requests are answered from one member, `m_response`, by a thread whose
event may be missed.  `ResponsesInOrder` holds because a request takes 3 ns and
the dispatcher of the interconnect 1 ns; with no delay in `request` it fails.  A
request without byte enables would never be answered; there is none.

## Runs

Several runs hold components that do not interact.  Their module (`MCInterconnect`,
`MCCpu`, `MCAicu`, `MCMemory`, `MCHost`, `MCDbf`) has a variable
`part`, chosen in the initial state and never changed: it says which component
moves, and the others stay in an initial state.  State spaces then add up instead
of multiplying, each component is explored as if it were alone, and a property of
one is checked where it moves.  Where components do interact, one module extends
the other and their state is one: `FbDriver` on `Framebuffer`, `HostDisk` on
`SlBlockDevice`, `DbfDriver` on `DbfDevice`, `SlFramebuffer` and `Ramdac` on
`Xramdac`.

Every run ends within about three minutes with two workers.

| Run | Properties | Instance | Distinct states | Why this size is enough |
|---|---|---|---|---|
| `interconnect` | `TransactionsConserved`, `RefinesMemory`, `AccessReturns`, `NoLostWakeup`, `RefinesFifo` | a posting and a blocking CPU, RAM and device, queues of 2, pool of 3, 2 accesses each; a ring of 3, 3 writers, 2 items | 93,424 | a request behind another in a queue, both CPUs at one slave, one CPU at both; the ring wraps at every position, two writers wait while one overtakes |
| `noc_pool` | `NeverOutOfRequests` | one posting CPU, one RAM, queues of 1, pool of 8, 9 writes | 308,093 | every queue and every dispatcher full at once |
| `cpu` | `LineFollowsSources`, `InterruptWakes`, `InterruptHasVector`, `CyclesTakeTheirTime`, `TimeIsAtItsLevel`, `CountIsFresh`, `EnergyIsIntegral` | 2 CPUs, 3 interrupts, one routed to both; 2 CPUs at two speeds, slices of 2 cycles, one CPU with accesses of the bus, until time 4; 2 peripherals of two modes, samples of 2, history of 2, until time 7 | 1,738,346 | two edges in one delta cycle beside a third that stays up; levels changed more than once in a slice, readers within it; the history is filled and turns over |
| `aicu` | `CurrentIsPending`, `NoEdgeLost`, `PendingIsSignalled`, `InterruptsOnTime`, `PeriodsAreWhole` | 2 outputs, one local input each, one shared; divisors and periods 0, 1, 2 until time 5 | 472,390 | local and shared inputs change together, outputs disagree about a shared one; two whole periods and a change at every instant of them |
| `disk` | `TransfersAreWhole`, `InterruptMeansDone`, `OperationsEnd` | words of 2, blocks of 2, a disk of 3 of 6 bytes, counts 0 and 2, 2 operations | 408,702 | full words, an odd byte, end of disk, failure at each access |
| `host_disk` | `StateIsRight`, `RefinesFile` | 2 descriptors, blocks of 1, buffer of 2, sizes 0, 1, 3, 3 calls | 105,940 | a request larger than the buffer, one descriptor's failure before another's call |
| `memory` | `IsByteArray`, `OneMemory`, `NoLostUpdate`, `MessagesArrive` | 2 lines, one word of four different bytes, 3 accesses, both devices; three platforms, 3 accesses; 3 CPUs, 2 words, both kinds of list, 3 stores; 2 senders, 2 mailboxes, 2 messages each | 131,263 | write, overlapping write or refused access, read; owner, second loader and bystander; a second message to a box not yet read |
| `console` | `InputInOrder`, `InputIsRead`, `ScreenIsImage`, `PictureIsWhole` | ring of 3, 7 characters; a framebuffer with images of 2 words at 2 addresses; conversions of six sizes; pictures of 4 x 2; ramdac with and without a limit on images | 290,278 | the ring is filled twice and wraps; a torn image has two words, a wrong one another address; both buffers of a viewer are used again |
| `framebuffer` | `PendingIsOwed`, `ImageReported` | the driver over the device: one process, images of one word | 289,944 | handler and process meet at every step, over several registrations |
| `dbf` | `PendingIsDone`, `JobReported`, `HandlerAnswers`, `SlicesAreApart`, `CopyIsRaster`, `NoSampleWraps`, `ResponsesInOrder` | 2 slices, 2 processes; 3 x 2 macroblocks in up to 3 slices, copied to two addresses; six rows of samples, quantizers 26, 44, 51, both signs of `char`; 2 masks, queue of 1, 3 requests | 115,367 | slices end between any two steps of the handler; slices that begin in each column; filtered again until nothing changes; a response due while another is blocked |
| `fb_wait` | `SleeperHasNothing` | the driver of `framebuffer` | stops at the violation | |
| `dbf_clear` | `EnableClears` | the driver of `dbf`, with a process that may be killed | stops at the violation | |

Bounds that are not in the code, each named in its module: `MaxOps` (accesses of a
CPU, operations of the disk, accesses of a memory), `MaxStores`,
`MaxMessages`, `MapOps`, `MaxAsked`, `MaxTyped`, `MaxSyncs`; the ends of time
`ClockEnd`, `TraceEnd`, `EndOfTime`, `Horizon`; the sizes `DiskBytes` and `MemBytes`.  They end a run; `CHECK_DEADLOCK FALSE` stands where the system
stops at them, or where everything may be at rest because software or the user
does nothing more.

### Fairness

- SystemC runs every ready process: weak fairness of the steps of each thread
  (`MwsrFifo`, `NocTransport`, `InterruptsThread`, `IrqUpdateThread`,
  `ControlThread`, `DisplayThread`, `Poll`, the threads of `DbfDevice`).
- The end of a delta cycle comes: weak fairness of `DeliverRead`.
- The bus answers every access of the disk (`AccessReturns` says why).
- The host runs the viewer (`Framebuffer`).
- Software is not fair in general; where a property needs a client it is named:
  `InputIsRead` needs a handler that reads while the line is up.
- A CPU takes a pending interrupt once interrupts are enabled again.  `irq_lock`
  disables them in between, so the first step of a handler (`Service` in
  `FbDriver`, `ReadStatus` in `DbfDriver`) is strongly fair; a handler that has
  begun goes on (weak).
- Programs that poll go on: weak fairness for the one process of `FbDriver`; strong
  for each process of `DbfDriver`, since the two take turns on one CPU and the
  handler comes between them.
- No other strong fairness is used: no property claims that one of several
  competing writers or CPUs is never overtaken.

## Findings

- `fb_wait`, `SleeperHasNothing`.  `rabbitsfb_int_wait` tests `pending` and then
  calls `prepare_to_wait` and `schedule()` without testing again
  (`drivers/rabbitsfb/rabbitsfb_int.c:269-272`; the comment says that the wait is
  skipped if the interrupt already occurred).  An interrupt in between wakes
  nobody, and the process sleeps on an image that has ended.
- `dbf_clear`, `EnableClears`.  `h264dbf_int_enable` acknowledges everything "to
  clear pending interrupts" (`drivers/h264dbf_drv/h264dbf_int.c:113-114`) before it
  enables any; the device acknowledges only bits that are enabled
  (`components/dbf/dbf_device.cpp:193`).  A job that ends after its process was
  killed stays in the status and raises the interrupt of the next process.

### Facts the properties state as they are

No comment, document or test of the repository claims otherwise, so these are not
findings; they look like mistakes, and a property that left them out would say more
of the code than is true.

- `TimeIsAtItsLevel`.  `systemc_qemu_read_memory` and `systemc_qemu_write_memory`
  (`components/qemu_wrapper/qemu_cpu_wrapper.cpp:676-704`) add the time of an access to
  the log in picoseconds; the other two writers of the log divide by 1000 (lines 131
  and 167).  And `qemu_cpu_wrapper::add_time_at_fv` (518-521) adds it to the level that
  is set when the access ends.  For a CPU that accesses the bus the log as a whole
  is therefore not the time at each level, nor are the graph and `get_cpu_ncycles`,
  which are computed from it, right; for slices and for idle time it is.
- `CopyIsRaster`.  `SEND_PACK` (`components/dbf/dbf_device.cpp:1249-1263`) enables the upper
  half of the bus for an address that is not a multiple of 8, but clears the low bits
  of the address only when it is incremented.  The memories add the lane to the
  address (`mem_device.cpp:85`, `124-127`; `sram_device.cpp:85`, `104-106`), so without
  increment the pixels go to the word after the one in `REG_SRAM_ADDRESS`.

## Proofs

All proofs hold for every value of the constants that meets the named
assumptions: the ring sizes, queue depths and numbers of lines are positive, there
are at most 32 interrupts, `NoItem` is not an item, divisors, periods and speeds are
numbers, samples are bytes, quantizers are those of the tables and peripherals are
finitely many.  These are
what the code's types and allocations give.  The bounds that end a run (`MaxOps`,
`ClockEnd`, ...) are constants like others: the theorems hold for each of their
values.  Every theorem is about `Spec`, without fairness.

- **Bus** (`InterconnectProofs`).  `NothingIsLost` (`TransactionsConserved`), for
  any number of CPUs, slaves, depth of queues and size of pool, and
  `PoolSuffices` (`NeverOutOfRequests`), if the slaves are finitely many and the
  pool is larger than `PathCapacity`.  The path of an access is seen as one family
  of queues (`Net`, indexed by `Places`: the queues, and what each thread holds as
  a queue of at most one), and every action is one of three operations on it: put,
  transfer of a head from one place to the tail of another, take.  The
  invariant `NocInv` says that a transaction is at most once in this family
  (`CarriedOnce`), that what is there is busy in the pool (`CarriedInUse`), that a
  message is on the way of its own CPU and address (`Home`), and that a CPU waits
  for a request which is busy (`Awaited`); transfers keep these for any places, so
  each action only has to be shown to be one.  `PoolSuffices` is then a count: if
  the pool were empty, all its requests would be on the path, each at a slot of its
  own, and there are `PathCapacity` slots.  Those outside memories share one,
  since there is one such access at a time (`OneOutside`: the CPU drained its pool
  before and waits for it).
  `BusIsMemory` (`RefinesMemory`): the bus implements `BusMemory`.  `PathInv` adds
  what that needs: two writes of a CPU to one slave are on the path in the order
  of their numbers, wherever each of them is (`InOrder`: the nearer the place to
  the device, or the nearer to the head of one queue, the smaller the number); a
  request is where its CPU or its address puts it (`WhereItBelongs`); a write
  carries a number its CPU has reached (`Numbered`); and the pool knows reads
  from writes (`Kinds`).  Of the steps, `Issue` posts a write or asks for a read,
  `Serve` performs a write or answers a read, `Complete` ends a read, and all
  others only move a message among the places of the same kind, which the
  memory does not see.
- **Queue** (`InterconnectProofs`).  `TypesOfRing`, `WakeupsAreNotLost`,
  `RingIsFifo` (`RefinesFifo`).  The indices stay in `0 .. Size`; the refinement
  maps the ring to the sequence between them, and the work is in modular
  arithmetic: a write appends to that sequence, a read takes its head.  The
  lost-wakeup invariant is inductive with the type invariant: only a read makes a
  full ring not full, and it notifies in the same step.
- **Interrupts** (`CpuProofs`).  The inductive invariant is
  `TypeOK /\ CopiesAgree /\ LineFollowsSources`; none of the three is inductive
  alone, because the thread updates the copies from edges and decides about
  lines from the copies.  `ScanDecides` states what the loop over the bits
  does, from the first and last elements of a set.  Theorems:
  `LineIsRight`, `CopiesDoNotDrift` (the global and per-CPU copies agree with each
  other and with the inputs), `SleepersAreWoken` (no CPU sleeps on an interrupt that
  it enabled itself), `VectorsAreReal`.
- **Time of the CPUs** (`CpuProofs`).  `CyclesAreWorked`, `CountsAreFresh`,
  `TimeIsLogged`, for any speeds; the last is about all that is added to the log, the
  accesses of the bus included, as the code adds them.  `Slicing`: a sleeping CPU has not slept past the
  time of what is left; what is left is what it has not worked; its counter
  is behind the work it accounted for by less than a cycle for each interruption;
  and all that passed since passed at one level, because a change of the level
  wakes it.  `Reading`: between the halves that software reads, the value does
  not change, and a CPU whose counter is waited for accounts for its time
  before the reader goes on.  The arithmetic is four lemmas about rounding.
- **Energy** (`CpuProofs`).  `EnergyIsCharged` (`EnergyIsIntegral`), for any finite
  set of peripherals, any costs, period and size of the history.  `SamplesInv`:
  there is one sample at most, and what a peripheral used is what it holds plus
  what its present mode costs since the later of the start of the sample and its
  last change; it has been charged in this sample exactly if it changed its mode
  after the start.  `RollInv`: the last samples are in the history at consecutive
  places before `index`, around its end once it is full.  `MeasureInv`: a measure
  holds the sum and the number of the samples of its section.  The lemmas
  about sums (`SumWithout`, `SumMoved`, `SumOfAppended`) hold for any finite set and
  any numbers: a sum is that of one element, whichever, and of the others.
- **Interrupt controller** (`AicuTimerProofs`).  `TypeCorrect`, `CurrentIsRight`,
  `EdgesAreKept`.  Strengthened by what the thread still owes (`Owing`: an output
  differs from its inputs only if the thread is to run) and what a controller
  that is off forgets (`Off`).
- **Timers** (`AicuTimerProofs`).  `TimerIsExact`: what software may expect follows
  from the wait `timer_thread` is in (`Polite`), and time does not pass over an
  event that is due.  `SlTimerIsExact`: counter and next period add up to the
  deadline (`Periodic`).  Both for any length of time.
- **Memory** (`MemoryProofs`).  `ArrayOfBytes`: every access, for every size
  of memory.  Three lemmas on lanes (an access enables exactly the lanes of
  its bytes; the first enabled lane is the offset; aligned masks are known)
  carry the refinement of `ByteMemory`.
- **Address map** (`MemoryProofs`).  `MemoryIsOne` (`OneMemory`), for the tables of
  the three platforms and any number of accesses.  `OnePlace`: every window that
  either search may choose for an address of a memory leads to the same byte
  (`Where`), no two addresses share one (`Apart`), and so an access by either way is
  a read or a write of that byte (`Accesses`).
- **Locks and messages** (`MemoryProofs`).  `UpdatesAreKept`, for any CPUs and words,
  under the assumption that on roger nothing runs between test and store
  (`"roger" \notin YieldingStores`; without it the property fails).  The
  invariant: the list has a CPU only while nobody has stored to its word since that
  CPU loaded it (`EntriesAreFresh`), and on the other platforms at most one CPU is
  between test and store of a word (`StorersAreAlone`).  `MessagesAreWhole`: who
  holds a lock is the only one in a box (`OneHolder`), and the registers hold
  what its place in the protocol says (`Filled`).
- **Disk** (`DiskProofs`).  `DiskInterrupts` (`InterruptMeansDone`) and `BlocksArrive`
  (`TransfersAreWhole`), for all sizes of disk, block, word and memory.  `Reading`
  and `Loading` say, at every access of a transfer, which bytes are where: those
  before the pointer are right, whole words first and then the bytes of
  the second loop; `StatusIsTrue` ties the line to `STATUS`.
- **Driver of the disk** (`DiskProofs`).  `DriverIsRight` (`StateIsRight`) and
  `DiskIsFile` (`RefinesFile`), for all numbers of descriptors, sizes of requests and of
  the buffer.  The invariant puts the driver's place in a call (`CallInv`) beside
  the device's registers and the contents of the buffer (`DeviceInv`), on top of
  the invariant of the device.  Blocks are of one byte, as in the model.
- **Console** (`HostProofs`).  `TypeCorrect`, `LineFollows`, `WakeupsAreKept`,
  `InputIsOrdered`.  `InputInOrder` is strengthened to `Numbered`: position by
  position, ring, held character and pipe are consecutive numbers.
- **Framebuffer** (`FbProofs`).  `ImageIsShown` (`ScreenIsImage`), for images of any
  size: at each word of a transfer and of a copy, the words before it belong to
  the image and those after it to the one before, and the buffer the other side
  works on is the other one.  `LineOfFramebuffer`: the interrupt is up exactly
  while an end is not acknowledged.
- **Driver of the framebuffer** (`FbProofs`).  `PendingIsRight` (`PendingIsOwed`).
  `OneEnd`: the end of an image is at one place on its way from the device by the
  handler to the descriptor.
- **Screens** (`HostProofs`).  `PicturesAreWhole` (`PictureIsWhole`), for the
  specification of `MCHost` and pictures of every size.  Viewer: `ViewerInv` has
  each pixel computed so far as a function of its number; `PackedRight` and
  `YuvRight` show that the offsets the loops compute are those of the pixel's own
  column and row, whatever the mode and the byte orders, and lie in the image.
  `xramdac`: `PictureShown` is strengthened to `Follows`: the image the device does
  not write holds the picture completed last, the viewer's turn is that image
  as long as a signal or a copy is on its way and the other one otherwise, and
  the cells copied so far are of that picture.  `SlInv` and `RamdacInv` add how much
  of the image being written is of the picture being written; that the position
  reaches the end of the image with its last word, and that the conversion of a
  picture in `YV16` reads words of that picture only, are arithmetic for all
  sizes.
- **Deblocking filter** (`DbfProofs`).  `SamplesStayBytes`, for all samples and
  quantizers: thresholds are never negative, so the second sample moves
  towards an average of bytes and not past it, and the strong filter only takes
  averages.  `CopyOfPicture` (`CopyIsRaster`): for all sizes of picture, the four
  loops are at the position their counters say, and the half of the bus is that of
  `adr_dest`, incremented or not.  `SlicesOfPicture`
  (`SlicesAreApart`), for all pictures and slices: the registers of the slices hold
  ranges that are apart (`CutsOfRegisters`, `SlicesDisjoint`); the edges
  `filter_slice` skips are those whose other side is not in the slice
  (`SkippedVertical`, `SkippedHorizontal`, the second by the rows and columns the
  code compares); after the passes `D` a macroblock of the slice holds
  `History(D, b)`, which `FilterOne` extends by one macroblock and `EndOfWalk` by
  the whole slice.  The recursive function of the model is its unique solution
  (`TheWalk`), by induction in the form of `LeastNumber`: a set of numbers has a
  least one.  `ResponsesOfFilter`
  (`ResponsesInOrder`): a request is at one place only, and the times of the
  waits keep the next one away from `m_response` while it is occupied
  (`OnePlace`).
- **Driver of the filter** (`DbfProofs`).  `InterruptOfFilter` (`HandlerAnswers`), and
  `PendingIsEnd` (`PendingIsDone`), for any number of slices, as long as no process
  is killed (`~Killed`), which the run assumes too: `dbf_clear` shows what happens
  otherwise.  `InTurn`: the two processes register and unregister in turn.
  `Work`, `OneEnd`: each job a process started is at one place, running,
  finished in the status, read by the handler or marked in the descriptor.

Only model-checked are the liveness properties: `AccessReturns`, `InterruptWakes`,
`PendingIsSignalled`, `OperationsEnd`, `InputIsRead`, `ImageReported` and
`JobReported`.  The prover has neither fairness nor `ENABLED`.  Every invariant,
action property and refinement that a passing run checks is also a theorem.

## Not modelled

- QEMU: not in the repository.  Its calls are the environment of the models.
- `tty`, `sl_tty`: every write goes at once to a pipe.  `tg`: a test bench that
  replays a file through `master_device`.
- Host tools that draw what a pipe brings (chronograph, the viewers of the
  statistics and of the energy): one direction, no protocol.
- Parsing of map files and command lines, construction of the platforms, drawing.
- Delays that only separate steps (`wait (3, SC_NS)`), except where a property is
  about time (`Timer`, `SlTimer`, `CpuClock`, `EnergyTrace`) or needs them
  (`DbfPorts`).
- Refused configurations (unknown register offsets), which exit the simulation.
- Bursts, which answer with a host address.
- Calls at the same time in `rabbits_host_access`, and orders of several processes
  in `h264dbf_drv` and `rabbitsfb` that the drivers do not protect from each
  other.
- The rest of each component marked `partly`, as its note in `PROJECT.json` says.

## Plan

1. `InterruptChain`: timers and console, `Aicu`, `QemuInterrupts` in one
   composition.  A device's interrupt reaches a CPU and stays until it is
   acknowledged at both levels.
2. Several processes in `FbDriver`: counts of registrations, accesses to the control
   register by two at a time.
3. What is left of the components marked `partly`: the global registers of the
   mailbox, the slave port of the wrapper, the measures of `cpu_logs`.

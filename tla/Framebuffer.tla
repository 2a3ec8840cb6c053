----------------------------- MODULE Framebuffer -----------------------------
(***************************************************************************)
(* The framebuffer: fb_device with its slave and its three threads, and    *)
(* fbviewer, the process of the host that shows the image.                 *)
(*                                                                         *)
(* Device and viewer share two image buffers.  Software fills the one that *)
(* memIdx names, or lets the device copy an image from memory; display()   *)
(* makes the other one current, display_thread completes the image just    *)
(* left and signals the viewer.  Nothing tells the viewer which buffer it  *)
(* is: it takes them in turn, one for each signal.                         *)
(*                                                                         *)
(* A word is the address of the image in memory that it is part of,        *)
(* whether the device or software copied it from there.                    *)
(***************************************************************************)
EXTENDS Integers

CONSTANTS
    Words,      \* words of an image (mem_size / 4)
    Addrs,      \* addresses of images in memory
    Paced       \* software waits for one image before it touches the next

ASSUME FramebufferAssumption == Words \in Nat \ {0} /\ Paced \in BOOLEAN

VARIABLES
    wrap,       \* m_disp_wrap
    ctrl,       \* bits of m_ctrl that are set
    bufAddr,    \* m_buf_addr
    running,    \* m_status is FB_RUNNING
    memIdx,     \* the buffer software writes
    mem,        \* the two shared buffers
    frameBit,   \* bit 0 of m_irqstat; bit 31 repeats the line
    irq,        \* the irq port
    irqTh, startTh,         \* irq_update_thread, start_stop_thread
    dispTh,     \* display_thread
    job,        \* its proc_idx, addr and offset during a transfer
    signal,     \* SIGUSR1 is pending for the viewer
    vIdx,       \* buf_idx of the viewer
    vOfs,       \* the word its refresh copies next, Words outside of refresh
    screen,     \* copy
    aligned,    \* the viewer was started when memIdx was 0
    frame       \* the image that software displayed last

registers == <<wrap, ctrl, bufAddr, running, memIdx, frameBit, irq>>
threads == <<irqTh, startTh, dispTh, job>>
viewer == <<signal, vIdx, vOfs, screen>>
history == <<aligned, frame>>
fbVars == <<registers, mem, threads, viewer, history>>

Bits == {"START", "IRQEN", "DMAEN"}
FbPixels == {"blank"} \cup Addrs
Image == [0 .. Words - 1 -> FbPixels]
BlankImage == [i \in 0 .. Words - 1 |-> "blank"]

NoJob == [buf |-> 0, addr |-> "none", ofs |-> 0]

\* fb_start is a constant of the platform.
FbInit ==
    /\ wrap \in BOOLEAN
    /\ running \in BOOLEAN
    /\ ctrl = IF running THEN {"START"} ELSE {}
    /\ bufAddr \in Addrs
    /\ memIdx = 0 /\ mem = [k \in 0 .. 1 |-> BlankImage]
    /\ frameBit = FALSE /\ irq = FALSE
    /\ irqTh = "waiting" /\ startTh = "waiting" /\ dispTh = "waiting"
    /\ job = NoJob
    /\ signal = FALSE /\ vIdx = 0 /\ vOfs = Words /\ screen = BlankImage
    /\ aligned = TRUE /\ frame = BlankImage
-----------------------------------------------------------------------------
(* The slave: register accesses.                                           *)

\* notify(): only a thread that waits now hears it.
Notified(thread) == IF thread = "waiting" THEN "ready" ELSE thread

\* display() that leaves the swap to display_thread when there is a transfer.
Display_SwapLater(bits) ==
    /\ memIdx' = IF "DMAEN" \in bits THEN memIdx ELSE 1 - memIdx
    /\ dispTh' = Notified(dispTh)
    /\ frame' = IF "DMAEN" \in bits THEN [i \in 0 .. Words - 1 |-> bufAddr]
                                    ELSE mem[memIdx]

\* display(); bits are those of m_ctrl.
Display(bits) ==
    /\ memIdx' = 1 - memIdx
    /\ dispTh' = Notified(dispTh)
    /\ frame' = IF "DMAEN" \in bits THEN [i \in 0 .. Words - 1 |-> bufAddr]
                                    ELSE mem[memIdx]

Changes(bit, bits) == (bit \in ctrl) # (bit \in bits)

\* FB_DEVICE_CTRL.  FB_CTRL_DISPLAY (show) is cleared at once.
WriteCtrl(bits, show) ==
    /\ ctrl' = bits
    /\ startTh' = IF Changes("START", bits) THEN Notified(startTh) ELSE startTh
    /\ irqTh' = IF Changes("IRQEN", bits) THEN Notified(irqTh) ELSE irqTh
    /\ \/ show /\ Display(bits)
       \/ ~show /\ UNCHANGED <<memIdx, dispTh, frame>>
    /\ UNCHANGED <<wrap, bufAddr, running, mem, frameBit, irq>>
    /\ UNCHANGED <<job, viewer, aligned>>

\* FB_DEVICE_IRQCLR.
WriteIrqClr ==
    /\ frameBit' = FALSE
    /\ irqTh' = Notified(irqTh)
    /\ UNCHANGED <<wrap, ctrl, bufAddr, running, memIdx, irq, mem>>
    /\ UNCHANGED <<startTh, dispTh, job, viewer, history>>

\* FB_DEVICE_BUF.
WriteBuf(a) ==
    /\ bufAddr' = a
    /\ UNCHANGED <<wrap, ctrl, running, memIdx, frameBit, irq>>
    /\ UNCHANGED <<mem, threads, viewer, history>>

\* A word of the image.  With m_disp_wrap, writing the first one displays the
\* image before, and the word goes to the next.
WriteImage(i, p) ==
    /\ \/ wrap /\ i = 0 /\ Display(ctrl)
       \/ ~(wrap /\ i = 0) /\ UNCHANGED <<memIdx, dispTh, frame>>
    /\ mem' = [mem EXCEPT ![memIdx'][i] = p]
    /\ UNCHANGED <<wrap, ctrl, bufAddr, running, frameBit, irq>>
    /\ UNCHANGED <<irqTh, startTh, job, viewer, aligned>>
-----------------------------------------------------------------------------
(* What software does with it.                                             *)

\* The image displayed last is on the screen.  That the viewer has finished is
\* nothing the device reports: software relies on the host for it.
Quiet == dispTh = "waiting" /\ ~signal /\ vOfs = Words

May == Paced => Quiet

\* There are buffers and a viewer, now and at the next step of each thread.
Usable == running /\ "START" \in ctrl /\ startTh = "waiting"

\* Software displays only while the device runs, and stops it only between two
\* images: neither is checked by the device.
Software ==
    /\ May
    /\ \/ \E bits \in SUBSET Bits, show \in BOOLEAN :
            /\ show => Usable /\ "START" \in bits
            /\ "START" \in ctrl \ bits => dispTh = "waiting"
            /\ WriteCtrl(bits, show)
       \/ \E a \in Addrs : WriteBuf(a)
       \/ \E i \in 0 .. Words - 1, a \in Addrs : Usable /\ WriteImage(i, a)

Acknowledge == WriteIrqClr
-----------------------------------------------------------------------------
(* The threads of the device.                                              *)

\* Two cleared buffers and a viewer that shows the first one first; the device
\* sleeps for a second, which the viewer needs to be ready for a signal.
InitViewer ==
    /\ mem' = [k \in 0 .. 1 |-> BlankImage]
    /\ signal' = FALSE /\ vIdx' = 0 /\ vOfs' = Words /\ screen' = BlankImage

\* The viewer is killed, the buffers are given back.
CloseViewer ==
    /\ signal' = FALSE /\ vOfs' = Words
    /\ UNCHANGED <<mem, vIdx, screen>>

\* init() leaves memIdx alone, and so does uninit().
StartStop ==
    /\ startTh = "ready"
    /\ startTh' = "waiting"
    /\ running' = ("START" \in ctrl)
    /\ \/ /\ ~running /\ "START" \in ctrl
          /\ InitViewer
          /\ aligned' = (memIdx = 0)
          /\ frame' = BlankImage
       \/ /\ running /\ "START" \notin ctrl
          /\ CloseViewer
          /\ UNCHANGED <<aligned, frame>>
       \/ /\ running = ("START" \in ctrl)
          /\ UNCHANGED <<mem, viewer, aligned, frame>>
    /\ UNCHANGED <<wrap, ctrl, bufAddr, memIdx, frameBit, irq>>
    /\ UNCHANGED <<irqTh, dispTh, job>>

FbIrqUpdate ==
    /\ irqTh = "ready"
    /\ irqTh' = "waiting"
    /\ irq' = ("IRQEN" \in ctrl /\ frameBit)
    /\ UNCHANGED <<wrap, ctrl, bufAddr, running, memIdx, frameBit, mem>>
    /\ UNCHANGED <<startTh, dispTh, job, viewer, history>>

\* The end of an image that signals the viewer only once it was interrupted for.
Signal_Unsent ==
    /\ dispTh' = "waiting"
    /\ signal' = (signal \/ ~frameBit)
    /\ frameBit' = TRUE
    /\ irqTh' = Notified(irqTh)
    /\ job' = NoJob

\* kill(m_pid, SIGUSR1), which is not counted, and the interrupt.  The locals are
\* not used again.
Signal ==
    /\ dispTh' = "waiting"
    /\ signal' = TRUE
    /\ frameBit' = TRUE
    /\ irqTh' = Notified(irqTh)
    /\ job' = NoJob

\* display_thread starts with the buffer that display() left.
StartDisplay ==
    /\ dispTh = "ready"
    /\ IF "DMAEN" \in ctrl
       THEN /\ dispTh' = "dma"
            /\ job' = [buf |-> 1 - memIdx, addr |-> bufAddr, ofs |-> 0]
            /\ UNCHANGED <<signal, frameBit, irqTh>>
       ELSE Signal
    /\ UNCHANGED <<wrap, ctrl, bufAddr, running, memIdx, irq, mem>>
    /\ UNCHANGED <<startTh, vIdx, vOfs, screen, history>>

\* cmd_read of the next word: a response without error.
TransferWord ==
    /\ mem' = [mem EXCEPT ![job.buf][job.ofs] = job.addr]
    /\ IF job.ofs + 1 < Words
       THEN job' = [job EXCEPT !.ofs = @ + 1] /\ UNCHANGED <<dispTh, signal, frameBit, irqTh>>
       ELSE Signal
    /\ UNCHANGED frame

\* A bus error ends the transfer; the word is what the failed response carried,
\* and the image is displayed nevertheless.
TransferError ==
    /\ \E p \in {"blank", job.addr} : mem' = [mem EXCEPT ![job.buf][job.ofs] = p]
    /\ Signal
    /\ frame' = mem'[job.buf]

Transfer ==
    /\ dispTh = "dma"
    /\ TransferWord \/ TransferError
    /\ UNCHANGED <<wrap, ctrl, bufAddr, running, memIdx, irq, startTh>>
    /\ UNCHANGED <<vIdx, vOfs, screen, aligned>>
-----------------------------------------------------------------------------
(* The viewer.                                                             *)

\* The signal is blocked while refresh runs.
Refresh ==
    /\ running
    /\ signal /\ vOfs = Words
    /\ signal' = FALSE /\ vOfs' = 0
    /\ UNCHANGED <<registers, mem, threads, vIdx, screen, history>>

\* memcpy, and the turn to the other buffer at its end.
Copy ==
    /\ vOfs < Words
    /\ screen' = [screen EXCEPT ![vOfs] = mem[vIdx][vOfs]]
    /\ vOfs' = vOfs + 1
    /\ vIdx' = IF vOfs + 1 = Words THEN 1 - vIdx ELSE vIdx
    /\ UNCHANGED <<registers, mem, threads, signal, history>>

DisplayThread == StartDisplay \/ Transfer
Viewer == Refresh \/ Copy

FbNext == Software \/ Acknowledge \/ StartStop \/ FbIrqUpdate \/ DisplayThread \/ Viewer

FbSpec == FbInit /\ [][FbNext]_fbVars

\* Ready threads run, the bus answers, and the host runs the viewer.
FbFairSpec == FbSpec /\ WF_fbVars(StartStop) /\ WF_fbVars(FbIrqUpdate)
                 /\ WF_fbVars(DisplayThread) /\ WF_fbVars(Viewer)
-----------------------------------------------------------------------------
(* Type invariant. *)
FbTypes ==
    /\ wrap \in BOOLEAN /\ running \in BOOLEAN
    /\ ctrl \subseteq Bits /\ bufAddr \in Addrs /\ memIdx \in 0 .. 1
    /\ mem \in [0 .. 1 -> Image]
    /\ frameBit \in BOOLEAN /\ irq \in BOOLEAN
    /\ irqTh \in {"waiting", "ready"} /\ startTh \in {"waiting", "ready"}
    /\ dispTh \in {"waiting", "ready", "dma"}
    /\ IF dispTh = "dma" THEN job \in [buf : 0 .. 1, addr : Addrs, ofs : 0 .. Words - 1]
                         ELSE job = NoJob
    /\ signal \in BOOLEAN /\ vIdx \in 0 .. 1 /\ vOfs \in 0 .. Words
    /\ screen \in Image
    /\ aligned \in BOOLEAN /\ frame \in Image

(* With irq_update_thread at rest, the line is up exactly while an image is
   displayed and not acknowledged, and the interrupt is enabled: enable,
   acknowledge and the end of an image share the thread and its event. *)
FbLineIsRight == irqTh = "waiting" => irq = ("IRQEN" \in ctrl /\ frameBit)

\* Software that displays one image at a time sees the image it displayed.  Not so
\* after a start with memIdx = 1 (rabbitsfb_reset after an odd number of images): then
\* the viewer shows the other buffer for good.
FrameShown == Paced /\ aligned /\ running /\ Quiet => screen = frame

\* Neither transfer nor viewer touch the buffer that software may write.
BuffersApart ==
    /\ Paced /\ dispTh = "dma" => job.buf # memIdx
    /\ Paced /\ aligned /\ (signal \/ vOfs < Words) => vIdx # memIdx

(* Device and viewer count their buffers separately and only a signal without a
   number ties them: software that displays one image at a time sees the image it
   displayed, all words of it, and neither transfer nor viewer touches the buffer
   that it may write. *)
ScreenIsImage == FrameShown /\ BuffersApart
==============================================================================

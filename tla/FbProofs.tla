------------------------------ MODULE FbProofs ------------------------------
(* Proofs about the framebuffer and its viewer, for images of every size,  *)
(* and about the driver above it, on one CPU and on several.               *)
EXTENDS FbDriver, TLAPS

Solid(a) == [i \in 0 .. Words - 1 |-> a]

\* Where software waits for an image, one image is on its way at a time: announced,
\* transferred, signalled, copied.  Nothing else moves meanwhile, and the viewer is at
\* the buffer that software has left.
OneImage ==
    /\ startTh = "ready" => Quiet
    /\ ~Quiet => running
    /\ signal => dispTh = "waiting" /\ vOfs = Words
    /\ vOfs < Words => dispTh = "waiting"

\* What has been made of the image so far.
InTheMaking ==
    /\ dispTh = "dma" => /\ job.buf = 1 - memIdx
                         /\ frame = Solid(job.addr)
                         /\ \A i \in 0 .. job.ofs - 1 : mem[job.buf][i] = job.addr
    /\ dispTh = "ready" => frame = IF "DMAEN" \in ctrl THEN Solid(bufAddr) ELSE mem[1 - memIdx]
    /\ signal \/ vOfs < Words => frame = mem[1 - memIdx]

\* What the viewer has shown of it.
OnTheScreen ==
    aligned /\ running => /\ vIdx = IF Quiet THEN memIdx ELSE 1 - memIdx
                          /\ Quiet => screen = frame
                          /\ vOfs < Words => \A i \in 0 .. vOfs - 1 : screen[i] = frame[i]

ImageInv == OneImage /\ InTheMaking /\ OnTheScreen

FbInv == FbTypes /\ (Paced => ImageInv)

\* The process of the driver is between registration and unregistration.
Registered == {"registered", "falling asleep", "asleep", "collecting", "clearing"}

DriverTypes ==
    /\ type \in BOOLEAN /\ pending \in BOOLEAN /\ got \in BOOLEAN /\ owed \in BOOLEAN
    /\ frameBit \in BOOLEAN /\ handler \in BOOLEAN /\ isr \in {"idle", "acked"}

\* The handler only runs between the two calls, and the descriptor only counts there.
Calls ==
    /\ type <=> pc \in Registered
    /\ ~type => dispTh = "waiting" /\ ~owed
    /\ pc \in {"idle", "resetting", "stopping"} => ~handler /\ isr = "idle"
    /\ pc \in {"enabling", "enabled"} => ~frameBit /\ ~pending /\ isr = "idle"
    /\ got => pc = "clearing" /\ pending

\* An image is with the device, or its end in the status, in the handler or in the
\* descriptor, and then the process waits for it.
OneEnd ==
    type => /\ dispTh # "waiting" => ~frameBit /\ isr = "idle" /\ ~pending /\ owed
            /\ frameBit => isr = "idle" /\ ~pending /\ owed
            /\ isr = "acked" => ~pending /\ owed
            /\ pending => owed

DriverInv == DriverTypes /\ Calls /\ OneEnd /\ status # "overflow"
-----------------------------------------------------------------------------
(* Types. *)
LEMMA BlankIsImage == BlankImage \in Image /\ Words \in 0 .. Words /\ 0 \in 0 .. Words
  BY FramebufferAssumption DEF BlankImage, Image, FbPixels

LEMMA FbTypesHold == FbInit => FbTypes
<1> SUFFICES ASSUME FbInit PROVE FbTypes OBVIOUS
<1>1. ctrl \subseteq Bits BY DEF FbInit, Bits
<1>2. mem \in [0 .. 1 -> Image] /\ screen \in Image /\ frame \in Image /\ vOfs \in 0 .. Words
  BY BlankIsImage DEF FbInit
<1>3. vIdx \in 0 .. 1 /\ memIdx \in 0 .. 1 /\ dispTh = "waiting" /\ job = NoJob BY DEF FbInit
<1> QED BY <1>1, <1>2, <1>3 DEF FbInit, FbTypes

LEMMA SoftwareTypes ==
  ASSUME FbTypes, Software \/ Acknowledge
  PROVE  FbTypes'
<1> USE DEF FbTypes
<1>1. memIdx \in 0 .. 1 /\ mem[memIdx] \in Image /\ [i \in 0 .. Words - 1 |-> bufAddr] \in Image
      /\ 1 - memIdx \in 0 .. 1
  BY DEF Image, FbPixels
<1>2. \A bits : Display(bits) => /\ memIdx' \in 0 .. 1 /\ frame' \in Image
                                 /\ dispTh' \in {"waiting", "ready", "dma"}
                                 /\ dispTh' = "dma" <=> dispTh = "dma"
  BY <1>1 DEF Display, Notified
<1>3. ASSUME NEW bits \in SUBSET Bits, NEW show \in BOOLEAN, WriteCtrl(bits, show)
      PROVE  FbTypes'
  <2>1. /\ memIdx' \in 0 .. 1 /\ frame' \in Image
        /\ dispTh' \in {"waiting", "ready", "dma"} /\ (dispTh' = "dma" <=> dispTh = "dma")
    BY <1>2, <1>3 DEF WriteCtrl
  <2>2. startTh' \in {"waiting", "ready"} /\ irqTh' \in {"waiting", "ready"}
    BY <1>3 DEF WriteCtrl, Notified
  <2>3. UNCHANGED <<wrap, bufAddr, running, mem, frameBit, irq, job, viewer, aligned>> /\ ctrl' = bits
    BY <1>3 DEF WriteCtrl
  <2> QED BY <2>1, <2>2, <2>3 DEF viewer, NoJob, Image
<1>4. ASSUME NEW a \in Addrs, WriteBuf(a) PROVE FbTypes'
  BY <1>4 DEF WriteBuf, threads, viewer, history, NoJob, Image
<1>5. ASSUME NEW i \in 0 .. Words - 1, NEW a \in Addrs, WriteImage(i, a) PROVE FbTypes'
  <2>1. /\ memIdx' \in 0 .. 1 /\ frame' \in Image
        /\ dispTh' \in {"waiting", "ready", "dma"} /\ (dispTh' = "dma" <=> dispTh = "dma")
    BY <1>2, <1>5 DEF WriteImage
  <2>2. mem' = [mem EXCEPT ![memIdx'] = [mem[memIdx'] EXCEPT ![i] = a]]
    BY <1>5, <2>1 DEF WriteImage
  <2>3. mem[memIdx'] \in Image /\ a \in FbPixels BY <2>1 DEF FbPixels
  <2>4. [mem[memIdx'] EXCEPT ![i] = a] \in Image BY <2>3 DEF Image
  <2>5. mem' \in [0 .. 1 -> Image] BY <2>1, <2>2, <2>4
  <2>6. UNCHANGED <<wrap, ctrl, bufAddr, running, frameBit, irq, irqTh, startTh, job, viewer, aligned>>
    BY <1>5 DEF WriteImage
  <2> QED BY <2>1, <2>5, <2>6 DEF viewer, NoJob, Image
<1>6. ASSUME Acknowledge PROVE FbTypes'
  BY <1>6 DEF Acknowledge, WriteIrqClr, Notified, viewer, history, NoJob, Image
<1> QED BY <1>3, <1>4, <1>5, <1>6 DEF Software

LEMMA ThreadTypes ==
  ASSUME FbTypes, StartStop \/ FbIrqUpdate \/ DisplayThread \/ Viewer
  PROVE  FbTypes'
<1> USE DEF FbTypes
<1> USE FramebufferAssumption
<1>1. CASE StartStop
  <2>1. ASSUME InitViewer
        PROVE  /\ mem' \in [0 .. 1 -> Image] /\ signal' \in BOOLEAN /\ vIdx' \in 0 .. 1
               /\ vOfs' \in 0 .. Words /\ screen' \in Image
    <3>1. vIdx' = 0 BY <2>1 DEF InitViewer
    <3>2. signal' = FALSE /\ vOfs' = Words /\ screen' = BlankImage BY <2>1 DEF InitViewer
    <3>3. mem' = [k \in 0 .. 1 |-> BlankImage] BY <2>1 DEF InitViewer
    <3>4. mem' \in [0 .. 1 -> Image] BY ONLY <3>3, BlankIsImage
    <3>5. vIdx' \in 0 .. 1 /\ vOfs' \in 0 .. Words BY ONLY <3>1, <3>2, BlankIsImage
    <3>6. signal' \in BOOLEAN /\ screen' \in Image BY ONLY <3>2, BlankIsImage
    <3> QED BY ONLY <3>4, <3>5, <3>6
  <2>2. /\ mem' \in [0 .. 1 -> Image] /\ signal' \in BOOLEAN /\ vIdx' \in 0 .. 1
        /\ vOfs' \in 0 .. Words /\ screen' \in Image
    <3>1. CASE CloseViewer BY <3>1, BlankIsImage DEF CloseViewer
    <3>2. CASE UNCHANGED <<mem, viewer>> BY <3>2 DEF viewer
    <3> QED BY <1>1, <2>1, <3>1, <3>2 DEF StartStop
  <2>3. startTh' \in {"waiting", "ready"} /\ running' \in BOOLEAN BY <1>1 DEF StartStop
  <2>4. UNCHANGED <<wrap, ctrl, bufAddr, memIdx, frameBit, irq, irqTh, dispTh, job>>
    BY <1>1 DEF StartStop
  <2>5. aligned' \in BOOLEAN /\ frame' \in Image BY <1>1, BlankIsImage DEF StartStop
  <2> QED BY <2>2, <2>3, <2>4, <2>5 DEF NoJob, Image
<1>2. CASE FbIrqUpdate
  BY <1>2 DEF FbIrqUpdate, viewer, history, NoJob, Image
<1>3. CASE StartDisplay
  <2>1. CASE "DMAEN" \in ctrl
    <3>1. dispTh' = "dma" /\ job' = [buf |-> 1 - memIdx, addr |-> bufAddr, ofs |-> 0]
          /\ UNCHANGED <<signal, frameBit, irqTh>>
      BY <1>3, <2>1 DEF StartDisplay
    <3>2. 1 - memIdx \in 0 .. 1 /\ 0 \in 0 .. Words - 1 OBVIOUS
    <3>3. job' \in [buf : 0 .. 1, addr : Addrs, ofs : 0 .. Words - 1] BY <3>1, <3>2
    <3> QED BY <1>3, <3>1, <3>3 DEF StartDisplay, history, Image
  <2>2. CASE "DMAEN" \notin ctrl
    <3>1. Signal BY <1>3, <2>2 DEF StartDisplay
    <3> QED BY <1>3, <3>1 DEF StartDisplay, Signal, Notified, history, Image
  <2> QED BY <2>1, <2>2
<1>4. CASE Transfer
  <2>1. job \in [buf : 0 .. 1, addr : Addrs, ofs : 0 .. Words - 1] BY <1>4 DEF Transfer
  <2>2. PICK p \in FbPixels : mem' = [mem EXCEPT ![job.buf] = [mem[job.buf] EXCEPT ![job.ofs] = p]]
    BY <1>4, <2>1 DEF Transfer, TransferWord, TransferError, FbPixels
  <2>3. [mem[job.buf] EXCEPT ![job.ofs] = p] \in Image BY <2>1, <2>2 DEF Image
  <2>4. mem' \in [0 .. 1 -> Image] BY <2>1, <2>2, <2>3
  <2>5. UNCHANGED <<wrap, ctrl, bufAddr, running, memIdx, irq, startTh, vIdx, vOfs, screen, aligned>>
    BY <1>4 DEF Transfer
  <2>6. CASE Signal
    <3>1. frame' \in Image
      BY <1>4, <2>1, <2>4 DEF Transfer, TransferWord, TransferError
    <3> QED BY <2>4, <2>5, <2>6, <3>1 DEF Signal, Notified, Image
  <2>7. CASE ~Signal
    <3>1. job.ofs + 1 < Words /\ job' = [job EXCEPT !.ofs = job.ofs + 1]
          /\ UNCHANGED <<dispTh, signal, frameBit, irqTh, frame>>
      BY <1>4, <2>1, <2>7 DEF Transfer, TransferWord, TransferError
    <3>2. job' \in [buf : 0 .. 1, addr : Addrs, ofs : 0 .. Words - 1] BY <2>1, <3>1
    <3>3. dispTh' = "dma" BY <1>4, <3>1 DEF Transfer
    <3> QED BY <2>4, <2>5, <3>1, <3>2, <3>3 DEF Image
  <2> QED BY <2>6, <2>7
<1>5. CASE Refresh
  <2>1. vOfs' \in 0 .. Words /\ signal' \in BOOLEAN BY <1>5, BlankIsImage DEF Refresh
  <2> QED BY <1>5, <2>1 DEF Refresh, registers, threads, history, NoJob, Image
<1>6. CASE Copy
  <2>1. vOfs \in 0 .. Words - 1
    <3>1. vOfs < Words BY <1>6 DEF Copy
    <3>2. vOfs \in 0 .. Words OBVIOUS
    <3> QED BY ONLY <3>1, <3>2, FramebufferAssumption
  <2>2. mem[vIdx][vOfs] \in FbPixels
    <3>1. mem[vIdx] \in Image OBVIOUS
    <3> QED BY ONLY <2>1, <3>1 DEF Image
  <2>3. screen' \in Image BY <1>6, <2>1, <2>2 DEF Copy, Image
  <2>4. vOfs' \in 0 .. Words /\ vIdx' \in 0 .. 1 BY <1>6, <2>1 DEF Copy
  <2> QED BY <1>6, <2>3, <2>4 DEF Copy, registers, threads, history, NoJob, Image
<1> QED BY <1>1, <1>2, <1>3, <1>4, <1>5, <1>6 DEF DisplayThread, Viewer

-----------------------------------------------------------------------------
(* The image. *)
LEMMA ImageStarts == FbInit => ImageInv
<1> SUFFICES ASSUME FbInit PROVE ImageInv OBVIOUS
<1>1. Quiet BY DEF FbInit, Quiet
<1>2. vOfs = Words /\ Words \in Nat BY FramebufferAssumption DEF FbInit
<1>3. OneImage BY <1>1, <1>2 DEF FbInit, OneImage
<1>4. InTheMaking BY <1>2 DEF FbInit, InTheMaking
<1>5. OnTheScreen BY <1>1, <1>2 DEF FbInit, OnTheScreen
<1> QED BY <1>3, <1>4, <1>5 DEF ImageInv

\* display(), by a write of the control register or of the first word.
LEMMA DisplayKeeps ==
  ASSUME FbTypes, ImageInv, Quiet, Usable, NEW bits, Display(bits), ctrl' = bits,
         UNCHANGED <<running, startTh, bufAddr, signal, vIdx, vOfs, screen, aligned>>,
         mem'[memIdx] = mem[memIdx]
  PROVE  ImageInv'
<1>1. memIdx \in 0 .. 1 /\ memIdx' = 1 - memIdx /\ 1 - memIdx' = memIdx
  BY DEF FbTypes, Display
<1>2. dispTh' = "ready" /\ ~Quiet' BY DEF Quiet, Display, Notified
<1>3. running' /\ startTh' = "waiting" BY DEF Usable
<1>4. ~signal' /\ vOfs' = Words /\ Words \in Nat BY FramebufferAssumption DEF Quiet
<1>5. OneImage' BY <1>2, <1>3, <1>4 DEF OneImage
<1>6. frame' = IF "DMAEN" \in ctrl' THEN Solid(bufAddr') ELSE mem'[1 - memIdx']
  BY <1>1 DEF Display, Solid
<1>7. InTheMaking' BY <1>2, <1>4, <1>6 DEF InTheMaking, Solid
<1>8. OnTheScreen'
  <2>1. aligned /\ running => vIdx = memIdx BY DEF ImageInv, OnTheScreen, Quiet
  <2> QED BY <1>1, <1>2, <1>4, <2>1 DEF OnTheScreen
<1> QED BY <1>5, <1>7, <1>8 DEF ImageInv

\* Everything else that software does between two images.
LEMMA QuietKeeps ==
  ASSUME ImageInv, Quiet, UNCHANGED <<memIdx, dispTh, frame, running, signal, vIdx, vOfs, screen, aligned>>
  PROVE  ImageInv'
<1>1. Quiet' /\ Words \in Nat BY FramebufferAssumption DEF Quiet
<1>2. OneImage' BY <1>1 DEF OneImage, Quiet
<1>3. InTheMaking' BY <1>1 DEF InTheMaking, Quiet
<1>4. OnTheScreen' BY <1>1 DEF ImageInv, OnTheScreen, Quiet
<1> QED BY <1>2, <1>3, <1>4 DEF ImageInv

LEMMA SoftwareKeeps ==
  ASSUME FbTypes, ImageInv, Paced, Software
  PROVE  ImageInv'
<1>1. Quiet BY DEF Software, May
<1>2. ASSUME NEW bits \in SUBSET Bits, NEW show \in BOOLEAN, show => Usable /\ "START" \in bits,
             WriteCtrl(bits, show)
      PROVE  ImageInv'
  <2>1. CASE show
    <3>1. Usable /\ Display(bits) /\ ctrl' = bits BY <1>2, <2>1 DEF WriteCtrl
    <3>2. startTh' = startTh BY <1>2, <2>1 DEF WriteCtrl, Changes, Usable
    <3>3. UNCHANGED <<running, bufAddr, signal, vIdx, vOfs, screen, aligned, mem>>
      BY <1>2 DEF WriteCtrl, viewer
    <3> QED BY <1>1, <3>1, <3>2, <3>3, DisplayKeeps
  <2>2. CASE ~show
    <3>1. UNCHANGED <<memIdx, dispTh, frame, running, signal, vIdx, vOfs, screen, aligned>>
      BY <1>2, <2>2 DEF WriteCtrl, viewer
    <3> QED BY <1>1, <3>1, QuietKeeps
  <2> QED BY <2>1, <2>2
<1>3. ASSUME NEW a \in Addrs, WriteBuf(a) PROVE ImageInv'
  BY <1>1, <1>3, QuietKeeps DEF WriteBuf, threads, viewer, history
<1>4. ASSUME NEW i \in 0 .. Words - 1, NEW a \in Addrs, Usable, WriteImage(i, a) PROVE ImageInv'
  <2>1. UNCHANGED <<ctrl, bufAddr, running, startTh, signal, vIdx, vOfs, screen, aligned>>
    BY <1>4 DEF WriteImage, viewer
  <2>2. CASE wrap /\ i = 0
    <3>1. Display(ctrl) BY <1>4, <2>2 DEF WriteImage
    <3>2. memIdx' # memIdx BY <3>1 DEF Display, FbTypes
    <3>3. mem'[memIdx] = mem[memIdx] BY <1>4, <3>2 DEF WriteImage, FbTypes
    <3> QED BY <1>1, <1>4, <2>1, <3>1, <3>3, DisplayKeeps
  <2>3. CASE ~(wrap /\ i = 0)
    <3>1. UNCHANGED <<memIdx, dispTh, frame>> BY <1>4, <2>3 DEF WriteImage
    <3> QED BY <1>1, <2>1, <3>1, QuietKeeps
  <2> QED BY <2>2, <2>3
<1> QED BY <1>2, <1>3, <1>4 DEF Software

\* The steps that are about the interrupt only.
LEMMA InterruptKeeps ==
  ASSUME ImageInv, Acknowledge \/ FbIrqUpdate
  PROVE  ImageInv'
<1>1. UNCHANGED <<ctrl, bufAddr, running, memIdx, mem, startTh, dispTh, job, signal, vIdx, vOfs,
                  screen, aligned, frame>>
  BY DEF Acknowledge, WriteIrqClr, FbIrqUpdate, viewer, history
<1> QED BY <1>1 DEF ImageInv, OneImage, InTheMaking, OnTheScreen, Quiet, Solid

LEMMA StartStopKeeps ==
  ASSUME ImageInv, StartStop
  PROVE  ImageInv'
<1>1. Quiet BY DEF ImageInv, OneImage, StartStop
<1>2. startTh' = "waiting" /\ memIdx' = memIdx /\ dispTh' = dispTh BY DEF StartStop
<1>3. ~signal' /\ vOfs' = Words
  BY <1>1 DEF StartStop, InitViewer, CloseViewer, viewer, Quiet
<1>4. Quiet' BY <1>1, <1>2, <1>3 DEF Quiet
<1>5. Words \in Nat BY FramebufferAssumption
<1>6. OneImage' BY <1>2, <1>3, <1>4, <1>5 DEF OneImage
<1>7. InTheMaking' BY <1>3, <1>4, <1>5 DEF InTheMaking, Quiet
<1>8. OnTheScreen'
  <2>1. CASE ~running /\ "START" \in ctrl
    <3>1. vIdx' = 0 /\ screen' = BlankImage /\ frame' = BlankImage /\ (aligned' <=> memIdx = 0)
      BY <2>1 DEF StartStop, InitViewer
    <3> QED BY <1>2, <1>3, <1>4, <1>5, <3>1 DEF OnTheScreen
  <2>2. CASE running /\ "START" \notin ctrl
    <3>1. ~running' BY <2>2 DEF StartStop
    <3> QED BY <3>1 DEF OnTheScreen
  <2>3. CASE running = ("START" \in ctrl)
    <3>1. UNCHANGED <<viewer, aligned, frame>> /\ running' = running BY <2>3 DEF StartStop
    <3> QED BY <1>1, <1>2, <1>3, <1>4, <1>5, <3>1 DEF ImageInv, OnTheScreen, viewer
  <2> QED BY <2>1, <2>2, <2>3 DEF StartStop
<1> QED BY <1>6, <1>7, <1>8 DEF ImageInv

LEMMA StartDisplayKeeps ==
  ASSUME FbTypes, ImageInv, StartDisplay
  PROVE  ImageInv'
<1>1. dispTh = "ready" /\ ~Quiet /\ ~signal /\ ~ (vOfs < Words) /\ running
  BY DEF StartDisplay, ImageInv, OneImage, Quiet
<1>2. vOfs = Words /\ Words \in Nat BY <1>1, FramebufferAssumption DEF FbTypes
<1>3. UNCHANGED <<ctrl, bufAddr, running, memIdx, mem, startTh, vIdx, vOfs, screen, aligned, frame>>
  BY DEF StartDisplay, history
<1>4. startTh # "ready" BY <1>1 DEF ImageInv, OneImage
<1>5. frame = IF "DMAEN" \in ctrl THEN Solid(bufAddr) ELSE mem[1 - memIdx]
  BY <1>1 DEF ImageInv, InTheMaking
<1>6. aligned => vIdx = 1 - memIdx BY <1>1 DEF ImageInv, OnTheScreen
<1>7. CASE "DMAEN" \in ctrl
  <2>1. dispTh' = "dma" /\ signal' = signal
        /\ job' = [buf |-> 1 - memIdx, addr |-> bufAddr, ofs |-> 0]
    BY <1>7 DEF StartDisplay
  <2>2. OneImage' BY <1>1, <1>2, <1>3, <1>4, <2>1 DEF OneImage
  <2>3. InTheMaking' BY <1>1, <1>2, <1>3, <1>5, <1>7, <2>1 DEF InTheMaking, Solid
  <2>4. OnTheScreen' BY <1>1, <1>2, <1>3, <1>6, <2>1 DEF OnTheScreen, Quiet
  <2> QED BY <2>2, <2>3, <2>4 DEF ImageInv
<1>8. CASE "DMAEN" \notin ctrl
  <2>1. dispTh' = "waiting" /\ signal' BY <1>8 DEF StartDisplay, Signal
  <2>2. OneImage' BY <1>1, <1>2, <1>3, <1>4, <2>1 DEF OneImage
  <2>3. InTheMaking' BY <1>2, <1>3, <1>5, <1>8, <2>1 DEF InTheMaking
  <2>4. OnTheScreen' BY <1>2, <1>3, <1>6, <2>1 DEF OnTheScreen, Quiet
  <2> QED BY <2>2, <2>3, <2>4 DEF ImageInv
<1> QED BY <1>7, <1>8

LEMMA TransferKeeps ==
  ASSUME FbTypes, ImageInv, Transfer
  PROVE  ImageInv'
<1>1. dispTh = "dma" /\ ~Quiet /\ ~signal /\ ~ (vOfs < Words) /\ running
  BY DEF Transfer, ImageInv, OneImage, Quiet
<1>2. vOfs = Words /\ Words \in Nat BY <1>1, FramebufferAssumption DEF FbTypes
<1>3. UNCHANGED <<ctrl, bufAddr, running, memIdx, startTh, vIdx, vOfs, screen, aligned>>
  BY DEF Transfer
<1>4. startTh # "ready" BY <1>1 DEF ImageInv, OneImage
<1>5. job \in [buf : 0 .. 1, addr : Addrs, ofs : 0 .. Words - 1] BY <1>1 DEF FbTypes
<1>6. /\ job.buf = 1 - memIdx /\ frame = Solid(job.addr)
      /\ \A i \in 0 .. job.ofs - 1 : mem[job.buf][i] = job.addr
  BY <1>1 DEF ImageInv, InTheMaking
<1>7. aligned => vIdx = 1 - memIdx BY <1>1 DEF ImageInv, OnTheScreen
<1>8. job.ofs \in 0 .. Words - 1 /\ mem[job.buf] \in Image BY <1>5 DEF FbTypes
\* After the end of the transfer the buffer holds the image.
<1>9. ASSUME Signal, frame' = mem'[job.buf] PROVE ImageInv'
  <2>1. dispTh' = "waiting" /\ signal' BY <1>9 DEF Signal
  <2>2. OneImage' BY <1>1, <1>2, <1>3, <1>4, <2>1 DEF OneImage
  <2>3. InTheMaking' BY <1>2, <1>3, <1>6, <1>9, <2>1 DEF InTheMaking
  <2>4. OnTheScreen' BY <1>2, <1>3, <1>7, <2>1 DEF OnTheScreen, Quiet
  <2> QED BY <2>2, <2>3, <2>4 DEF ImageInv
<1>10. CASE TransferWord
  <2>1. mem' = [mem EXCEPT ![job.buf] = [mem[job.buf] EXCEPT ![job.ofs] = job.addr]]
        /\ frame' = frame
    BY <1>5, <1>10 DEF TransferWord, FbTypes
  <2>2. mem'[job.buf] = [mem[job.buf] EXCEPT ![job.ofs] = job.addr]
    BY <1>5, <2>1 DEF FbTypes
  <2>3. \A i \in 0 .. job.ofs : mem'[job.buf][i] = job.addr
    <3> TAKE i \in 0 .. job.ofs
    <3>1. i \in 0 .. Words - 1 /\ (i = job.ofs \/ i \in 0 .. job.ofs - 1) BY <1>2, <1>8
    <3> QED BY <1>6, <1>8, <2>2, <3>1 DEF Image
  <2>4. CASE job.ofs + 1 < Words
    <3>1. job' = [job EXCEPT !.ofs = job.ofs + 1] /\ UNCHANGED <<dispTh, signal>>
      BY <1>10, <2>4 DEF TransferWord
    <3>2. job'.buf = job.buf /\ job'.addr = job.addr /\ job'.ofs = job.ofs + 1
      BY <1>5, <3>1
    <3>3. OneImage' BY <1>1, <1>2, <1>3, <1>4, <3>1 DEF OneImage
    <3>4. \A i \in 0 .. job'.ofs - 1 : mem'[job'.buf][i] = job'.addr
      <4>1. job'.ofs - 1 = job.ofs BY <1>8, <3>2
      <4> QED BY <2>3, <3>2, <4>1
    <3>5. InTheMaking' BY <1>1, <1>2, <1>3, <1>6, <2>1, <3>1, <3>2, <3>4 DEF InTheMaking, Solid
    <3>6. OnTheScreen' BY <1>1, <1>2, <1>3, <1>7, <3>1 DEF OnTheScreen, Quiet
    <3> QED BY <3>3, <3>5, <3>6 DEF ImageInv
  <2>5. CASE ~ (job.ofs + 1 < Words)
    <3>1. Signal BY <1>10, <2>5 DEF TransferWord
    <3>2. job.ofs = Words - 1 BY <1>2, <1>8, <2>5
    <3>3. \A i \in 0 .. Words - 1 : mem'[job.buf][i] = job.addr BY <2>3, <3>2
    <3>4. mem'[job.buf] = Solid(job.addr) BY <1>8, <2>2, <3>3 DEF Solid, Image
    <3> QED BY <1>6, <1>9, <2>1, <3>1, <3>4
  <2> QED BY <2>4, <2>5
<1>11. CASE TransferError BY <1>9, <1>11 DEF TransferError
<1> QED BY <1>10, <1>11 DEF Transfer

LEMMA ViewerKeeps ==
  ASSUME FbTypes, ImageInv, Viewer
  PROVE  ImageInv'
<1>1. Words \in Nat /\ Words > 0 BY FramebufferAssumption
<1>2. CASE Refresh
  <2>1. signal /\ vOfs = Words /\ ~signal' /\ vOfs' = 0 BY <1>2 DEF Refresh
  <2>2. UNCHANGED <<ctrl, bufAddr, running, memIdx, mem, startTh, dispTh, job, vIdx, screen,
                    aligned, frame>>
    BY <1>2 DEF Refresh, registers, threads, history
  <2>3. dispTh = "waiting" /\ ~Quiet /\ running /\ startTh # "ready" /\ frame = mem[1 - memIdx]
    BY <2>1 DEF ImageInv, OneImage, InTheMaking, Quiet
  <2>4. aligned => vIdx = 1 - memIdx BY <2>3 DEF ImageInv, OnTheScreen
  <2>5. OneImage' BY <2>1, <2>2, <2>3 DEF OneImage
  <2>6. InTheMaking' BY <1>1, <2>1, <2>2, <2>3 DEF InTheMaking
  <2>7. OnTheScreen' BY <1>1, <2>1, <2>2, <2>4 DEF OnTheScreen, Quiet
  <2> QED BY <2>5, <2>6, <2>7 DEF ImageInv
<1>3. CASE Copy
  <2>1. vOfs < Words /\ vOfs' = vOfs + 1
        /\ vIdx' = (IF vOfs + 1 = Words THEN 1 - vIdx ELSE vIdx)
    BY <1>3 DEF Copy
  <2>2. UNCHANGED <<ctrl, bufAddr, running, memIdx, mem, startTh, dispTh, job, signal, aligned, frame>>
    BY <1>3 DEF Copy, registers, threads, history
  <2>3. vOfs \in 0 .. Words /\ memIdx \in 0 .. 1 BY DEF FbTypes
  <2>4. vOfs \in 0 .. Words - 1 BY ONLY <1>1, <2>1, <2>3
  <2>5. dispTh = "waiting" /\ ~signal /\ frame = mem[1 - memIdx]
    BY <2>1, <2>3, <1>1 DEF ImageInv, OneImage, InTheMaking
  <2>6. ~Quiet /\ running /\ startTh # "ready"
    <3>1. ~Quiet BY <1>1, <2>1, <2>3 DEF Quiet
    <3> QED BY <3>1 DEF ImageInv, OneImage
  <2>7. aligned => vIdx = 1 - memIdx /\ \A i \in 0 .. vOfs - 1 : screen[i] = frame[i]
    BY <2>1, <2>6 DEF ImageInv, OnTheScreen
  <2>8. OneImage' BY <2>2, <2>5, <2>6 DEF OneImage
  <2>9. InTheMaking' BY <2>2, <2>5 DEF InTheMaking
  <2>10. screen' = [screen EXCEPT ![vOfs] = mem[vIdx][vOfs]] /\ screen \in Image /\ frame \in Image
    BY <1>3 DEF Copy, FbTypes
  <2>11. aligned => \A i \in 0 .. vOfs : screen'[i] = frame[i]
    <3> SUFFICES ASSUME aligned, NEW i \in 0 .. vOfs PROVE screen'[i] = frame[i] OBVIOUS
    <3>1. i \in 0 .. Words - 1 /\ (i = vOfs \/ i \in 0 .. vOfs - 1) BY <1>1, <2>4
    <3> QED BY <2>4, <2>5, <2>7, <2>10, <3>1 DEF Image
  <2>12. OnTheScreen'
    <3> SUFFICES ASSUME aligned PROVE OnTheScreen' BY <2>2 DEF OnTheScreen
    <3>1. CASE vOfs + 1 = Words
      <4>1. Quiet' /\ vIdx' = memIdx' BY <2>1, <2>2, <2>3, <2>5, <2>7, <3>1 DEF Quiet
      <4>2. \A i \in 0 .. Words - 1 : screen'[i] = frame[i]
        <5>1. vOfs = Words - 1 BY <2>4, <3>1
        <5> QED BY <2>11, <5>1
      <4>3. screen' \in Image BY ThreadTypes DEF FbTypes
      <4>4. screen' = frame BY <2>10, <4>2, <4>3 DEF Image
      <4> QED BY <1>1, <2>1, <2>2, <3>1, <4>1, <4>4 DEF OnTheScreen
    <3>2. CASE vOfs + 1 # Words
      <4>1. ~Quiet' /\ vIdx' = 1 - memIdx' BY <2>1, <2>2, <2>7, <3>2 DEF Quiet
      <4>2. \A i \in 0 .. vOfs' - 1 : screen'[i] = frame[i]
        <5>1. vOfs' - 1 = vOfs BY <2>1, <2>4
        <5> QED BY <2>11, <5>1
      <4> QED BY <2>2, <4>1, <4>2 DEF OnTheScreen
    <3> QED BY <3>1, <3>2
  <2> QED BY <2>8, <2>9, <2>12 DEF ImageInv
<1> QED BY <1>2, <1>3 DEF Viewer

LEMMA FbStepKeeps ==
  ASSUME FbInv, [FbNext]_fbVars
  PROVE  FbInv'
<1>1. CASE FbNext
  <2>1. FbTypes' BY <1>1, SoftwareTypes, ThreadTypes DEF FbInv, FbNext
  <2>2. Paced => ImageInv'
    BY <1>1, SoftwareKeeps, InterruptKeeps, StartStopKeeps, StartDisplayKeeps, TransferKeeps,
       ViewerKeeps DEF FbInv, FbNext, DisplayThread
  <2> QED BY <2>1, <2>2 DEF FbInv
<1>2. CASE UNCHANGED fbVars
  <2>1. UNCHANGED <<wrap, ctrl, bufAddr, running, memIdx, frameBit, irq, mem, irqTh, startTh,
                    dispTh, job, signal, vIdx, vOfs, screen, aligned, frame>>
    BY <1>2 DEF fbVars, registers, threads, viewer, history
  <2>2. FbTypes' BY <2>1 DEF FbInv, FbTypes, NoJob, Image
  <2>3. Paced => ImageInv'
    BY <2>1 DEF FbInv, ImageInv, OneImage, InTheMaking, OnTheScreen, Quiet, Solid
  <2> QED BY <2>2, <2>3 DEF FbInv
<1> QED BY <1>1, <1>2

(* The types of the device and its viewer. *)
THEOREM TypesOfFramebuffer == FbSpec => []FbTypes
<1>1. FbInit => FbInv BY FbTypesHold, ImageStarts DEF FbInv
<1>2. FbInv /\ [FbNext]_fbVars => FbInv' BY FbStepKeeps
<1>3. FbInv => FbTypes BY DEF FbInv
<1> QED BY <1>1, <1>2, <1>3, PTL DEF FbSpec

(* The viewer shows the image that was displayed, and software never writes a buffer
   that is transferred or shown, for images of every size: display() and the turn of
   the viewer at each signal (refresh) stay one buffer apart. *)
THEOREM ImageIsShown == FbSpec => []ScreenIsImage
<1>1. FbInit => FbInv BY FbTypesHold, ImageStarts DEF FbInv
<1>2. FbInv /\ [FbNext]_fbVars => FbInv' BY FbStepKeeps
<1>3. FbInv => ScreenIsImage
  <2> SUFFICES ASSUME FbInv PROVE ScreenIsImage OBVIOUS
  <2>1. FrameShown BY DEF FbInv, ImageInv, OnTheScreen, FrameShown
  <2>2. memIdx \in 0 .. 1 /\ vOfs \in 0 .. Words /\ Words \in Nat
    BY FramebufferAssumption DEF FbInv, FbTypes
  <2>3. 1 - memIdx # memIdx BY <2>2
  <2>4. ASSUME Paced, dispTh = "dma" PROVE job.buf # memIdx
    BY <2>3, <2>4 DEF FbInv, ImageInv, InTheMaking
  <2>5. ASSUME Paced, aligned, signal \/ vOfs < Words PROVE vIdx # memIdx
    <3>1. ~Quiet BY <2>2, <2>5 DEF Quiet
    <3>2. running BY <2>5, <3>1 DEF FbInv, ImageInv, OneImage
    <3> QED BY <2>3, <2>5, <3>1, <3>2 DEF FbInv, ImageInv, OnTheScreen
  <2> QED BY <2>1, <2>4, <2>5 DEF ScreenIsImage, BuffersApart
<1> QED BY <1>1, <1>2, <1>3, PTL DEF FbSpec

(* While irq_update_thread rests, the line is up exactly while an image has ended, is not
   acknowledged and the interrupt is enabled: whoever changes one of these notifies. *)
THEOREM LineOfFramebuffer == FbSpec => []FbLineIsRight
<1>1. FbInit => FbLineIsRight BY DEF FbInit, FbLineIsRight
<1>2. FbTypes /\ FbTypes' /\ FbLineIsRight /\ [FbNext]_fbVars => FbLineIsRight'
  <2> SUFFICES ASSUME FbTypes, FbTypes', FbLineIsRight, [FbNext]_fbVars PROVE FbLineIsRight'
    OBVIOUS
  <2>1. CASE UNCHANGED fbVars
    BY <2>1 DEF fbVars, registers, threads, FbLineIsRight
  <2>2. ASSUME UNCHANGED <<irq, irqTh, frameBit>>, "IRQEN" \in ctrl' <=> "IRQEN" \in ctrl
        PROVE  FbLineIsRight'
    BY <2>2 DEF FbLineIsRight
  <2>3. CASE Software
    <3>1. ASSUME NEW bits \in SUBSET Bits, NEW show \in BOOLEAN, WriteCtrl(bits, show)
          PROVE  FbLineIsRight'
      <4>1. UNCHANGED <<irq, frameBit>> /\ ctrl' = bits BY <3>1 DEF WriteCtrl
      <4>2. CASE Changes("IRQEN", bits)
        <5>1. irqTh' # "waiting" BY <3>1, <4>2 DEF WriteCtrl, Notified
        <5> QED BY <5>1 DEF FbLineIsRight
      <4>3. CASE ~Changes("IRQEN", bits)
        <5>1. irqTh' = irqTh BY <3>1, <4>3 DEF WriteCtrl
        <5> QED BY <2>2, <4>1, <4>3, <5>1 DEF Changes
      <4> QED BY <4>2, <4>3
    <3>2. ASSUME NEW a \in Addrs, WriteBuf(a) PROVE FbLineIsRight'
      BY <2>2, <3>2 DEF WriteBuf, threads
    <3>3. ASSUME NEW i, NEW a, WriteImage(i, a) PROVE FbLineIsRight'
      BY <2>2, <3>3 DEF WriteImage
    <3> QED BY <2>3, <3>1, <3>2, <3>3 DEF Software
  <2>4. CASE Acknowledge \/ Signal
    <3>1. irqTh' # "waiting" BY <2>4 DEF Acknowledge, WriteIrqClr, Signal, Notified
    <3> QED BY <3>1 DEF FbLineIsRight
  <2>5. CASE StartStop BY <2>2, <2>5 DEF StartStop
  <2>6. CASE FbIrqUpdate BY <2>6 DEF FbIrqUpdate, FbLineIsRight
  <2>7. CASE DisplayThread
    <3>1. Signal \/ UNCHANGED <<irqTh, frameBit>>
      BY <2>7 DEF DisplayThread, StartDisplay, Transfer, TransferWord, TransferError
    <3>2. UNCHANGED <<irq, ctrl>> BY <2>7 DEF DisplayThread, StartDisplay, Transfer
    <3> QED BY <2>2, <2>4, <3>1, <3>2
  <2>8. CASE Viewer
    BY <2>2, <2>8 DEF Viewer, Refresh, Copy, registers, threads
  <2> QED BY <2>1, <2>3, <2>4, <2>5, <2>6, <2>7, <2>8 DEF FbNext
<1> QED BY <1>1, <1>2, TypesOfFramebuffer, PTL DEF FbSpec
-----------------------------------------------------------------------------
(* The driver.  Of the device only the thread that displays and the status bit matter. *)
LEMMA DriverStarts == DriverInit => DriverInv
  BY DEF DriverInit, FbInit, DriverInv, DriverTypes, Calls, OneEnd, Registered

\* What the register accesses of the driver leave alone.
LEMMA CtrlLeaves ==
  ASSUME NEW bits, WriteCtrl(bits, FALSE)
  PROVE  UNCHANGED <<dispTh, frameBit>>
  BY DEF WriteCtrl

LEMMA ClearLeaves ==
  ASSUME WriteIrqClr
  PROVE  dispTh' = dispTh /\ ~frameBit' /\ frameBit' \in BOOLEAN
  BY DEF WriteIrqClr

LEMMA SetUpKeeps ==
  ASSUME DriverInv, Reset \/ Restart \/ SetAddr \/ DmaEnable \/ Register \/ Enable \/ Describe
  PROVE  DriverInv'
<1> USE DEF DriverInv, DriverTypes, Calls, OneEnd, Registered
<1>1. CASE Reset
  <2>1. /\ UNCHANGED <<dispTh, frameBit, got, owed, isr, handler, descriptor>>
        /\ pc = "idle" /\ pc' = "resetting"
    BY <1>1, CtrlLeaves DEF Reset, At
  <2> QED BY <2>1 DEF descriptor
<1>2. CASE Restart
  <2>1. /\ UNCHANGED <<dispTh, frameBit, got, owed, isr, handler, descriptor>>
        /\ pc = "resetting" /\ pc' = "idle"
    BY <1>2, CtrlLeaves DEF Restart, At
  <2> QED BY <2>1 DEF descriptor
<1>3. CASE SetAddr \/ DmaEnable
  <2>1. UNCHANGED <<dispTh, frameBit, pc, got, owed, isr, handler, descriptor>>
    BY <1>3, CtrlLeaves DEF SetAddr, DmaEnable, WriteBuf, threads, process
  <2> QED BY <2>1 DEF descriptor
<1>4. CASE Register
  <2>1. /\ dispTh' = dispTh /\ ~frameBit' /\ frameBit' \in BOOLEAN
        /\ pc = "idle" /\ pc' = "enabling" /\ ~type' /\ ~pending' /\ handler' /\ status' = "none"
        /\ UNCHANGED <<got, owed, isr>>
    BY <1>4, ClearLeaves DEF Register, At
  <2>2. type' \in BOOLEAN /\ pending' \in BOOLEAN /\ handler' \in BOOLEAN BY <1>4 DEF Register
  <2> QED BY <2>1, <2>2
<1>5. CASE Enable
  <2>1. /\ UNCHANGED <<dispTh, frameBit, got, owed, isr, handler, type, pending, status>>
        /\ pc = "enabling" /\ pc' = "enabled"
    BY <1>5, CtrlLeaves DEF Enable, At
  <2> QED BY <2>1
<1>6. CASE Describe
  <2>1. /\ UNCHANGED <<dispTh, frameBit, got, owed, isr, handler, pending>>
        /\ pc = "enabled" /\ pc' = "registered" /\ type' = TRUE /\ status' = "init"
    BY <1>6 DEF Describe, At, device, registers, threads
  <2> QED BY <2>1
<1> QED BY <1>1, <1>2, <1>3, <1>4, <1>5, <1>6

LEMMA TakeDownKeeps ==
  ASSUME DriverInv, Unregister \/ Release \/ Disable \/ Free \/ Stop
  PROVE  DriverInv'
<1> USE DEF DriverInv, DriverTypes, Calls, OneEnd, Registered
<1>1. CASE Unregister
  <2>1. /\ UNCHANGED <<dispTh, frameBit, got, owed, isr, handler, pending, status>>
        /\ pc = "registered" /\ pc' = "disabling" /\ ~owed /\ type' = FALSE
    BY <1>1 DEF Unregister, At, device, registers, threads
  <2> QED BY <2>1
<1>2. CASE Release
  <2>1. /\ UNCHANGED <<dispTh, frameBit, got, isr, handler, pending, status>>
        /\ pc = "registered" /\ pc' = "cleaning" /\ owed' = FALSE /\ type' = FALSE
        /\ dispTh = "waiting"
    BY <1>2 DEF Release, At, device, registers, threads
  <2> QED BY <2>1
<1>3. CASE Disable
  <2>1. /\ UNCHANGED <<dispTh, frameBit, got, owed, isr, handler, type, pending, status>>
        /\ pc \in {"disabling", "cleaning"} /\ pc' \in {"freeing last", "freeing"}
    BY <1>3, CtrlLeaves DEF Disable, At
  <2> QED BY <2>1
<1>4. CASE Free
  <2>1. /\ UNCHANGED <<dispTh, frameBit, got, owed, isr, type, pending, status>>
        /\ pc \in {"freeing", "freeing last"} /\ pc' \in {"stopping", "idle"}
        /\ isr = "idle" /\ handler' = FALSE
    BY <1>4 DEF Free, At, device, registers, threads
  <2> QED BY <2>1
<1>5. CASE Stop
  <2>1. /\ UNCHANGED <<dispTh, frameBit, got, owed, isr, handler, descriptor>>
        /\ pc = "stopping" /\ pc' = "idle"
    BY <1>5, CtrlLeaves DEF Stop, At
  <2> QED BY <2>1 DEF descriptor
<1> QED BY <1>1, <1>2, <1>3, <1>4, <1>5

LEMMA WaitKeeps ==
  ASSUME DriverInv, DisplayImage \/ Wait \/ Sleep \/ Collect \/ Return
  PROVE  DriverInv'
<1> USE DEF DriverInv, DriverTypes, Calls, OneEnd, Registered
<1>1. CASE DisplayImage
  <2>1. /\ UNCHANGED <<frameBit, pc, got, isr, handler, descriptor>>
        /\ pc = "registered" /\ ~owed /\ owed' = TRUE
    BY <1>1 DEF DisplayImage, At, WriteCtrl
  <2> QED BY <2>1 DEF descriptor
<1>2. CASE Wait \/ Sleep
  <2>1. /\ UNCHANGED <<dispTh, frameBit, got, owed, isr, handler, descriptor>>
        /\ pc \in {"registered", "falling asleep"}
        /\ pc' \in {"falling asleep", "asleep", "collecting"}
    BY <1>2 DEF Wait, Sleep, At, device, registers, threads
  <2> QED BY <2>1 DEF descriptor
<1>3. CASE Collect
  <2>1. /\ UNCHANGED <<dispTh, frameBit, owed, isr, handler, descriptor>>
        /\ pc = "collecting" /\ pc' = "clearing" /\ got' = pending
    BY <1>3 DEF Collect, At, device, registers, threads
  <2> QED BY <2>1 DEF descriptor
<1>4. CASE Return
  <2>1. /\ UNCHANGED <<dispTh, frameBit, isr, handler, type, status>>
        /\ pc = "clearing" /\ pc' = "registered" /\ pending' = FALSE /\ got' = FALSE
        /\ owed' = (owed /\ ~got)
    BY <1>4 DEF Return, At, device, registers, threads
  <2>2. CASE got
    <3>1. owed' = FALSE BY <2>1, <2>2
    <3> QED BY <2>1, <2>2, <3>1
  <2>3. CASE ~got
    <3>1. owed' = owed BY <2>1, <2>3
    <3> QED BY <2>1, <2>3, <3>1
  <2> QED BY <2>2, <2>3
<1> QED BY <1>1, <1>2, <1>3, <1>4

LEMMA HandlerKeeps ==
  ASSUME DriverInv, Service \/ Wake
  PROVE  DriverInv'
<1> USE DEF DriverInv, DriverTypes, Calls, OneEnd, Registered
<1>1. CASE Service
  <2>1. /\ UNCHANGED <<pc, got, owed, handler, descriptor>>
        /\ frameBit /\ handler /\ isr = "idle" /\ isr' = "acked"
        /\ dispTh' = dispTh /\ ~frameBit' /\ frameBit' \in BOOLEAN
    BY <1>1, ClearLeaves DEF Service, process
  <2> QED BY <2>1 DEF descriptor
<1>2. CASE Wake
  <2>1. /\ UNCHANGED <<dispTh, frameBit, got, owed, handler, type>>
        /\ isr = "acked" /\ isr' = "idle"
    BY <1>2 DEF Wake, device, registers, threads
  <2>2. CASE nbIrqEn > 0 /\ type
    <3>1. /\ status' = "queued" /\ pending' = TRUE
          /\ pc' = IF pc = "asleep" THEN "collecting" ELSE pc
      BY <1>2, <2>1, <2>2 DEF Wake
    <3> QED BY <2>1, <2>2, <3>1
  <2>3. CASE ~ (nbIrqEn > 0 /\ type)
    <3>1. UNCHANGED <<status, pending, pc>> BY <1>2, <2>3 DEF Wake
    <3> QED BY <2>1, <3>1
  <2> QED BY <2>2, <2>3
<1> QED BY <1>1, <1>2

LEMMA DeviceKeeps ==
  ASSUME DriverInv, Device
  PROVE  DriverInv'
<1>1. UNCHANGED <<pc, got, owed, isr, handler, type, pending, status>>
  BY DEF Device, process, descriptor
<1>2. \/ UNCHANGED <<dispTh, frameBit>>
      \/ dispTh # "waiting" /\ frameBit' = frameBit
      \/ dispTh # "waiting" /\ dispTh' = "waiting" /\ frameBit' = TRUE
  BY DEF Device, StartStop, FbIrqUpdate, DisplayThread, StartDisplay, Transfer, TransferWord,
         TransferError, Signal, Viewer, Refresh, Copy, registers, threads
<1> USE DEF DriverInv, DriverTypes, Calls, OneEnd, Registered
<1>3. CASE UNCHANGED <<dispTh, frameBit>> BY <1>1, <1>3
<1>4. CASE dispTh # "waiting" /\ frameBit' = frameBit BY <1>1, <1>4
<1>5. CASE dispTh # "waiting" /\ dispTh' = "waiting" /\ frameBit' = TRUE
  <2>1. type /\ isr = "idle" /\ ~pending /\ owed BY <1>5
  <2> QED BY <1>1, <1>5, <2>1
<1> QED BY <1>2, <1>3, <1>4, <1>5

LEMMA DriverStepKeeps ==
  ASSUME DriverInv, [DriverNext]_driverVars
  PROVE  DriverInv'
<1>1. CASE UNCHANGED driverVars
  BY <1>1 DEF driverVars, device, registers, threads, process, descriptor,
              DriverInv, DriverTypes, Calls, OneEnd, Registered
<1> QED BY <1>1, SetUpKeeps, TakeDownKeeps, WaitKeeps, HandlerKeeps, DeviceKeeps
        DEF DriverNext, Process

(* A descriptor that is pending is the end of the image its process waits for: none is
   left from an earlier image or an earlier registration, and no image ends twice, on
   one CPU or several, however handler and process meet (rabbitsfb_int_service,
   rabbitsfb_int_wait, rabbitsfb_int_register and unregister). *)
THEOREM PendingIsRight == DriverSpec => []PendingIsOwed
<1>1. DriverInv => PendingIsOwed BY DEF DriverInv, DriverTypes, OneEnd, PendingIsOwed
<1>2. DriverInv /\ [DriverNext]_driverVars => DriverInv' BY DriverStepKeeps
<1> QED BY <1>1, <1>2, DriverStarts, PTL DEF DriverSpec
=============================================================================

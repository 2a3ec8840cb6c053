---------------------------- MODULE SlFramebuffer ----------------------------
(***************************************************************************)
(* sl_fb_device, the framebuffer of the SoCLib platforms: software writes  *)
(* pictures word by word and gives no other command.  The write of the     *)
(* first byte completes the picture before: it is converted if its mode is *)
(* a YUV one, shown, and the word goes to the other buffer.                *)
(*                                                                         *)
(* Software writes the words of a picture in order and starts the next one *)
(* when the one before is on the screen: the device has nothing to tell it *)
(* so, and holds nothing back that comes earlier.                          *)
(***************************************************************************)
EXTENDS Xramdac

CONSTANTS Width, Height,    \* a multiple of four
          Pictures

ASSUME SizeAssumption == Width \in Nat \ {0} /\ Height \in Nat \ {0} /\ (Width * Height) % 4 = 0

VARIABLES
    fbMode,     \* mode
    yuvImage,   \* yuv_image
    bufIdx,     \* buf_idx
    word,       \* the word that software writes next
    picture     \* the picture it is writing

slVars == <<fbMode, yuvImage, bufIdx, word, picture>>

Plain == {"GREY", "RGB32"}
Halved == {"YVYU", "YV16"}
FbModes == Plain \cup Halved \cup {"YV12"}

\* rgb_components.
Components(m) == IF m = "GREY" THEN 1 ELSE 3

Area == Width * Height

\* yuv_size.
YuvSize(m) == IF m \in Plain THEN 0 ELSE IF m \in Halved THEN 2 * Area ELSE (3 * Area) \div 2

\* mem_size in words.
MemWords == (IF fbMode \in Plain THEN Components(fbMode) * Area ELSE YuvSize(fbMode)) \div 4

\* The cells of the image shown: words when software writes it, pixels when the
\* conversion does.
ImageCells(m) == IF m \in Plain THEN (Components(m) * Area) \div 4 ELSE Area

\* init_ramdac: two shared images, and a viewer that is told their keys, their size and
\* their number of components through a pipe.
InitRamdac ==
    /\ image = [k \in 0 .. 1 |-> Blank(ImageCells(fbMode))]
    /\ process = "starting" /\ usr1 = FALSE /\ wi = 0 /\ copied = -1
    /\ copy = Blank(ImageCells(fbMode)) /\ area = copy /\ displayed = {}

SlInit ==
    /\ fbMode \in FbModes
    /\ yuvImage = [k \in 0 .. 1 |-> Blank(YuvSize(fbMode) \div 4)]
    /\ bufIdx = 0 /\ word = 0 /\ picture = {}
    /\ InitRamdac
-----------------------------------------------------------------------------
\* The pixels that iteration k of convert_frame_yv16 computes of a picture: its
\* samples are bytes of the words of it.
Yv16Pixels(buf, k) ==
    LET u == Area + k
        v == u + Area \div 2
        at(y) == buf[y \div 4] \cup buf[u \div 4] \cup buf[v \div 4]
    IN  <<at(2 * k), at(2 * k + 1)>>

\* convert_frame_yv16.
Converted(buf) == [p \in 0 .. Area - 1 |-> Yv16Pixels(buf, p \div 2)[1 + (p % 2)]]

\* The image that display leaves in the buffer it shows.  The functions for the
\* other two YUV modes are empty.
Shown == IF fbMode = "YV16" THEN Converted(yuvImage[bufIdx]) ELSE image[bufIdx]

\* display().
SlDisplay ==
    /\ bufIdx' = 1 - bufIdx
    /\ Kill(picture)

\* write(): the word of picture p that comes next.
SlWrite(p) ==
    /\ \/ word = 0 /\ Idle /\ SlDisplay /\ picture' = {p}
       \/ word > 0 /\ picture = {p} /\ UNCHANGED <<bufIdx, process, usr1, displayed, picture>>
    /\ LET shown == IF word = 0 THEN [image EXCEPT ![bufIdx] = Shown] ELSE image
       IN  IF fbMode \in Plain
           THEN image' = [shown EXCEPT ![bufIdx'][word] = {p}] /\ UNCHANGED yuvImage
           ELSE yuvImage' = [yuvImage EXCEPT ![bufIdx'][word] = {p}] /\ image' = shown
    /\ word' = (word + 1) % MemWords
    /\ UNCHANGED <<fbMode, wi, copied, copy, area>>

SlNext == \/ \E p \in Pictures : SlWrite(p)
          \/ ShowNext /\ UNCHANGED slVars
-----------------------------------------------------------------------------
(* In the modes that display() converts, or has not to. *)
SlPictureShown == fbMode \in Plain \cup {"YV16"} => PictureShown
=============================================================================

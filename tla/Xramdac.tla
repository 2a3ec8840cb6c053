------------------------------- MODULE Xramdac -------------------------------
(***************************************************************************)
(* xramdac, the process that shows the images of sl_fb_device and of       *)
(* ramdac_device.  Device and process share two images; a signal without a *)
(* number or a queue is all that the device sends when one is complete,    *)
(* and the process takes the images in turn.                               *)
(*                                                                         *)
(* A cell of an image is the set of the pictures its content comes from.   *)
(***************************************************************************)
EXTENDS Integers

VARIABLES
    image,      \* the shared images
    process,    \* "none", "starting", "running", "killed"
    usr1,       \* SIGUSR1 is pending
    wi,         \* the image it shows next
    copied,     \* cells that memcpy has copied, -1 outside of the signal handler
    copy,       \* its own copy
    area,       \* what is drawn
    displayed   \* the picture that the device completed last

xramdac == <<process, usr1, wi, copied, copy, area>>

Blank(cells) == [c \in 0 .. cells - 1 |-> {}]
Cells == DOMAIN copy

\* No process yet.
NoViewer ==
    /\ image = [k \in 0 .. 1 |-> Blank(1)]
    /\ process = "none" /\ usr1 = FALSE /\ wi = 0 /\ copied = -1
    /\ copy = Blank(1) /\ area = Blank(1) /\ displayed = {}

\* The two images, which the kernel hands out cleared, and the process, which has
\* still to start.
CreateViewer(cells) ==
    /\ image' = [k \in 0 .. 1 |-> Blank(cells)]
    /\ process' = "starting" /\ usr1' = FALSE /\ wi' = 0 /\ copied' = -1
    /\ copy' = Blank(cells) /\ area' = Blank(cells) /\ displayed' = {}

\* main up to the signal handler: before it a signal ends the process.
StartViewer ==
    /\ process = "starting"
    /\ process' = "running"
    /\ UNCHANGED <<image, usr1, wi, copied, copy, area, displayed>>

\* kill(pid, SIGUSR1) for the picture just completed.
Kill(picture) ==
    /\ process' = IF process = "starting" THEN "killed" ELSE process
    /\ usr1' = (process = "running")
    /\ displayed' = picture

\* The signal is blocked while its handler runs.
EnterHandler ==
    /\ process = "running" /\ usr1 /\ copied = -1
    /\ usr1' = FALSE /\ copied' = 0
    /\ UNCHANGED <<image, process, wi, copy, area, displayed>>

CopyCell ==
    /\ copied \in Cells
    /\ copy' = [copy EXCEPT ![copied] = image[wi][copied]]
    /\ copied' = copied + 1
    /\ UNCHANGED <<image, process, usr1, wi, area, displayed>>

\* The end of a handler that shows the same image again.
Draw_SameImage ==
    /\ copied >= 0 /\ copied \notin Cells
    /\ area' = copy
    /\ copied' = -1
    /\ UNCHANGED <<image, process, usr1, wi, copy, displayed>>

\* display_drawing_area, and the turn to the other image.
Draw ==
    /\ copied >= 0 /\ copied \notin Cells
    /\ area' = copy
    /\ wi' = 1 - wi
    /\ copied' = -1
    /\ UNCHANGED <<image, process, usr1, copy, displayed>>

ShowNext == StartViewer \/ EnterHandler \/ CopyCell \/ Draw

\* Nothing on its way to the screen.
Idle == ~usr1 /\ copied = -1

(* The picture completed last is on the screen, all of it. *)
PictureShown == process = "running" /\ Idle => area = [c \in Cells |-> displayed]
=============================================================================

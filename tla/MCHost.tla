------------------------------- MODULE MCHost -------------------------------
(***************************************************************************)
(* What the user of the simulated machine sees and types, in five parts:   *)
(* the console, the framebuffer with software that waits for one image     *)
(* before it touches the next, the pixels of its viewer, and the two       *)
(* devices that show their pictures with xramdac.                          *)
(***************************************************************************)
EXTENDS TtySerial, Framebuffer, FbViewer, SlFramebuffer, Ramdac

VARIABLE part

console == vars
xscreen == <<image, xramdac, displayed>>

MCSizes == {<<3, 3>>, <<2, 2>>, <<4, 2>>, <<2, 4>>, <<4, 4>>, <<6, 4>>}
MCDimensions == {<<4, 2, 1>>, <<4, 1, 3>>, <<4, 2, 3>>}

NoConversion == /\ mode = "RGB" /\ width = 1 /\ height = 1 /\ big = FALSE /\ xrgb = FALSE
                /\ done = 0 /\ pixels = <<>>
NoDisplay == FbInit /\ ~wrap /\ ~running /\ bufAddr = CHOOSE a \in Addrs : TRUE
NoFramebuffer == /\ fbMode = "GREY" /\ yuvImage = <<>> /\ bufIdx = 0 /\ word = 0 /\ picture = {}
NoRamdac == /\ software = <<4, 1, 1>> /\ limit = 0 /\ dims = <<0, 0, 0>> /\ ready = FALSE
            /\ mx = 0 /\ my = 0 /\ ii = 0 /\ images = 0 /\ drawn = {}

MCInit ==
    /\ Init
    /\ \/ part = "console" /\ NoConversion /\ NoFramebuffer /\ NoRamdac /\ NoViewer
       \/ part = "display" /\ FbInit /\ NoConversion /\ NoFramebuffer /\ NoRamdac /\ NoViewer
       \/ part = "viewer" /\ ViewerInit /\ NoFramebuffer /\ NoRamdac /\ NoViewer
       \/ part = "framebuffer" /\ SlInit /\ NoConversion /\ NoRamdac
       \/ part = "ramdac" /\ RamdacInit /\ NoConversion /\ NoFramebuffer
    /\ part # "display" => NoDisplay

\* In the framebuffer the interrupt stays off: it is the matter of its driver.
MCNext ==
    /\ UNCHANGED part
    /\ \/ part = "console" /\ Next /\ UNCHANGED <<fbVars, viewerVars, xscreen, slVars, ramdacVars>>
       \/ /\ part = "display" /\ FbNext /\ "IRQEN" \notin ctrl'
          /\ UNCHANGED <<console, viewerVars, xscreen, slVars, ramdacVars>>
       \/ part = "viewer" /\ ConvertAndDisplay /\ UNCHANGED <<console, fbVars, xscreen, slVars, ramdacVars>>
       \/ part = "framebuffer" /\ SlNext /\ UNCHANGED <<console, fbVars, viewerVars, ramdacVars>>
       \/ part = "ramdac" /\ RamdacNext /\ UNCHANGED <<console, fbVars, viewerVars, slVars>>

MCSpec == /\ MCInit /\ [][MCNext]_<<part, console, fbVars, viewerVars, xscreen, slVars, ramdacVars>>
          /\ part = "console" => Fairness
-----------------------------------------------------------------------------
(* The devices leave a picture in one of two images and send a signal without a
   number; the viewers take the images in turn and convert byte by byte.  What
   the user sees is the picture completed last and nothing else, each pixel of
   it with the red, green and blue of its own samples. *)
PictureIsWhole ==
    /\ part = "viewer" => PictureRight
    /\ part = "framebuffer" => SlPictureShown
    /\ part = "ramdac" => PictureShown
=============================================================================

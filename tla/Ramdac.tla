------------------------------- MODULE Ramdac -------------------------------
(***************************************************************************)
(* ramdac_device: a register that takes the width, the height and the      *)
(* number of components of the images first, and then their words, one     *)
(* after the other.  The last word of an image shows it.                   *)
(***************************************************************************)
EXTENDS Xramdac

CONSTANTS Dimensions,       \* the images, <<width, height, components>>
          FrameLimits,      \* values of no_frames_to_simulate, 0 for none
          RamdacPictures

ASSUME DimensionsAssumption ==
    \A d \in Dimensions : d[1] \in Nat \ {0} /\ d[1] % 4 = 0 /\ d[2] \in Nat \ {0} /\ d[3] \in {1, 3}

VARIABLES
    software,   \* the dimensions that software writes
    limit,      \* no_frames_to_simulate
    dims,       \* width, height, components of the device
    ready,      \* m_ready
    mx, my,     \* m_x, m_y
    ii,         \* the image that is written
    images,     \* nb_images, counted where there is a limit
    drawn       \* the picture software is writing

ramdacVars == <<software, limit, dims, ready, mx, my, ii, images, drawn>>

\* The constructor leaves components as the memory was.
RamdacInit ==
    /\ software \in Dimensions /\ limit \in FrameLimits
    /\ dims \in {<<0, 0, c>> : c \in {0, 1}}
    /\ ready = FALSE /\ mx = 0 /\ my = 0 /\ ii = 0 /\ images = 0 /\ drawn = {}
    /\ NoViewer

Simulating == limit = 0 \/ images < limit

\* The next of width, height and components that is still 0; with none left the
\* value is lost, and the device never ready.
ReceiveSize ==
    /\ \/ /\ dims[1] = 0
          /\ dims' = [dims EXCEPT ![1] = software[1]]
          /\ UNCHANGED <<ready, image, xramdac, displayed>>
       \/ /\ dims[1] # 0 /\ dims[2] = 0
          /\ dims' = [dims EXCEPT ![2] = software[2]]
          /\ UNCHANGED <<ready, image, xramdac, displayed>>
       \/ /\ dims[1] # 0 /\ dims[2] # 0 /\ dims[3] = 0
          /\ dims' = software
          /\ ready' = TRUE
          /\ CreateViewer((software[1] * software[2] * software[3]) \div 4)
    /\ UNCHANGED <<mx, my, ii, images, drawn>>

Across == (dims[1] \div 4) * dims[3]

\* display(), which shows the image and turns to the other one.
RamdacDisplay(p) ==
    /\ images' = IF limit = 0 THEN 0 ELSE images + 1
    /\ ii' = 1 - ii
    /\ Kill({p})

\* A word of picture p.  Software completes an image when the one before is shown.
WriteWord(p) ==
    /\ drawn = {p} \/ (mx = 0 /\ my = 0)
    /\ drawn' = {p}
    /\ image' = [image EXCEPT ![ii][(my * dims[1] * dims[3]) \div 4 + mx] = {p}]
    /\ mx' = (mx + 1) % Across
    /\ my' = IF mx' = 0 THEN (my + 1) % dims[2] ELSE my
    /\ \/ mx' = 0 /\ my' = 0 /\ Idle /\ RamdacDisplay(p)
       \/ ~(mx' = 0 /\ my' = 0) /\ UNCHANGED <<images, ii, process, usr1, displayed>>
    /\ UNCHANGED <<dims, ready, wi, copied, copy, area>>

RamdacWrite ==
    /\ Simulating
    /\ \/ ~ready /\ ReceiveSize
       \/ ready /\ \E p \in RamdacPictures : WriteWord(p)
    /\ UNCHANGED <<software, limit>>

\* exit() of the simulator ends the viewer too.
RamdacNext == \/ RamdacWrite
              \/ Simulating /\ ShowNext /\ UNCHANGED ramdacVars
=============================================================================

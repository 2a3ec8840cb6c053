------------------------------ MODULE FbViewer ------------------------------
(***************************************************************************)
(* fbviewer: from the bytes of an image in the mode of the framebuffer to  *)
(* the pixels of the host's screen.  When it does so, and from which of    *)
(* its two buffers, is the matter of Framebuffer.                          *)
(*                                                                         *)
(* Bytes are told apart by where they come from: a byte of the screen is   *)
(* the offset of the byte of the image that it was copied from, or the     *)
(* component of the colour that yuv2rgb computes of three of them.         *)
(***************************************************************************)
EXTENDS Integers, Sequences

CONSTANT Sizes      \* the sizes of images, <<width, height>>

ASSUME FbViewerAssumption == Sizes \subseteq (Nat \ {0}) \X (Nat \ {0})

VARIABLES
    mode, width, height,    \* what the device tells the viewer
    big,        \* the host is big endian
    xrgb,       \* pix_fmt: from the most significant byte a pixel is -RGB, otherwise BGR-
    done,       \* iterations of the loop of the conversion
    pixels      \* surface->pixels so far

viewerVars == <<mode, width, height, big, xrgb, done, pixels>>

Packed == {"RGB", "BGR"}
Words32 == {"ARGB", "BGRA"}
Planar420 == {"YV12", "IYUV"}
Yuv == Planar420 \cup {"YVYU", "YV16"}

\* get_size.
GetSize(m, w, h) ==
    CASE m \in Packed -> 3 * w * h
      [] m \in Words32 -> 4 * w * h
      [] m \in {"YVYU", "YV16"} -> 2 * w * h
      [] m \in Planar420 -> (3 * w * h) \div 2

\* What the device allocates.
DeviceSize(m, w, h) == IF m \in Words32 THEN 4 * w * h ELSE 3 * w * h
-----------------------------------------------------------------------------
(* set_conversion: a case of the mode, under either byte order.            *)

\* The bytes of a pixel of the screen in memory, for RGB and BGR.
RgbOrder == IF big = xrgb THEN "ARGB" ELSE "BGRA"

\* The bytes of a 32-bit mode are copied as they are or turned around.
Swaps == IF big = xrgb THEN mode = "BGRA" ELSE mode = "ARGB"

\* The byte order never looked at.
YuvOrder_Little == IF xrgb THEN "BGRA" ELSE "ARGB"

\* For the YUV modes.
YuvOrder == IF big = xrgb THEN "ARGB" ELSE "BGRA"

Pixel(order, r, g, b) ==
    IF order = "ARGB" THEN <<"zero", r, g, b>> ELSE <<b, g, r, "zero">>
-----------------------------------------------------------------------------
(* The conversions: the pixels that iteration k of their loop appends.     *)

\* convert_RGB_ARGB and its like.
Rgb(k) ==
    <<IF mode = "RGB" THEN Pixel(RgbOrder, 3 * k, 3 * k + 1, 3 * k + 2)
                      ELSE Pixel(RgbOrder, 3 * k + 2, 3 * k + 1, 3 * k)>>

\* convert_ARGB_copy_32, convert_ARGB_swap_32.
Argb(k) ==
    <<IF Swaps THEN <<4 * k + 3, 4 * k + 2, 4 * k + 1, 4 * k>>
               ELSE <<4 * k, 4 * k + 1, 4 * k + 2, 4 * k + 3>> >>

\* The colour of the samples at offsets y, u and v.
Coloured(y, u, v) ==
    LET c(component) == <<component, y, u, v>>
    IN  Pixel(YuvOrder, c("r"), c("g"), c("b"))

\* convert_YVYU.
Yvyu(k) == <<Coloured(4 * k, 4 * k + 3, 4 * k + 1),
             Coloured(4 * k + 2, 4 * k + 3, 4 * k + 1)>>

\* convert_YV16: the planes of u and v have half the samples of that of y.
Yv16(k) ==
    LET u == width * height + k
        v == u + (width * height) \div 2
    IN  <<Coloured(2 * k, u, v), Coloured(2 * k + 1, u, v)>>

\* Iteration k of the two nested loops of the 4:2:0 modes, the planes of u and v
\* starting where they say.
Blocks(k, uBuf, vBuf) ==
    LET i == k % (width \div 2)
        j == k \div (width \div 2)
        c == i + ((j \div 2) * width) \div 2
        y == 2 * i + j * width
    IN  <<Coloured(y, uBuf + c, vBuf + c), Coloured(y + 1, uBuf + c, vBuf + c)>>

\* convert_YV12 and convert_IYUV.
Yv12(k) == LET vBuf == width * height
           IN  Blocks(k, vBuf + (width * height) \div 4, vBuf)

Iyuv(k) == LET uBuf == width * height
           IN  Blocks(k, uBuf, uBuf + (width * height) \div 4)

Iterations ==
    CASE mode \in Packed \cup Words32 -> width * height
      [] mode \in {"YVYU", "YV16"} -> (width * height) \div 2
      [] mode \in Planar420 -> height * (width \div 2)

Pixels(k) ==
    CASE mode \in Packed -> Rgb(k)
      [] mode \in Words32 -> Argb(k)
      [] mode = "YVYU" -> Yvyu(k)
      [] mode = "YV16" -> Yv16(k)
      [] mode = "YV12" -> Yv12(k)
      [] mode = "IYUV" -> Iyuv(k)

Low(n) == IF n < 0 THEN 0 ELSE IF n < 256 THEN n ELSE 255

\* yuv2rgb; >> of a negative number rounds down.
Yuv2rgb(y, u, v) ==
    LET luma == 298 * (y - 16)
    IN  [r |-> Low((luma + 409 * (v - 128) + 128) \div 256),
         g |-> Low((luma - 100 * (u - 128) - 208 * (v - 128) + 128) \div 256),
         b |-> Low((luma + 516 * (u - 128) + 128) \div 256)]
-----------------------------------------------------------------------------
\* main reads the configuration; the modes the device has and the viewer does not
\* (none, grey) leave it without a conversion.  The samples of the YUV modes are
\* shared by the pixels of a block: software uses images of even sizes.
ViewerInit ==
    /\ mode \in Packed \cup Words32 \cup Yuv
    /\ \E s \in Sizes :
         /\ width = s[1] /\ height = s[2]
         /\ mode \in Yuv => width % 2 = 0 /\ height % 2 = 0
    /\ big \in BOOLEAN /\ xrgb \in BOOLEAN
    /\ done = 0 /\ pixels = <<>>

\* An iteration of the conversion that refresh calls.
ConvertAndDisplay ==
    /\ done < Iterations
    /\ pixels' = pixels \o Pixels(done)
    /\ done' = done + 1
    /\ UNCHANGED <<mode, width, height, big, xrgb>>

ViewerSpec == ViewerInit /\ [][ConvertAndDisplay]_viewerVars
-----------------------------------------------------------------------------
(* What the picture should be, from the modes as framebuffer_device.h        *)
(* describes them.                                                           *)

\* The offsets of the samples of the pixel in column x and row y.
SamplesAt(x, y) ==
    LET p == y * width + x
        luma == width * height
        chroma == (y \div 2) * (width \div 2) + x \div 2
        quarter == (width \div 2) * (height \div 2)
        half == y * (width \div 2) + x \div 2
        row == y * 2 * width + 4 * (x \div 2)
    IN  CASE mode = "RGB" -> <<3 * p, 3 * p + 1, 3 * p + 2>>
          [] mode = "BGR" -> <<3 * p + 2, 3 * p + 1, 3 * p>>
          [] mode = "ARGB" -> <<4 * p + 1, 4 * p + 2, 4 * p + 3>>
          [] mode = "BGRA" -> <<4 * p + 2, 4 * p + 1, 4 * p>>
          [] mode = "YVYU" -> <<row + 2 * (x % 2), row + 3, row + 1>>
          [] mode = "YV16" -> <<p, luma + half, luma + height * (width \div 2) + half>>
          [] mode = "YV12" -> <<p, luma + quarter + chroma, luma + chroma>>
          [] mode = "IYUV" -> <<p, luma + chroma, luma + quarter + chroma>>

\* What the screen shows as red, green and blue of a pixel, by the masks of its format.
Decoded(pixel) ==
    LET shift(c) == IF xrgb THEN CASE c = "r" -> 2 [] c = "g" -> 1 [] c = "b" -> 0
                            ELSE CASE c = "r" -> 1 [] c = "g" -> 2 [] c = "b" -> 3
        byte(c) == pixel[1 + IF big THEN 3 - shift(c) ELSE shift(c)]
    IN  <<byte("r"), byte("g"), byte("b")>>

\* The same, when the picture is right.
Wanted(x, y) ==
    LET s == SamplesAt(x, y)
    IN  IF mode \in Yuv THEN [i \in 1 .. 3 |-> <<<<"r", "g", "b">>[i], s[1], s[2], s[3]>>] ELSE s

\* Greys stay grey, and the primary colours of BT.601 are those of the screen but
\* for the last bit.
ColoursAreRight ==
    LET near(colour, r, g, b) == colour.r \in r - 1 .. r + 1 /\ colour.g \in g - 1 .. g + 1
                                 /\ colour.b \in b - 1 .. b + 1
    IN  /\ \A y \in {0, 16, 17, 126, 235, 255} :
             LET c == Yuv2rgb(y, 128, 128) IN c.r = c.g /\ c.g = c.b
        /\ near(Yuv2rgb(82, 90, 240), 255, 0, 0)
        /\ near(Yuv2rgb(145, 54, 34), 0, 255, 0)
        /\ near(Yuv2rgb(41, 240, 110), 0, 0, 255)
        /\ near(Yuv2rgb(16, 128, 128), 0, 0, 0) /\ near(Yuv2rgb(235, 128, 128), 255, 255, 255)

(* Modes, planes, byte orders and pixel formats of the host multiply to 32 loops
   of offsets: in each of them every pixel of the picture is written once, shows
   the red, green and blue of its own samples (in the YUV modes those of its
   block), all samples lie in the bytes that viewer and device both have, and the
   fixed-point arithmetic of the colours clips and rounds as it should. *)
PictureRight ==
    /\ \A i \in 1 .. Len(pixels) :
         LET x == (i - 1) % width
             y == (i - 1) \div width
         IN  /\ Decoded(pixels[i]) = Wanted(x, y)
             /\ \A n \in 1 .. 3 : SamplesAt(x, y)[n] < GetSize(mode, width, height)
    /\ done = Iterations => Len(pixels) = width * height
    /\ GetSize(mode, width, height) <= DeviceSize(mode, width, height)
    /\ ColoursAreRight
=============================================================================

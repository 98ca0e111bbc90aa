----------------------------- MODULE GameDrawing -----------------------------
(***************************************************************************)
(* What Util::Game::Graphics (src/lib/util/game/Graphics.cpp) computes     *)
(* before it writes the frame buffer: the pixel size, the constructor's    *)
(* scale and centre, the conversion of the game's coordinates to pixels,  *)
(* and drawImage2D, as operators on a buffer of Pitch * ResY bytes.  A     *)
(* pixel reaches the buffer through PixelDrawer, which is not under src/:  *)
(* it is drawn only on the screen, byte k of colour c holding c + k.  The  *)
(* positions a game draws at are halves, a coordinate v given as 2 * v.    *)
(***************************************************************************)
EXTENDS Integers

CONSTANTS
  ResX, ResY, Depth, Pitch,   \* the frame buffer's mode
  CameraXs, CameraYs,         \* camera positions the game moves to
  Images                      \* [width, height, px]: pixel (i, j) is
                              \* px[i * width + j + 1]

Size == Pitch * ResY
Offsets == 0 .. Size - 1
Black == 0

(* (Depth == 15 ? 16 : Depth) / 8, line 258.                               *)
BytesPerPixel == (IF Depth = 15 THEN 16 ELSE Depth) \div 8

(* PixelDrawer::drawPixel of each dot [x, y, c] (the dots at distinct     *)
(* places): the BytesPerPixel bytes of a dot on the screen; a dot off it  *)
(* is dropped.                                                             *)
Paint(buf, dots) ==
  [i \in Offsets |->
     LET x == (i % Pitch) \div BytesPerPixel
         hit == {d \in dots : d.x = x /\ d.y = i \div Pitch}
     IN  IF i % Pitch < ResX * BytesPerPixel /\ hit /= {}
         THEN (CHOOSE d \in hit : TRUE).c + ((i % Pitch) % BytesPerPixel)
         ELSE buf[i]]

(* double to int32_t or uint32_t conversion: truncation toward zero.       *)
Truncate(n, d) == IF n >= 0 THEN n \div d ELSE -((-n) \div d)

(* The constructor (lines 40-44): a unit of the game's coordinates is half *)
(* the shorter side; the origin is the centre of the screen.               *)
Transformation == (IF ResX > ResY THEN ResY ELSE ResX) \div 2
OffsetX == Transformation + (IF ResX > ResY THEN (ResX - ResY) \div 2 ELSE 0)
OffsetY == Transformation + (IF ResY > ResX THEN (ResY - ResX) \div 2 ELSE 0)

(* static_cast<int32_t>((x - camera.x) * transformation + offsetX) and     *)
(* its y counterpart, which flips the axis, for x2 = 2 * x.                *)
ScreenX(x2, cam) == Truncate((x2 - 2 * cam[1]) * Transformation + 2 * OffsetX, 2)
ScreenY(y2, cam) == Truncate((-y2 + 2 * cam[2]) * Transformation + 2 * OffsetY, 2)

(* The pixel at (x, y) of a buffer: its bytes in order.                    *)
PixelAt(buf, x, y) ==
  [k \in 0 .. BytesPerPixel - 1 |-> buf[y * Pitch + x * BytesPerPixel + k]]

(* Mutant of DrawImage: an image whose bottom row is the screen's top row *)
(* is dropped.                                                             *)
DrawImageTopRowDropped(buf, cam, x2, y2, img, flip) ==
  LET xOff == ScreenX(x2, cam)
      yOff == ScreenY(y2, cam)
      xFlipOffset == IF flip THEN img.width - 1 ELSE 0
      culled == \/ xOff + img.width < 0 \/ xOff > ResX
                \/ yOff - img.height > ResY \/ yOff <= 0
  IN  IF culled THEN buf
      ELSE Paint(buf, {[x |-> xOff + xFlipOffset + (IF flip THEN -1 ELSE 1) * j,
                        y |-> yOff - i,
                        c |-> img.px[i * img.width + j + 1]] :
                         i \in 0 .. img.height - 1, j \in 0 .. img.width - 1})

(* drawImage2D (lines 137-154) on buffer buf with the camera at cam:      *)
(* nothing when the early test finds the image off the screen, else every  *)
(* pixel (i, j) of it, rows going up the screen from yOff and columns      *)
(* right from xOff, or left from the last column when flipped.             *)
DrawImage(buf, cam, x2, y2, img, flip) ==
  LET xOff == ScreenX(x2, cam)
      yOff == ScreenY(y2, cam)
      xFlipOffset == IF flip THEN img.width - 1 ELSE 0
      culled == \/ xOff + img.width < 0 \/ xOff > ResX
                \/ yOff - img.height > ResY \/ yOff < 0
  IN  IF culled THEN buf
      ELSE Paint(buf, {[x |-> xOff + xFlipOffset + (IF flip THEN -1 ELSE 1) * j,
                        y |-> yOff - i,
                        c |-> img.px[i * img.width + j + 1]] :
                         i \in 0 .. img.height - 1, j \in 0 .. img.width - 1})

(* Pixel (i, j) of an image drawn at (x2, y2) / 2 with the camera at     *)
(* cam: its place on the screen, counted from the image's left edge and   *)
(* up from its bottom row, from the right edge when flipped.              *)
ExpectedDot(cam, x2, y2, img, flip, i, j) ==
  [x |-> ScreenX(x2, cam) + (IF flip THEN img.width - 1 - j ELSE j),
   y |-> ScreenY(y2, cam) - i,
   c |-> img.px[i * img.width + j + 1]]

(* Twice the positions from which an image of Images may reach the        *)
(* screen, and some beyond.                                                *)
Reach == 2 * (ResX + ResY)

(* drawImage2D draws every visible pixel of an image where the camera     *)
(* puts it, mirrored when flipped, for every camera, position, image and  *)
(* flip: its early test (lines 144-147) never drops an image that has a   *)
(* pixel on the screen, and the flip offset keeps a flipped image in the  *)
(* columns of the unflipped one (line 151).  Checked on a black buffer.   *)
ImageShownWhereVisible ==
  \A cam \in CameraXs \X CameraYs, x2, y2 \in -Reach .. Reach,
    img \in Images, flip \in BOOLEAN :
    LET buf == DrawImage([i \in Offsets |-> Black], cam, x2, y2, img, flip)
    IN  \A i \in 0 .. img.height - 1, j \in 0 .. img.width - 1 :
          LET d == ExpectedDot(cam, x2, y2, img, flip, i, j)
          IN  d.x \in 0 .. ResX - 1 /\ d.y \in 0 .. ResY - 1 =>
                PixelAt(buf, d.x, d.y) = [k \in 0 .. BytesPerPixel - 1 |-> d.c + k]
=============================================================================

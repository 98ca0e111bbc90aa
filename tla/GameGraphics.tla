---------------------------- MODULE GameGraphics ----------------------------
(***************************************************************************)
(* Util::Game::Graphics (src/lib/util/game/Graphics.cpp): what a game      *)
(* draws into the linear frame buffer, the background it may save, and     *)
(* show(), which at the end of every frame refills the buffer with the     *)
(* background scrolled horizontally by the camera.                          *)
(*                                                                         *)
(* The frame buffer is a function from byte offsets to byte values: Pitch  *)
(* bytes per row, a pixel of Depth bits takes (Depth = 15 ? 16 : Depth) / 8 *)
(* bytes from offset x * BytesPerPixel of its row.  The drawing functions   *)
(* reach the buffer through PixelDrawer, LineDrawer and StringDrawer,      *)
(* which are not under src/: a pixel is drawn only on the screen, a line   *)
(* includes both its ends, and byte k of a colour c holds c + k, so a      *)
(* pixel split by a copy is visible.  Camera positions (a double in        *)
(* Camera, moved by the game) are integers here; the positions and sizes   *)
(* a game draws at are halves, a coordinate v given as 2 * v.               *)
(***************************************************************************)
EXTENDS Integers, Sequences, GameDrawing

CONSTANTS
  Colors,                     \* colours a game sets (byte values, not 0)
  Xs, Ys,                     \* twice the positions the game draws at
  Sizes,                      \* twice the rectangle sides it fills
  NULL

VARIABLES
  lfb,          \* the frame buffer's bytes
  background,   \* backgroundBuffer: NULL or its bytes
  color,        \* the colour the drawing functions use
  camera        \* the current scene's camera position, <<x, y>>

vars == <<lfb, background, color, camera>>

(* static_cast<uint32_t>(v) % pitch.  A negative v is undefined behaviour; *)
(* i386 builds convert through a 64-bit integer and keep its low 32 bits,  *)
(* v + 2^32.  2^32 itself exceeds TLC's integers: its remainder is         *)
(* computed from 2^16.                                                     *)
U32Mod(v, p) ==
  IF v >= 0 THEN v % p
  ELSE ((((65536 % p) * (65536 % p)) % p) + v) % p

(* lines 258-260: the byte offset into each background row, a multiple of  *)
(* the pixel size.                                                         *)
XOffsetUnaligned(camX) == U32Mod(Truncate(camX * Pitch, 4), Pitch)
XOffset(camX) ==
  LET x == U32Mod(Truncate(camX * Pitch, 4), Pitch)
  IN  x - (x % BytesPerPixel)

(* The rows loop of show (lines 262-272): row bytes [0, pitch - xOffset)   *)
(* come from the background at xOffset, the rest from its start.          *)
ScrolledRows(bg, xOffset) ==
  [i \in Offsets |->
     LET yOffset == (i \div Pitch) * Pitch
         k == i - yOffset
     IN  IF k < Pitch - xOffset THEN bg[yOffset + xOffset + k]
         ELSE bg[yOffset + k - (Pitch - xOffset)]]

Init ==
  /\ lfb \in {[i \in Offsets |-> Black]}
  /\ background = NULL
  /\ color \in Colors
  /\ camera \in CameraXs \X CameraYs

(* setColor (lines 276-278).                                               *)
SetColor(c) ==
  /\ color' = c
  /\ UNCHANGED <<lfb, background, camera>>

(* LineDrawer::drawLine (not under src/) from (x0, y0) to (x1, y1): a line *)
(* along a row or a column is every pixel between its ends, both          *)
(* included; of a slanted line only its ends are fixed, the pixels between *)
(* them being the drawer's choice.                                         *)
Between(a, b) == IF a <= b THEN a .. b ELSE b .. a
LinePixels(x0, y0, x1, y1) ==
  IF x0 = x1 \/ y0 = y1 THEN Between(x0, x1) \X Between(y0, y1)
  ELSE {<<x0, y0>>, <<x1, y1>>}

(* drawLine2D (lines 70-76): both ends through the camera transformation, *)
(* the line in the current colour; from and to are <<2 * x, 2 * y>>.       *)
Line2D(from, to) ==
  {[x |-> p[1], y |-> p[2], c |-> color] :
     p \in LinePixels(ScreenX(from[1], camera), ScreenY(from[2], camera),
                      ScreenX(to[1], camera), ScreenY(to[2], camera))}

DrawLine2D(from, to) ==
  /\ lfb' = Paint(lfb, Line2D(from, to))
  /\ UNCHANGED <<background, color, camera>>

(* drawPolygon2D (lines 78-84): a line from each vertex to the next and    *)
(* from the last to the first.  The array is not empty: length() - 1 of an *)
(* empty one wraps to 2^32 - 1.                                            *)
DrawPolygon2D(vs) ==
  /\ lfb' = Paint(lfb, UNION {Line2D(vs[i], vs[IF i = Len(vs) THEN 1 ELSE i + 1]) :
                               i \in 1 .. Len(vs)})
  /\ UNCHANGED <<background, color, camera>>

(* drawRectangle2D (lines 86-98), and drawSquare2D with w2 = h2: the top,  *)
(* the bottom at y - height, the left and the right side.                  *)
DrawRectangle2D(x2, y2, w2, h2) ==
  /\ lfb' = Paint(lfb, Line2D(<<x2, y2>>, <<x2 + w2, y2>>)
                       \cup Line2D(<<x2, y2 - h2>>, <<x2 + w2, y2 - h2>>)
                       \cup Line2D(<<x2, y2>>, <<x2, y2 - h2>>)
                       \cup Line2D(<<x2 + w2, y2>>, <<x2 + w2, y2 - h2>>))
  /\ UNCHANGED <<background, color, camera>>

(* fillRectangle2D (lines 104-114) at (x2, y2) / 2, sides w2 / 2 and      *)
(* h2 / 2: a line from startX to endX on every row from startY up to,     *)
(* without, endY.                                                          *)
FillRectangle2D(x2, y2, w2, h2) ==
  LET startX == ScreenX(x2, camera)
      endX == ScreenX(x2 + w2, camera)
      startY == ScreenY(y2, camera)
      endY == Truncate((-y2 + h2 + 2 * camera[2]) * Transformation + 2 * OffsetY, 2)
  IN  /\ lfb' = Paint(lfb, {[x |-> p[1], y |-> p[2], c |-> color] :
                               p \in UNION {LinePixels(startX, i, endX, i) :
                                              i \in startY .. endY - 1}})
      /\ UNCHANGED <<background, color, camera>>

(* The game calls drawImage2D for its current scene's camera.              *)
DrawImage2D(x2, y2, img, flip) ==
  /\ lfb' = DrawImage(lfb, camera, x2, y2, img, flip)
  /\ UNCHANGED <<background, color, camera>>

(* clear(c) (lines 292-302): lfb.clear() for black, else drawPixel of     *)
(* every pixel.                                                            *)
Clear(c) ==
  /\ lfb' = IF c = Black THEN [i \in Offsets |-> Black]
            ELSE Paint(lfb, {[x |-> x, y |-> y, c |-> c] :
                               x \in 0 .. ResX - 1, y \in 0 .. ResY - 1})
  /\ UNCHANGED <<background, color, camera>>

(* saveCurrentStateAsBackground (lines 284-290): allocate once, copy the   *)
(* whole buffer.                                                           *)
SaveCurrentStateAsBackground ==
  /\ background' = lfb
  /\ UNCHANGED <<lfb, color, camera>>

(* show (lines 247-274): flush (the frame reaches the screen, the buffer   *)
(* keeps its bytes), then refill the buffer: black without a background,   *)
(* the background itself at camera (0, 0), else its scrolled rows.          *)
Show ==
  /\ lfb' = IF background = NULL THEN [i \in Offsets |-> Black]
            ELSE IF camera = <<0, 0>> THEN background
            ELSE ScrolledRows(background, XOffset(camera[1]))
  /\ UNCHANGED <<background, color, camera>>

(* The game moves the camera of its current scene.                         *)
MoveCamera(x, y) ==
  /\ camera' = <<x, y>>
  /\ UNCHANGED <<lfb, background, color>>

Next ==
  \/ \E c \in Colors : SetColor(c)
  \/ \E from, to \in Xs \X Ys : DrawLine2D(from, to)
  \/ \E p, q, r \in Xs \X Ys : DrawPolygon2D(<<p, q, r>>)
  \/ \E x2 \in Xs, y2 \in Ys, w2, h2 \in Sizes : DrawRectangle2D(x2, y2, w2, h2)
  \/ \E x2 \in Xs, y2 \in Ys, w2, h2 \in Sizes : FillRectangle2D(x2, y2, w2, h2)
  \/ \E x2 \in Xs, y2 \in Ys, img \in Images, flip \in BOOLEAN :
       DrawImage2D(x2, y2, img, flip)
  \/ \E c \in Colors \cup {Black} : Clear(c)
  \/ SaveCurrentStateAsBackground
  \/ Show
  \/ \E x \in CameraXs, y \in CameraYs : MoveCamera(x, y)

Spec == Init /\ [][Next]_vars
-----------------------------------------------------------------------------
Bytes == {Black} \cup {c + k : c \in Colors, k \in 0 .. BytesPerPixel - 1}

TypeOK ==
  /\ lfb \in [Offsets -> Bytes]
  /\ background \in [Offsets -> Bytes] \cup {NULL}
  /\ color \in Colors
  /\ camera \in CameraXs \X CameraYs

(* show() scrolls the background by whole pixels: after it, every row of   *)
(* the buffer shows the background's row rotated by the same number of     *)
(* pixels, with no pixel split between two background pixels and no byte  *)
(* that is not a pixel's (lines 256-272).                                  *)
ShowRotatesWholePixels ==
  [][Show /\ background /= NULL =>
       \E s \in 0 .. ResX - 1 :
         \A x \in 0 .. ResX - 1, y \in 0 .. ResY - 1 :
           PixelAt(lfb', x, y) = PixelAt(background, (x + s) % ResX, y)]_vars

(* The scroll follows the camera: a camera at x shows the background       *)
(* moved by x * pitch / 4 bytes (rounded down to a pixel) to the left, for *)
(* negative positions as for positive ones, so moving the camera by one    *)
(* unit always moves the picture by the same amount (lines 258-260).       *)
ShowFollowsCamera ==
  [][Show /\ background /= NULL =>
       LET bytes == ((camera[1] * Pitch) \div 4) % Pitch
           s == (bytes - (bytes % BytesPerPixel)) \div BytesPerPixel
       IN  \A x \in 0 .. ResX - 1, y \in 0 .. ResY - 1 :
             PixelAt(lfb', x, y) = PixelAt(background, (x + s) % ResX, y)]_vars

=============================================================================

\* A 3-pixel row of 32-bit pixels has pitch 12, which does not divide 2^32:
\* with the camera at -1, show() converts -3 to uint32_t, and the remainder
\* by the pitch is no longer the scroll the camera asks for
\* (Graphics.cpp:259).
CONSTANTS
  ResX = 3
  ResY = 1
  Depth = 32
  Pitch = 12
  Colors = {100}
  CameraXs <- MCCameraXs
  CameraYs = {0}
  Xs <- MCXs
  Ys <- MCYs
  Sizes = {1}
  Images <- MCImages
  NULL = NULL
SPECIFICATION Spec
PROPERTY ShowFollowsCamera

\* The ring wraps and fills; pictures of one to six words, and of pixels.
CONSTANTS
  BufSize = 3
  MaxTyped = 7
  Words = 2
  Addrs = {"a1", "a2"}
  Paced = TRUE
  Sizes <- MCSizes
  Width = 4
  Height = 2
  Pictures = {"p", "q"}
  Dimensions <- MCDimensions
  FrameLimits = {0, 3}
  RamdacPictures = {"p", "q"}
SPECIFICATION MCSpec
INVARIANTS InputInOrder ScreenIsImage PictureIsWhole
PROPERTY InputIsRead
CHECK_DEADLOCK FALSE

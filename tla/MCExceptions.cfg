CONSTANTS
  NUM_ISR = 40
  ShortPush = 36
  Vectors = {2, 8, 14, 17, 32, 39}
  Callbacks = {"callback"}
  MaxNested = 2
SPECIFICATION Spec
INVARIANTS
  FrameTrue
  NoReentry
PROPERTIES
  Resumes

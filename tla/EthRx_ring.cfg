\* Three descriptors, so that the ring wraps with the handler in the middle;
\* good and bad frames; one frame in the handler's tail.  With a frame that has
\* an error at its head, the ring stops for good.
CHECK_DEADLOCK FALSE
CONSTANTS
  N = 3
  GoodFrame = {f1, f2}
  BadFrame = {bad}
  NoFrame = NoFrame
  NoDesc = NoDesc
  TailFrames = 1
SPECIFICATION FairSpec
INVARIANTS NoNullDescriptor CpuInterval NoLostResume
PROPERTIES ImplementsChannel InterruptDrains

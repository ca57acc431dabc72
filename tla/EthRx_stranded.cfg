CONSTANTS
  N = 2
  GoodFrame = {f1}
  BadFrame = {}
  NoFrame = NoFrame
  NoDesc = NoDesc
  TailFrames = 1
SPECIFICATION FairSpec
PROPERTIES EveryFrameHandled

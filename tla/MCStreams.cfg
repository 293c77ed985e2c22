CONSTANTS
  Packets <- SmallPackets
  Junk <- SomeJunk
  ZxBuffer = 11
  ZxItems = 2
  Imeis = {"A", "B"}
  MaxData = 2
  BsBuffer = 6
  MaxSegment = 3
  BsItems = 3
  Bodies <- SmallBodies
  N = 2
  MaxPiece = 3
SPECIFICATION FairSpec
INVARIANTS FramesSurviveSplits LengthIsOfBuffer EveryByteInOrder
PROPERTIES LoopsEnd

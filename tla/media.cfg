SPECIFICATION MediaSpec
CONSTANTS
  MaxPackets = 3
  BufferSize <- TwoSamples
  BlockAlign <- SampleBytes
  FrameSamples = 1
  MaxSamples = 4
  MaxPictures = 1
INVARIANTS MediaInOrder NothingIsFreedInUse
PROPERTY MediaCloses
CHECK_DEADLOCK FALSE

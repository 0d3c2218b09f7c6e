SPECIFICATION FairSpec
CONSTANTS
  src = src
  mid = mid
  out1 = out1
  out2 = out2
  Streams <- MCStreams
  Source = src
  Transforms = {mid}
  Sinks = {out1, out2}
  Programs <- LaterPrograms
  Chunks = 3
  MaxUpsets = 0
  None = None
PROPERTY FlowCompletes
CHECK_DEADLOCK FALSE

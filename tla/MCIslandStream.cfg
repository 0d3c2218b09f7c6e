SPECIFICATION FairSpec
CONSTANTS
  src = src
  mid = mid
  out1 = out1
  out2 = out2
  Streams <- MCStreams
  Source = src
  Transforms = {mid}
  Sinks = {out1, out2}
  Programs <- MCPrograms
  Chunks = 3
  MaxUpsets = 1
  None = None
INVARIANTS TypeOK Backpressure
PROPERTIES StreamsAreFifo FlowCompletes PipelineSettles
CHECK_DEADLOCK FALSE

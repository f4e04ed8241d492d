SPECIFICATION Spec
CONSTANTS
  RINGBUFFER_SIZE = 2
  BUFFER_SIZE = 2
  NalLens = {1, 2}
  MaxNals = 7
INVARIANT FileIsVideo

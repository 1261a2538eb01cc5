\* An add order and an execution in the same output slot.
CONSTANTS
  Packets <- MCPackets
  MAX_PACKET_SIZE = 120
  max_messages = 2
  Latencies = {1}
  MaxCalls = 2
  MaxFrames = 1
  FrameTypes = {"A", "E"}
  ShortTypes = {}
SPECIFICATION Spec
INVARIANT NoStaleField

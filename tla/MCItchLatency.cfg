\* Packets of several messages.
CONSTANTS
  Packets <- MCPackets
  MAX_PACKET_SIZE = 120
  max_messages = 2
  Latencies = {2, 3}
  MaxCalls = 2
  MaxFrames = 2
  FrameTypes = {"A"}
  ShortTypes = {}
SPECIFICATION Spec
INVARIANT AverageInRange

\* Packets of up to three frames and packets of every type, two in a row.
CONSTANTS
  Packets <- MCPackets
  MAX_PACKET_SIZE = 120
  max_messages = 2
  Latencies = {1}
  MaxCalls = 2
  MaxFrames = 3
  FrameTypes = {"A", "E", "H"}
  ShortTypes = {"X"}
SPECIFICATION Spec
INVARIANTS TypeOK ReadsStayInMessage OutputIsThePacket GeneratorUnderstood
PROPERTY EveryRoundAdvances
CHECK_DEADLOCK FALSE

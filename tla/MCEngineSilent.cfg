\* The network may fall silent.
CONSTANTS
  Registrations <- MCRegistrations
  Names = {}
  RingCapacity = 1
  SocketBuffer = 1
  QueueCapacity = 1
  MaxSubscribers = 2
  Holds = {1}
  max_messages_per_packet = 1
  MaxArrivals = 1
  Endless = FALSE
  CountTo = 5
  MaxStarts = 1
CHECK_DEADLOCK FALSE
SPECIFICATION AppSpec
PROPERTY ProgramExits

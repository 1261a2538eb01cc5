\* A subscriber queue that fills up.
CONSTANTS
  Registrations <- MCRegistrations
  Names = {"itch"}
  RingCapacity = 1
  SocketBuffer = 1
  QueueCapacity = 1
  MaxSubscribers = 1
  Holds = {2}
  max_messages_per_packet = 2
  MaxArrivals = 1
  Endless = FALSE
  CountTo = 5
  MaxStarts = 1
CHECK_DEADLOCK FALSE
SPECIFICATION Spec
INVARIANT NoDropUnreported

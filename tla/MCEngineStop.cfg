\* Traffic may go on for ever or stop at any time; the examples, and any application with two subscribers and a restart.
CONSTANTS
  Registrations <- MCRegistrations
  Names = {}
  RingCapacity = 1
  SocketBuffer = 1
  QueueCapacity = 1
  MaxSubscribers = 2
  Holds = {1}
  max_messages_per_packet = 1
  MaxArrivals = 0
  Endless = TRUE
  CountTo = 0
  MaxStarts = 2
SPECIFICATION AppSpec
PROPERTIES StopReachesReceiver StopReturns ProgramExitsInTraffic

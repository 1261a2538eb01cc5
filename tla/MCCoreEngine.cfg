\* Two subscribers, one slot per queue, packets with no or too many messages, a restart.
CONSTANTS
  Registrations <- MCRegistrations
  Names = {"null", "itch", "unknown"}
  RingCapacity = 1
  SocketBuffer = 1
  QueueCapacity = 1
  MaxSubscribers = 2
  Holds = {0, 3}
  max_messages_per_packet = 2
  MaxArrivals = 2
  Endless = FALSE
  CountTo = 20
  MaxStarts = 2
CHECK_DEADLOCK FALSE
SPECIFICATION Spec
INVARIANTS TypeOK ThreadLifecycle SubscribersReady DispatcherOutlivesParser ParserPresent InOrder CountersAgree PacketsAccounted ErrorsAccounted DropsAccounted
PROPERTIES ImplementsFeed ParserUnshared

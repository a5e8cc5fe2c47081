\* Two threads, two subscriptions and two events: an event is published
\* behind one that is being dispatched and one that waits.
CONSTANTS
  Threads = {t1, t2}
  Subscribers = {1, 2}
  MaxEvents = 2
SPECIFICATION BusSpec
INVARIANTS
  TypeOK
  InOrder
  NeverCalledWhenGone
PROPERTIES
  FlushDelivers
  EventsArrive
  CallsReturn
\* The bus stops when its destructor has returned.
CHECK_DEADLOCK FALSE

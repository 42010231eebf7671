\* Long polls of a queue that is deleted, reset and created again.
SPECIFICATION Spec
CONSTANTS
  Pollers = {p1}
  Callers = {c1}
  Msgs = {1, 2}
  Chans = {1, 2, 3, 4, 5, 6}
  Wait = 1
  LeaseTime = 0
  Delays = {0, 1}
  MaxInFlight = 1
  Cooldown = 1
  MaxQueues = 2
INVARIANTS NoMissedWake
PROPERTIES PollReturns Served

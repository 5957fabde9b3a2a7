SPECIFICATION ChannelFairSpec
CONSTANTS
  r1 = r1  r2 = r2  r3 = r3  r4 = r4  r5 = r5
  Requests = {r1, r2, r3, r4}
  NoRequest = NoRequest
  MaxTickets = 7
INVARIANTS NothingForgotten
PROPERTIES Implements EveryRequestSettles
CHECK_DEADLOCK FALSE

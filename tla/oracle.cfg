\* Three providers, one of which may be at odds with the others, while the
\* owner changes delay, expiration and minimum.
SPECIFICATION OracleSpec
CONSTANTS
  p1 = p1
  p2 = p2
  p3 = p3
  Addresses = {p1, p2, p3}
  Payloads = {1, 4}
  Start = 4
  MaxExpiration = 2
  Horizon = 6
  Expirations = {1, 2, 3}
  Delays = {0, 1}
  Minimums = {0, 2}
SYMMETRY Providers
INVARIANT MajorityBoundsTheMedian
PROPERTY PushIsDelayed

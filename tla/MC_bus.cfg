SPECIFICATION Spec
CONSTANTS
  u1 = u1
  u2 = u2
  s1 = s1
  s2 = s2
  Users = {u1, u2}
  Subscribers = {s1, s2}
  UserOf <- Streams
  MaxLen = 2
  MaxEvents = 5
INVARIANT TypeOK
PROPERTIES ImplementsFeed EveryEventArrives

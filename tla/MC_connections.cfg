SPECIFICATION Spec
CONSTANTS
  gmail = gmail
  telegram = telegram
  h1 = h1
  h2 = h2
  Kinds = {gmail, telegram}
  Handlers = {h1, h2}
  QuotaKinds = {gmail}
  MaxLogins = 2
  MaxRequests = 3
  MaxCrashes = 1
INVARIANT TypeOK
INVARIANT RowsAreTrue
INVARIANT UserDecidesUnlessRaced
PROPERTY RevocationIsNoticed
CHECK_DEADLOCK FALSE

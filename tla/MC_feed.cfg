SPECIFICATION FeedSpec
CONSTANTS
  m1 = m1
  m2 = m2
  gmail = gmail
  telegram = telegram
  r1 = r1
  r2 = r2
  nobody = nobody
  Messages = {m1, m2}
  Sources = {gmail, telegram}
  SourceOf <- TwoSources
  Filters = {"all", "high", "unread", "search"}
  Found = {}
  Requests = {r1, r2}
  Failures = TRUE
  Nobody = nobody
  MaxVersion = 3
  MaxWire = 2
  MaxTurns = 3
SYMMETRY Symmetric
INVARIANTS FeedTypeOK ListAgrees CountsAgree
CHECK_DEADLOCK FALSE

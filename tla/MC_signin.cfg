SPECIFICATION Spec
CONSTANTS
  t1 = t1
  t2 = t2
  h1 = h1
  h2 = h2
  nobody = nobody
  Tabs = {t1, t2}
  Handlers = {h1, h2}
  NoTab = nobody
  MaxTokens = 2
  MaxRequests = 5
SYMMETRY Symmetric
INVARIANTS TypeOK DialogAgrees
PROPERTY ImplementsOneTimeKeys

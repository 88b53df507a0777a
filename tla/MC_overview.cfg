SPECIFICATION OverviewSpec
CONSTANTS
  r1 = r1
  r2 = r2
  Requests = {r1, r2}
  Tables <- TheTables
  Periods = {"24h", "week"}
  Kinds = {"gmail", "telegram"}
  Offsets <- TheOffsets
  MaxTZOffset = 14
  TopLimit = 2
  Noon = 1000
  MaxHours = 1
SYMMETRY Symmetric
INVARIANTS OverviewTypeOK ScreenAgrees RowsAgree TextAgrees

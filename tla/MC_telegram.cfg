SPECIFICATION Spec
CONSTANTS
  Chats = {work, family, news}
  DialogsLimit = 2
  HistoryLimit = 1
  ImportLimit = 1
  ImportDays = 1
  Overlap = 1
  Timeout = 1
  Lags = {1}
  MaxPosts = 3
  MaxTime = 2
  MaxFaults = 1
INVARIANTS TypeOK
PROPERTIES ImplementsSource LostForReason PostsArrive

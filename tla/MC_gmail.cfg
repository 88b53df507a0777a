SPECIFICATION Spec
CONSTANTS
  Limit = 2
  PageSize = 2
  MaxLetters = 3
  MaxFaults = 1
INVARIANTS TypeOK
PROPERTIES ImplementsSource SkippedForReason LettersArrive

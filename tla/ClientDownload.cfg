CONSTANTS
  Begin = 3
  End = 10
  MaxGetEntriesSize = 3
  MaxRetries = 10
SPECIFICATION ComposedSpec
INVARIANTS InFlight
PROPERTIES ImplementsDownload ImplementsEntryStream NoGoroutineLeak DownloadEnds

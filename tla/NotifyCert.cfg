CONSTANTS
  l1 = l1
  l2 = l2
  c = c
  old = old
  bad = bad
  Log <- TwoLogs
  Entries <- SharedEntries
  Malformed = {bad}
  Watched = {c, old}
  Legacy = {old}
  Channels <- StdoutAndScript
  Stdout = "stdout"
  MaxInterruptions = 2
SPECIFICATION FairSpec
INVARIANTS NoMissedNotification FilesExistWhenNotified 
PROPERTY AllProcessed

SPECIFICATION LiveSpec
CONSTANTS
  Members = 2
  MaxActive = 1
  MaxUnread = 2
  None = None
  Ready = Ready
  MaxMails = 2
  MaxInputs = 1
  MaxTasks = 1
  MaxFaults = 1
INVARIANTS MailIsKept TwiceOnlyAfterFault NothingIsPinned NoMissedOffer
PROPERTIES MailArrives
CHECK_DEADLOCK FALSE

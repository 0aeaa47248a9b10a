SPECIFICATION Watchdog
CONSTANTS
  Threshold = 4
  Cooldown = 8
  Period = 2
  GreenMax = 2
  YellowMax = 4
  MaxFailures = 2
INVARIANTS
  TypesOK
  OutageIsMailed
  MailsAreSpaced

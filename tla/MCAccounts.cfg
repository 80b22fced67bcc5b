SPECIFICATION AccountsSpec
CONSTANTS
  c1 = c1
  c2 = c2
  google = google
  apple = apple
  home = home
  work = work
  Visitors <- MCVisitors
  MaxTokens = 3
  MaxMails = 1
  MaxPasswords = 1
  Callers <- MCCallers
  Subjects <- MCSubjects
  Emails <- MCEmails
  NoSubject = none
  Workers <- MCWorkers
  Quota = 1
  Unit = 10
  Weights <- MCWeights
  MaxCount = 2
  MaxItems = 2
  MaxImages = 3
  MaxPeriod = 2
  MaxEvents = 1
  r1 = r1
  r2 = r2
  r3 = r3
  Requests <- MCRequests
  Threshold = 2
  Cooldown = 1
  SlotLimit = 2
  Limit = 3
  Prior = 1
  Amounts = {1}
  Actuals = {1, 2}
  Escapes <- EscapePhases
INVARIANTS
  AccountsTypeOK
  SessionsFollowPassword
  OneLineage
  MailSpentOnce
  DeletedHoldsNothing
  BindingsAreSound
  SignInBinds
  ExcessUnderOneCredit
  GalleryMatches
  DeletionErases
  TypeOK
  SlotsAccounted
  ServedIffCharged
  OneReport
  OpensOnlyOnOutages
PROPERTIES
  NamedNoMore
SYMMETRY Symmetry
CHECK_DEADLOCK FALSE

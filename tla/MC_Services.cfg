SPECIFICATION ServicesSpec
CONSTANTS
  Requests = {q1, q2, q3}
  None = None
  h1 = h1
  h2 = h2
  p1 = p1
  p2 = p2
  SubHostels = {h1, h2}
  MaxSubs = 4
  FirstSubs <- MCFirstSubs
  IdemKeys = {k1, k2}
  MaxBookings = 2
  Residents = {c1}
  Places = {p1, p2}
  Fence <- MCFence
  MaxDay = 1
  ImportKeys = {k1}
  MaxImports = 2
  FileRows = 2
  BadRows = 1
  MaxActive = 1
  Checkpoint = 2
  JobAttempts = 2
  Runs = {w1, w2}
  Mails = {m1}
  Hosts = 2
  MailAttempts = 2
  MaxCopies = 2
  QrRows = {i1, i2}
  PlatformRows = {i2}
  Assets = {a1, a2, a3}
  External = External
  MealDays = {d1, d2}
  MaxMeals = 3
  MaxSlots = 2
SYMMETRY RequestSymmetry
CHECK_DEADLOCK FALSE
INVARIANTS
  ServicesTypeOK
  OneRunningPlan
  PlanGivesWayToAnother
  BookedOnce
  ImportsAccountedFor
  SentOnceOrAccounted
  RowsKeepTheirImages
  MenuFromOneSave
PROPERTY
  DaysSettle

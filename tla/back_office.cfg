SPECIFICATION Spec
CONSTANTS
  Manual = {m1}
  Suggestions = {s1}
  MaxReminders = 2
  Day = 3
  RetryDelay = 1
  ReviewDelay = 2
  DueDelays = {0}
  MaxFailures = 1
  MaxLosses = 1
  Views <- MCViews
  PreferenceChoices <- MCPreferences
  DigestTypes = {"DAILY", "WEEKLY"}
  Docs = {d1}
  Renders = {t1, t2}
  Deliveries = {x1, x2}
  MaxDocRetries = 1
  MaxDocLosses = 1
  DocFaults = {"render", "broker", "crash"}
  Links = {l1, l2, l3}
  Reviews = {v1}
  LinkTTL = 2
  ReviewTTL = 1
  Plans = {"small", "large"}
  CaseLimit <- SmallAndLarge
  JobLimit <- SmallAndLarge
  MemberLimit <- SmallAndLarge
  Overrides = {0}
  Requests = {q1, q2}
  Jobs = {j1, j2, j3}
  Users = {u1, u2, u3}
  MaxCost = 2
  Workers = 2
INVARIANTS BackOfficeTypeOK RepeatsOnlyAfterFailure ManualKeepsReminder DigestOnce DocumentCountedOnce OneSessionPerLink NewLinkEndsOlder CaseQuotaExact OverrunBounded MembersWithinLimit
PROPERTIES PostponedToAllowedHour ReminderIsDecided DocumentSettles
CHECK_DEADLOCK FALSE

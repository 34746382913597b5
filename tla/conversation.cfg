SPECIFICATION Spec
CONSTANTS
  c1 = c1
  c2 = c2
  Cases = {c1, c2}
  Questions = {1, 2, 3}
  Owner <- MCOwner
  MaxAttempts = 1
  Updates = {1, 2, 3}
  Messages <- MCMessages
  Senders = {s1}
  ChatRuns = {1, 2, 3}
  PortalRuns = {4}
  MaxRetries = 1
  MaxLosses = 1
  Faults = {"broker", "error", "crash"}
INVARIANTS ConvTypeOK HandledOnce NeverWaitsForNothing
PROPERTIES StoredForGood AnswersWhatWasAsked UpdateEnds
CHECK_DEADLOCK FALSE

CONSTANTS
  t1 = t1
  t2 = t2
  Nobody = Nobody
  Thread = {t1, t2}
  First = t1
  Second = t2
  Programs <- RacingPrograms
  Name = {"a", "b"}
  Calls <- AllCalls
  Contents <- AllContents
  MaxCalls = 2
  MaxEntries = 9
SPECIFICATION MCSpec
CHECK_DEADLOCK FALSE
INVARIANT ReferenceValid

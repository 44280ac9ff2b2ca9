SPECIFICATION FairSpec
CONSTANTS
  check1 = check1
  check2 = check2
  patch1 = patch1
  patch2 = patch2
  other = other
  commit = commit
  k1 = k1
  k2 = k2
  i1 = i1
  i2 = i2
  i3 = i3
  i4 = i4
  w1 = w1
  w2 = w2
  Calls = {check1, check2, patch1, patch2, commit}
  Keys = {k1, k2}
  KeyOf <- mcKey
  InputOf <- mcInput
  Locks = {w1}
  LockOf <- mcLock
  Threaded = {check1, check2}
  Layered = {check1, check2, patch1, patch2}
  Digested = {patch1, patch2}
  Writers = {patch1, patch2}
  Commits = {commit}
  NoCall = NoCall
  NoRow = NoRow
  MaxCancels = 1
  MaxCrashes = 1
  MaxErrors = 1
INVARIANTS RunsAtMostOnce OneWriterAtATime
PROPERTIES ImplementsIdempotency CallsEnd
CHECK_DEADLOCK FALSE

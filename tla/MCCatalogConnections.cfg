SPECIFICATION Spec
CONSTANTS
  checked = checked
  trusted = trusted
  slot1 = slot1
  slot2 = slot2
  old = old
  doc = doc
  hourly = hourly
  daily = daily
  Asks <- MCAsks
  Threads = {t1, t2}
  Urls = {checked, trusted}
  Trusted = {trusted}
  Contents <- MCContents
  Docs = {doc}
  Slots = {slot1, slot2}
  OldSlots = {old}
  Intervals = {hourly, daily}
  NoPush = NoPush
  Null = Null
  MaxInfo = 1
  MaxId = 2
SYMMETRY Symmetry
INVARIANTS
  AcceptedIsComplete
  ConnectionAsAsked
  NullIdOnlyAfterRace
  InfoListBounded

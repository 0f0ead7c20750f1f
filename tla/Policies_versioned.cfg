CONSTANTS
  Parts = {"reads"}
  Lockers = {t1, t2, t3}
  Policies = {"spin"}
  NoThread = NoThread
  Modulus = 4
  SPIN_THRESHOLD = 1
  ADAPT_WINDOW = 1
  Kinds = {"versioned"}
  Readers = {r1}
  Writers = {w1}
  SeqWriters = {}
  MaxWrites = 1
  MAX_RETRIES = 1
  Users = {u1, u2}
  Nodes = {1, 2, 3}
  Null = Null
  HP_PER_THREAD = 1
  RETIRED_THRESHOLD = 2
SPECIFICATION PartsSpec
CHECK_DEADLOCK FALSE
INVARIANT VersionedReadIsWhole

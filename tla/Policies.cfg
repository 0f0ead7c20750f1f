CONSTANTS
  Parts = {"locks", "reads", "hazard"}
  Lockers = {t1, t2, t3}
  Policies = {"spin", "ticket", "mcs", "adaptive"}
  NoThread = NoThread
  Modulus = 4
  SPIN_THRESHOLD = 1
  ADAPT_WINDOW = 1
  Kinds = {"seqlock", "versioned", "rcu"}
  Readers = {r1, r2}
  Writers = {w1, w2}
  SeqWriters = {w1}
  MaxWrites = 2
  MAX_RETRIES = 1
  Users = {u1, u2}
  Nodes = {1, 2, 3}
  Null = Null
  HP_PER_THREAD = 1
  RETIRED_THRESHOLD = 2
SPECIFICATION PartsSpec
CHECK_DEADLOCK FALSE
INVARIANTS PoliciesTypeOK LocksAreSafe ReadsAreSound HazardsAreSafe
PROPERTIES LocksProgress ReadersReturn

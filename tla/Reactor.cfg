SPECIFICATION ReactorSpec
CONSTANTS
  Threads = {t1, t2}
  Nobody = Nobody
  Fds = {f1}
  Filters = {"read", "write"}
  Interests <- BothFilters
  MaxSockets = 2
  MaxBatch = 1
  MaxWakers = 1
  GenMask = 3
SYMMETRY ThreadSymmetry
INVARIANTS NoLostWake RegistrationsReachTheirOwn OneWakePerRegistration SleepTimed
CHECK_DEADLOCK FALSE

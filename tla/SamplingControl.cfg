SPECIFICATION SamplingSpec
CONSTANTS
  Cpus = {c1, c2}
  MaxSamplingInterval = 1000
  CounterModulus = 3
  MaxErrors = 17
  MaxFailures = 1
INVARIANT ReportsAddUp
PROPERTY ErrorsNoticed
PROPERTY SamplingRecovers

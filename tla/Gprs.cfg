\* gsmd in every environment.
CONSTANTS
  NPorts = 2
  NoPort = NoPort
  AtTimes = 1
  MaxPppFail = 1
  FailMod = 3
  MaxDrift = 0
  Envs <- AllEnvs
SPECIFICATION FairSpec
\* The process ends, and both threads may wait for ever.
CHECK_DEADLOCK FALSE
INVARIANTS TypeOK ReadyMeansOpen  FailCountBounded
  NoAtCommandOnLink PppHasPort
PROPERTIES ImplementsOwner HangsOnlyOnPpp PppThreadStops

\* gsmd as it is built.
CONSTANTS
  NPorts = 2
  NoPort = NoPort
  AtTimes = 1
  MaxPppFail = 2
  FailMod = 4
  MaxDrift = 0
  Envs <- PlainEnv
SPECIFICATION Spec
\* The process ends, and both threads may wait for ever.
CHECK_DEADLOCK FALSE
PROPERTY GoodMeansConnected

SPECIFICATION Spec
CONSTANTS
  Processes = {p1}
  Builds <- CurrentBuild
  MaxCrashes = 1
INVARIANT OnlyRacersFail

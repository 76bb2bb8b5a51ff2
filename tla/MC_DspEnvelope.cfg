SPECIFICATION EnvSpec
CONSTANT Settings <- AllBranches
INVARIANTS EnvTypeOK ReleaseBounded
PROPERTIES NeverRises FallsToZero

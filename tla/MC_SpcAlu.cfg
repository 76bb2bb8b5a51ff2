SPECIFICATION Spec
CONSTANT Suites <- AllSuites
INVARIANTS SumsAreExact DecimalAdjusts DivDivides
           PswIsFaithful
CHECK_DEADLOCK FALSE

SPECIFICATION Spec
INVARIANTS TypeOK PassedLeavesNothing NoInterfaceReturns Inv

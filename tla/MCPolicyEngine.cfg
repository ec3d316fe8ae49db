CONSTANTS
    MaxPolicies = 3
    Evaluate <- MCEvaluate
    Invocations <- MCInvocations
SPECIFICATION Spec
CHECK_DEADLOCK FALSE
INVARIANTS
    TypeOK
    NoCommitPastAStopper
    FirstStopperDecides
    CommitsInAttachedOrder
PROPERTY
    ImplementsContract

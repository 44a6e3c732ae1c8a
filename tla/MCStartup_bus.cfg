SPECIFICATION Spec
INVARIANT NoStrayBus
CHECK_DEADLOCK FALSE

SPECIFICATION SSpec
CONSTANTS MaxActs = 3
INVARIANT UntouchedIsKept
CHECK_DEADLOCK FALSE

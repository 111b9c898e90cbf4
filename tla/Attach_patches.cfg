SPECIFICATION AttachSpec
INVARIANT PatchesApplied
CHECK_DEADLOCK FALSE

SPECIFICATION Spec
CONSTANT Vendor <- MCOne
INVARIANT CommitKept

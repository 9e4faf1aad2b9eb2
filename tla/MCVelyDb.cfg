SPECIFICATION Spec
CONSTANT Vendor <- MCKinds
INVARIANTS FlagMeansOpen StatementsTogether NoTransactionKept PreparedUsable

SPECIFICATION FairSpec
CONSTANTS
  Prover = {p1, p2}
  NBatch = 2
  MaxEvents = 2
INVARIANTS RowsDisjoint VerificationNeeded
PROPERTIES ProvedStaysProved AllVerified

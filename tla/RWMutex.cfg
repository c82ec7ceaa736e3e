CONSTANTS
  CPU = {c1, c2, c3}
SPECIFICATION FairSpec
INVARIANTS TypeOK Exclusion WordAgrees
PROPERTIES ImplementsRWLock SomebodyEnters

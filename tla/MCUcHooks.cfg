CONSTANTS
  Handles = {h1, h2, h3}
  Nil = Nil
  UC_MAX_NESTED_LEVEL = 2
  Insns = 2
  Counts = {0, 1}
SYMMETRY MCSymmetry
SPECIFICATION HooksSpec
INVARIANTS HooksInv CountsAgree CachedHooksLive CountRunsFirst
PROPERTIES DeletedNotCalled SweptAtTheEnd

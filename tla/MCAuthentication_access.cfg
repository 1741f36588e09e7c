CONSTANTS
  Requests = {r1, r2}
  Sessions = {s1}
  Tokens = {t1, t2}
  Names = {1, 2}
  Lifetimes = {4, 6}
  TokenTerms = {1}
  LoginLimit = 1
  Window = 1
  MaxTime = 5
  MaxStall = 1
SPECIFICATION Spec
SYMMETRY Symmetry
CONSTRAINT Scope
INVARIANT AuthInv
INVARIANT ActiveIsKept
 
CHECK_DEADLOCK FALSE

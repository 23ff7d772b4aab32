SPECIFICATION ISpec
CONSTANTS
  I = I
  A = A
  B = B
  C = C
  None = None
  NoHint = NoHint
  Other = Other
  Type <- MCType
  Concrete <- MCConcrete
  Subclass <- MCSubclass
  Declared <- MCDeclared
  Hint <- MCHint
  Lifecycles = {l1, l2}
  Callables <- MCCallables
  Configuring <- MCConfiguring
INVARIANTS ServedByOwn InvocationsFit IndexesAgree

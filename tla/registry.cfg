SPECIFICATION Spec
CONSTANTS
  I = I
  J = J
  A = A
  B = B
  C = C
  D = D
  None = None
  Type <- MCType
  Concrete <- MCConcrete
  Subclass <- MCSubclass
  Declared <- MCDeclared
  Hint <- MCHint
  Configurator <- MCConfigurator
INVARIANTS
  RegistriesConsistent
  RegistrationConfluent
  PrerequisitesKnown
  ForcedWins
  ConfiguredResolves

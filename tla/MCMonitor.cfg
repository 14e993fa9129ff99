CONSTANTS
  Catalog <- MCCatalog
  Usual <- MCUsual
  Changes <- MCChanges
  Raises <- MCRaises
  MaxFrames = 6
  MaxOdd = 2
  MaxRaised = 1
SPECIFICATION Spec
INVARIANTS
  TypeOK
  CommandsCarriedOut
PROPERTY ImplementsRegisterFile

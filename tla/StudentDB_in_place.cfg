SPECIFICATION SpecInPlace
CONSTANTS
  MaxId = 3
  MaxGpa = 1
  ArgIds <- MCArgIds
  ArgGpas <- MCArgGpas
INVARIANT AtHome
PROPERTY ImplementsRegistry

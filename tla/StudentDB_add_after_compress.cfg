SPECIFICATION Spec
CONSTANTS
  MaxId = 3
  MaxGpa = 1
  ArgIds <- MCArgIds
  ArgGpas <- MCArgGpas
PROPERTY AddKeepsOthers

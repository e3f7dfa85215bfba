\* The roll-out with users editing, deleting and adding materials.
CONSTANTS
  m1 = m1
  m2 = m2
  m3 = m3
  Materials <- MCMaterials
  Imported <- MCImported
  Cohort <- MCCohort
  MaxGen = 3
SPECIFICATION Spec
INVARIANTS
  TypeOK
  DoneIsSearchable
  OneActiveVersion
  ActiveMeansServed
PROPERTY NeverDark

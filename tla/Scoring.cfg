SPECIFICATION Spec
CONSTANTS
  Catalog <- MCCatalog
  Inputs <- MCInputs
  Targets = {}
  Addresses <- MCAddresses
  Below <- MCBelow
  Order <- MCOrder
  Taxonomy <- MCTaxonomy
  Loopback = {"localhost"}
  Published <- MCPublished
  Inventories <- MCInventories
  Vhosts <- MCVhosts
  SameLabel <- MCSameLabel
  Reports <- MCReports
  MaxEvents = 3
  MaxFindings = 2
  Beside <- MCBeside
INVARIANTS
  ScoreIgnoresOrder
  TriggerIsProven
  RequestsEarnCredit
  RightFindingsCount
  ConfirmedIsContradicted
CHECK_DEADLOCK FALSE

CONSTANTS
  Rules <- MCRules
  Traffic <- MCTraffic
  MaxRules = 3
  MaxMessages = 2
SPECIFICATION FairSpec
CHECK_DEADLOCK FALSE
INVARIANTS TypeOK RulesInOrder InboxesAsRouted
PROPERTY RouterStops

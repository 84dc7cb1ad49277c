SPECIFICATION FairSpec
CONSTANTS
  person = person
  car = car
  Label = {person, car}
  ModelLabel = {person, car}
  Selection <- MCSelections
  MaxLabels = 2
  MaxCount = 2
  MaxByte = 1
  MaxToken = 3
  MaxSettings = 1
INVARIANTS SlotOwned PeakExact
PROPERTIES ImplementsInterval ShownWasSent PublishGoesOn

SPECIFICATION Spec
CONSTANTS
    Value = {a, b}
    None = None
    MaxSlots = 3
    MaxGen = 2
INVARIANTS
    TypeOK
    SlotPartition
PROPERTIES
    RetiredStaysRetired
    HandleMapSpec

CONSTANT
    MaxDepth = 3
SPECIFICATION Spec
INVARIANTS
    TypeOK
    StagesInOrder
    HonestNotice
    ValidatedHasInputs
    TablesAgree
PROPERTIES
    ImplementsStateManager
    EveryCallReturns

CONSTANTS
    A = A
    B = B
    None = None
    Tag <- MCTag
    Inputs <- MCInputs
SPECIFICATION Spec
INVARIANTS
    ReferencesResolve
    TagsUnique
    UserRulesPrevail
PROPERTIES
    ImportEnds

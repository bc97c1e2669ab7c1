SPECIFICATION Spec
CONSTANTS
    Clients = {c1, c2}
    Registers <- MCNames
    Methods <- CanFdFi
    Args <- MCArgs
    WholeArgs <- MCWholeArgs
    RawArgs <- MCRawArgs
    Presented <- MCPresented
    Scenes <- MCScenes
    MaxCalls = 3
INVARIANTS SpillReported GetterQuiet
PROPERTY ImplementsStore
CHECK_DEADLOCK FALSE
SYMMETRY Permuted

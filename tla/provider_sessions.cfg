SPECIFICATION ProviderSpec
CONSTANTS
    MaxTurns = 3
    MaxEvents = 2
    Kinds = {"mode", "interrupt", "stop"}
    ImageTurns = {2}
INVARIANT TurnsRunInTheirMode
INVARIANT ReachableSessionIsShown
PROPERTY ContextKept
CHECK_DEADLOCK FALSE
PROPERTY EveryTurnAnswered

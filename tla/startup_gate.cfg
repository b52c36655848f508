SPECIFICATION Spec
CONSTANTS
    Callers = {c1, c2}
    NoCaller = NoCaller
    Subscribers = {s1}
    MaxCrashes = 1
INVARIANTS
    CommandsFollowWelcome
    WelcomeNamesExisting
    AnsweredAsRun
    LifecycleDelivered
PROPERTIES
    EveryCommandSettled
CHECK_DEADLOCK FALSE

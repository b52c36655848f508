SPECIFICATION Spec
CONSTANTS
    Projectors <- MCProjectors
    Required <- MCRequired
    FirstRelease <- MCFirstRelease
    ReadLimit = 2
    MaxEvents = 5
    MaxBatch = 2
INVARIANTS
    ProjectedOnceInOrder
    CaughtUpWhenUp

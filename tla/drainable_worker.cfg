SPECIFICATION Spec
CONSTANTS
    Items = {i1, i2, i3}
    Drainers = {d1, d2}
    NoItem = NoItem
INVARIANTS
    DrainSound
PROPERTIES
    DrainTerminates
CHECK_DEADLOCK FALSE

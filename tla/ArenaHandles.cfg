\* Three slots of three generations, everything reused until it is retired.
CONSTANTS
    p = p
    q = q
    Nothing = Nothing
    Payloads = {p, q}
    MaxGeneration = 2
    MaxSlots = 3
SPECIFICATION Spec
INVARIANTS SlotsAccountedFor
PROPERTIES HandlesNameOneEntity

SPECIFICATION Spec
CONSTANTS
    Events = {e1, e2}
    MaxRefusals = 1
    None = None
INVARIANTS
    InFlightUnseen

SPECIFICATION Spec
CONSTANTS
    img = img
    NoImage = NoImage
    Images <- OneImage
    MaxToggles = 1
    MaxClicks = 1
    MaxFlaps = 1
INVARIANTS
    OffStaysOff
CHECK_DEADLOCK FALSE

SPECIFICATION Spec
CONSTANTS
    img = img
    NoImage = NoImage
    Images <- OneImage
    MaxToggles = 1
    MaxClicks = 3
    MaxFlaps = 1
INVARIANTS
    CapturesWhatIsShown
    MutedStaysMuted
    
CHECK_DEADLOCK FALSE

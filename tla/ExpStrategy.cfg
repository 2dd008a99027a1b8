SPECIFICATION Spec
CONSTANTS
    Settings <- SearchSettings
    Inputs = {"spike", "noise", "silence"}
    Coef <- MCCoef
    Blksw <- MCBlksw
    Flags <- MCFlags
    Garbage = {0, 24}
    Offsets = {240, 500}
    Slack = {0, 1}
    MaxCodedFrameSize = 3840
INVARIANT
    StrategyIsBest

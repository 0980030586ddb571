SPECIFICATION SessionSpec
CONSTANTS
    NLayers = 2
    Windows = {1, 2, 3, 4, 5}
    SinkOption = 1
    SeqLens = {1}
    SlidingWindow = 0
    MaxPos = 5
    Prompts = {1, 3}
    NewTokens = {0, 2}
    Options <- MCOptions
INVARIANT ScaleLengthKept

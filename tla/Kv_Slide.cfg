SPECIFICATION Spec
CONSTANTS
    NLayers = 3
    Windows = {1, 2, 3}
    SinkOption = 2
    SeqLens = {1, 2}
    SlidingWindow = 2
    MaxPos = 7
INVARIANT WithinWindow
INVARIANT WindowIsSinkAndTail
INVARIANT AttendsItsWindow
PROPERTY ImplementsWindow

SPECIFICATION PushFairSpec
CONSTANTS
    Browsers = {b1, b2}
    Flushers = {f1, f2}
    Pause = 2
    MaxVersion = 1
PROPERTIES
    PushesAreSpaced
    EveryChangeIsShown

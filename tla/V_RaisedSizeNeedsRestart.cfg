CONSTANTS
    MaxSetting = 3
    Factors <- MCFactors
SPECIFICATION Spec
INVARIANT
    RaisedSizeNeedsRestart

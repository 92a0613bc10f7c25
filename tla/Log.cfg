\* The CLI changes the configuration between any two reads; names that fit, are cut, share a key.
SPECIFICATION Spec
CONSTANTS
    NameLengths = {5, 6, 9, 10, 20}
    LevelValues = {1, 7}
    DestValues = {1, 3}
    MaskValues = {0, 15}
    Levels = {3, 6}
    LocationLengths = {20, 490, 511, 512}
    MessageLengths = {30, 600}
INVARIANTS
    FollowsConfiguration
    LineIsWhole

CONSTANTS
    a = a
    b = b
    Plain = {a, b}
    NoWord = NoWord
    Lines <- MCLines
    MaxLines = 3
    Limits = {0, 1, 2}
    NumKeys = 3
    Weight <- MCWeight
    One = 8
    Configs <- MCConfigs
    Offsets = {0, 4}
SPECIFICATION WorkloadSpec
INVARIANTS ReadsWholeFile DocumentedFormatsRead GeneratedKeysExist BurstsAreWhole ScanShareIsTarget
CHECK_DEADLOCK FALSE

\* Two threads, a file of the application, two descriptors.
CONSTANTS
    t1 = t1  t2 = t2
    Thread = {t1, t2}
    MainThread = t1
    Kernels = {"getrandom", "device", "none"}
    Carefuls = {TRUE, FALSE}
    FDs = {3, 4}
    Pieces = 2
    MaxOps <- MCMaxOps
    MaxFiles = 1
SPECIFICATION Spec
INVARIANTS
    FilesAreLeftAlone
    EndsForACause
    DescriptorsAgree
    InitFirstIsEnough
CHECK_DEADLOCK FALSE

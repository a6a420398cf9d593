SPECIFICATION FairSpec
CONSTANTS
    N = 2
    NoArg = NoArg
    Args <- SomeArgs
PROPERTIES Terminates

SPECIFICATION Spec
CONSTANTS
    User = {u1, u2}
    File = {f1, f2, f3}
    Grantee = {u1, u2, NOT_OWNED}
    SECRET_SIZE = 2
    MaxRequest = 3
    MaxPosition = 4
    SeekTo = {}
    NUL = NUL
    NOT_OWNED = NOT_OWNED
PROPERTIES EndOfFile

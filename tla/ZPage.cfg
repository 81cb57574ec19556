SPECIFICATION ZPageSpec
CONSTANTS
    Users = {u1, u2}
    Tasks = {t1}
    Addresses = {1, 2, 3, 4}
    Gone = none
    PAGE_SIZE = 2
    MMAP_LEN = 4
    WORD = 2
    MAX_ERRNO = 2
    Mem <- MCMem
    ErrorWords <- MCErrorWords
    Tables <- MCTables
    Present <- MCPresent
    Data <- MCData
    Args <- MCArgs
INVARIANTS AnswerExact
SYMMETRY Symmetry

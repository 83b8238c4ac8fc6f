SPECIFICATION SSpec
CONSTANTS
    Characters = {0, 1, 2, 3, 9}
    Dot = 0
    Garbage <- Nines
    Commands <- CommandLines
    Disks <- ADisk
    BUFFER_SIZE = 2
    CHANGES = 1
    Clients = {c1, c2, c3}
    Lines = {"", "a"}
    RCVBUF = 2
    KILLS = 1
INVARIANTS
    MirrorsFolder
    ReversesFile
    AnswerIsEcho
PROPERTY
    EveryRequestAnswered

CONSTANTS
    c1 = c1  c2 = c2  s1 = s1
    Calls = {c1, c2}
    Background = {c1, c2}
    Sessions = {s1}
    SessionOf <- OneSession
    Tools = {read, write, spawn}
    Mutating = {write}
    Exclusive = {write}
    LockFree = {spawn}
    Breaching = {read}
    Undeduped = {}
    Window = 1
    MaxRound = 2
    MaxMessages = 2
    MaxVersion = 2
    Interrupts = 1
SPECIFICATION Spec
INVARIANTS NoRepeatedWork ChangesAreVersioned RecordsAreCurrent

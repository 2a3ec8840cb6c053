SPECIFICATION MCSpec
CONSTANTS
    Lines = 2
    Word <- MCWord
    MaxOps = 3
    MapOps = 3
    Cpus = {"cpu0", "cpu1", "cpu2"}
    Words = {"lock", "flag"}
    Platforms = {"roger", "energizer"}
    YieldingStores = {"energizer"}
    MaxStores = 3
    Senders = {a, b}
    Boot = a
    Boxes = {0, 1}
    MaxMessages = 2
INVARIANT MessagesArrive
PROPERTIES IsByteArray OneMemory NoLostUpdate
CHECK_DEADLOCK FALSE

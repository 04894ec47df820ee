SPECIFICATION EdgeSpec

CONSTANTS
    Pushers = {1, 2}
    Sizes = {1, 3}
    Limit = 2
    MaxPushes = 2
    Addresses = {1, 2, 3, 4}
    Keys = {1, 2, 3}
    AddressKey <- MCAddressKey
    Burst = 2
    Refill = 2
    SweepAt = 1
    MaxTracked = 2
    MaxNow = 7

INVARIANTS
    AuthTypeOK
    Accounted
    RateLimited
PROPERTIES
    OutboxImplements
    AuthImplements
    Released

CHECK_DEADLOCK FALSE

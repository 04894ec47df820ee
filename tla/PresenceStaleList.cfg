SPECIFICATION PlayingSpec

CONSTANTS
    ann = ann
    kim = kim
    f1 = f1
    f2 = f2
    Users = {ann, kim}
    Seeders = {}
    Commitment <- OneCommitted
    Playlist <- OneFile
    Selectable = {f1}
    NoUser = NoUser
    NoFile = NoFile
    DepartAfter = 1
    Grace = 2
    MaxConns = 2
    Returning = {ann}
    MaxBusy = 2
    MaxActs = 1

INVARIANTS
    LastListCurrent

CHECK_DEADLOCK FALSE

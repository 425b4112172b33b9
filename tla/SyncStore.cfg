CONSTANTS
    MaxMsg = 3
    Contacts = {c1, c2}
    MaxCrash = 2
    Unstorable = {2}
    Quoted = {c2}
SPECIFICATION StoreSpec
INVARIANTS StoreTypeOK NothingBeyondKey StoredOnce KeyTellsStore NothingMissed PostedIsStored

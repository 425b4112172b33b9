CONSTANTS
    MaxMsg = 3
    Contacts = {c1, c2}
    MaxCrash = 1
    Unstorable = {}
    Quoted = {}
SPECIFICATION StoreSpec
INVARIANTS FriendsLoaded

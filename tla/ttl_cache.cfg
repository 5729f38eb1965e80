SPECIFICATION FairSpec
CONSTANTS
    Keys = {"balancer", "listeners"}
    Data = {"old", "new"}
    Callers = {"worker", "nodeSync"}
    Ttl = 2
PROPERTIES IsLossyCache EntriesExpire

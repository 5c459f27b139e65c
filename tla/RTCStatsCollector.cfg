\* Two transceivers, one of which receives and is reported about, two transports.
CONSTANTS
    Transceivers = {1, 2}
    Transports = {"a", "b"}
    Channels = {"c"}
    Audio = {1}
    Negotiated <- const_Negotiated
    Receiving = {1}
    Reported = {1}
    Selected = {1}
    cache_lifetime_us_ = 0
    MaxRequests = 2
    MaxChanges = 1
    MaxTime = 1
SPECIFICATION FairSpec
CHECK_DEADLOCK FALSE
INVARIANTS RequestsAccounted ReferencesResolve AnswersAreFresh
PROPERTY RequestsAnswered

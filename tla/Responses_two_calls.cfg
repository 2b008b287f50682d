SPECIFICATION EventsSpec
CONSTANTS
    Upstreams <- TwoCalls
INVARIANT AnnouncedOnce
CHECK_DEADLOCK FALSE

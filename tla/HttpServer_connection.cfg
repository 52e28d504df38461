\* Two requests, cut into messages everywhere; the vector is small.
SPECIFICATION Spec
CONSTANTS
    BufferSize = 12
    ExtraSize = 40
    Methods = {"GET", "OPTIONS"}
    Queries <- NoneOrOne
    Headers = {"close", "Keep-Alive"}
    MaxRequests = 2
INVARIANTS TypeOK  ParsedIsAsked OneSuccessPerConnection AnnouncedIsDone
\* The peer sends its requests and nothing more.
CHECK_DEADLOCK FALSE

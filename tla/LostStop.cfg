\* A signal while the HTTP server is about to listen.
SPECIFICATION FairSpec
PROPERTIES SignalStopsGateway
CHECK_DEADLOCK FALSE

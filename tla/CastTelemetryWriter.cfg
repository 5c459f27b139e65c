\* Two threads that emit and flush; the writer thread first runs after the
\* constructor of the sink has returned.
CONSTANTS
    controller = controller
    encoder = encoder
    owner = owner
    writer = writer
    Clients <- MCClients
    Owner = owner
    Writer = writer
    MaxEvents = 3
    EarlyThread = FALSE
SPECIFICATION SinkSpec
PROPERTIES LogsInOrder NothingLeftBehind CallsReturn EventsAreHandled

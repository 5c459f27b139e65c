\* The writer thread may run before the constructor of the sink has returned.
CONSTANTS
    controller = controller
    encoder = encoder
    owner = owner
    writer = writer
    Clients <- MCClients
    Owner = owner
    Writer = writer
    MaxEvents = 2
    EarlyThread = TRUE
SPECIFICATION SinkSpec
PROPERTY EventsAreHandled

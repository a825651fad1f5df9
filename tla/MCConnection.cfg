SPECIFICATION FairSpec
CONSTANTS
    Server = Server
    Client = Client
    Bodyless = {Server}
    MaxSends <- Sends_Both
INVARIANTS OneWrite NoStalledQueue
PROPERTIES ImplementsToServer ImplementsToClient Delivered 
CHECK_DEADLOCK FALSE

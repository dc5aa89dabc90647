CONSTANTS
    c1 = c1
    c2 = c2
    c3 = c3
    Clients <- MCClients
    Senders <- MCSenders
    Slow <- MCSlow
    Nobody = Nobody
    MaxSends <- MCMaxSends
SPECIFICATION FairSpec
INVARIANTS
    TypeOK
    LiveClientsRegistered
PROPERTIES
    SteadyAudienceServed
    SenderOrderKept
    LostClientForgotten
CHECK_DEADLOCK FALSE

\* Two commands, of any scripts, on two gateways of one host and one that is
\* refused, whose catalogs fail or have up to two pages.
SPECIFICATION ConsoleSpec
CONSTANTS
    e1 = e1
    e2 = e2
    e3 = e3
    host = host
    given = given
    k = k
    Endpoints = {e1, e2, e3}
    Insecure = {e3}
    Names = {host, given}
    Keys = {k}
    HostOf <- AllOnHost
    Catalogs <- SomeAnswers
    Registry <- OfTwo
    Scripts <- TheScripts
    Bodies <- TheBodies
    Source <- TheSource
    Unset = Unset
    Models = {1, 2}
    MaxPages = 2
    MaxDepth = 1
    MaxSteps = 8
    MaxCommands = 2
INVARIANTS
    OneName
    TurnFollows
PROPERTIES
    AllOrNothing

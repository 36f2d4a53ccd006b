SPECIFICATION Spec
CONSTANTS
    c1 = c1  c2 = c2  c3 = c3  h1 = h1  h2 = h2
    Clients <- ThreeClients
    Hosts <- TwoHosts
    Host <- ThreeOnTwo
    None = None
    MaxAssociations = 2
    MaxAssociationsPerIP = 2
    MaxHandshakes = 2
    MaxHandshakesPerIP = 2
PROPERTIES ExpiredDropped
CHECK_DEADLOCK FALSE

SPECIFICATION Spec
SYMMETRY Symmetry
CONSTANTS
    ArpCacheLen = 3
    ArpTtl = 2
    Ips = {a, b}
    ServerIp = server
    BcastIp = bcast
    OutsideIp = outside
    NONE_IP = none
    Macs = {m1, m2}
    NoMac = nomac
    StartTime = 1
    MaxTime = 5
 
PROPERTY ImplementsNeighbourTable

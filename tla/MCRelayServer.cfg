SPECIFICATION Spec
CONSTANTS
    Addrs = {a1, a2, a3}
    Ips = {i1, i2}
    BcastIp = bc
    Timeout = 2
    AuthAddrs = {a1}
SYMMETRY Symmetry
INVARIANTS RouteToLatestSender 
PROPERTY AwaitsAreHarmless

\* The two strategy frames of the GUI share the proxy. Three service threads:
\* the managed one and two that were given up and are still ending.
SPECIFICATION Spec
CONSTANTS
    Bots = {b1, b2}
    Services = {s1, s2, s3}
    MaxCleanups = 3
    NoService = NoService
    Nobody = Nobody
    Cleaner = Cleaner
INVARIANTS TypeOK NoLeakedService UnusedIsCleaned
PROPERTIES KeepsShared ProxyEnds

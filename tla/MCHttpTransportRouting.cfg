SPECIFICATION Spec
CONSTANTS
    Clients = {c1, c2}
    Foreign = {}
    ForeignTypes = {}
    Anyone = Anyone
    None = None
    Sharing = {TRUE}
    MaxMessages = 2
    MaxTraffic = 3
INVARIANT RoutedAlways
CHECK_DEADLOCK FALSE

SPECIFICATION DNSSpec
CONSTANTS
    Clients = {c1, c2}
    HostNames = {"h"}
    Aliases = {"a"}
    IPv4 = {"v4"}
    IPv6 = {"v6"}
    Values <- SmallValues
    MaxFaults = 1
    None = None
SYMMETRY Symmetry
INVARIANT AcknowledgedSurvives
INVARIANT AcknowledgedServed

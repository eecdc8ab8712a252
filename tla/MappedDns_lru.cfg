\* Five names compete for three addresses; a message of two questions may
\* take the address its first question was given.
CONSTANTS
    Name = {a, b, c, d, e}
    Max = 3
    Hosts = 4
    Questions = 2
    None = None
    Other = Other
    Malformed = Malformed
SPECIFICATION DnsSpec
INVARIANTS
    Consistent
    LeastRecentlyUsed

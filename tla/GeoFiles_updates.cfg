\* A file of two chunks can be torn; two events are enough for a second
\* release and a crash in the middle of its installation.
CONSTANTS
    Worker = {daily}
    Button = button
    Profile = {p, q}
    Default = p
    None = None
    Chunks = 2
    MaxEvents = 2
SPECIFICATION Spec
CONSTRAINT Explored
INVARIANTS
    NotModifiedIsRight
    FilesUsable
    EngineFresh
PROPERTIES
    Converges
CHECK_DEADLOCK FALSE

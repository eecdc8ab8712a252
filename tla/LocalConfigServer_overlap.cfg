\* Two operations overlap: one row to replace and one to come, or two to
\* select; keys are used again.
CONSTANTS
    Job = {j1, j2}
    Profile = {p1, p2}
    Rule = {r1}
    Sub = {s1}
    None = None
SPECIFICATION ServerSpec
SYMMETRY Symmetry
INVARIANTS
    LastSelectionStands
    NoOrphans
    RefreshReplaces

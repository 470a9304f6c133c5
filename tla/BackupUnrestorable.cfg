SPECIFICATION Spec
CONSTANTS
    MaxDocs = 2
    Atts = {a1, a2}
    Names = {n1}
    Exports = {e1}
    Imports = {i1}
    None = None
SYMMETRY Symmetry
PROPERTY ExportsCanBeRestored
CHECK_DEADLOCK FALSE

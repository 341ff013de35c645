SPECIFICATION Spec
CONSTANTS
    Writers = {w1, w2}
    Modes = {"direct", "staged"}
    Faults = {"crash", "commit", "flush"}
    None = None
    MaxVersion = 2
SYMMETRY Symmetry
\* A document with MaxVersion versions is not written any more.
CHECK_DEADLOCK FALSE
PROPERTIES
    NoLostUpdate
    ReadersSeeHistory

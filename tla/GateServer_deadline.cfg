SPECIFICATION Spec
CONSTANTS
    Conns = {c1, c2}
    Deadline = 2
INVARIANT
    DeadlineMeasuresProcessing

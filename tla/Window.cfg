\* Two threads and two searches, two inputs and a pull; two texts, three draft ids, two
\* sends, one floating window.
SPECIFICATION Spec
CONSTANTS
    Threads = {t1, t2}
    Queries = {k1, k2}
    None = None
    MaxIds = 2
    MaxInputs = 2
    MaxPulls = 1
    Texts = {x1, x2}
    Blank = Blank
    MaxDrafts = 3
    MaxSends = 2
    MaxFloats = 1
    MaxPresses = 2
INVARIANTS TypeOK ReadingPane UndoneIsOver SettledIsSaved SecondCopyExplained
SYMMETRY Symmetry
CHECK_DEADLOCK FALSE

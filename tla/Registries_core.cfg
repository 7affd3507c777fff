CONSTANTS
    p1 = p1
    p2 = p2
    None = None
    Procs = {p1, p2}
    Names <- MCNames
    Foreign <- MCForeign
SPECIFICATION Spec
INVARIANTS TypeOK OneDefault
PROPERTIES AllOrNothing

\* No symmetry: a liveness property is checked.
SPECIFICATION FairSpec
CONSTANTS
    None = None
    Calls = {k1, k2, k3}
INVARIANT ListenersScoped
PROPERTIES LayoutsNeverCross EveryLayoutSettles
CHECK_DEADLOCK FALSE

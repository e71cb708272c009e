SPECIFICATION Spec
CONSTANTS
    a1 = a1
    a2 = a2
    Algs <- MCAlgs
    Deps <- MCDeps
    e1 = e1
    e2 = e2
    Succ <- MCSucc
    Zero = Zero
INVARIANT EdgesOfConsistent
PROPERTY SendCompletes

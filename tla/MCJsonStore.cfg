SPECIFICATION Spec
CONSTANTS
    Proc = {server, cli}
    Key = {k1, k2}
    Value = {v}
    Missing = Missing
INVARIANT
    TypeOK
PROPERTY
    ImplementsAtomicMap

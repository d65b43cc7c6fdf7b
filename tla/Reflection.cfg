\* Three served files and one of each kind that is not; the stream may break.
CONSTANTS
    f1 = f1
    f2 = f2
    f3 = f3
    f4 = f4
    s1 = s1
    s2 = s2
    s3 = s3
    e1 = e1
    e2 = e2
    FileNames = {f1, f2, f3, f4}
    Symbols = {s1, s2, s3}
    Extensions = {e1, e2}
    Types = {t1}
    Served = {f1, f2, f3}
    Declares <- MCDeclares
SPECIFICATION Spec
INVARIANT NothingHidden
PROPERTY ImplementsCatalog
\* The database may be destroyed.
CHECK_DEADLOCK FALSE

SPECIFICATION Spec
CONSTANTS
    i1 = i1
    t1 = t1
    t2 = t2
    t3 = t3
    NoImage = NoImage
    Images = {i1}
    Tasks = {t1, t2, t3}
    Work <- EachKind
INVARIANTS
    OneRow

SPECIFICATION Spec
CONSTANTS
    knu = knu  kpi = kpi  law = law  go = go
    a = a  b = b
    Calls = {a, b}
    MaxSent = 2
    Universities = {knu, kpi}
    Faculties = {law}
    UniversityOf <- MCUniversityOf
    NoFaculty = NoFaculty
    Names = {go}
SYMMETRY MCCalls
INVARIANTS TypeOK RowIsValid DeletedStaysBlank

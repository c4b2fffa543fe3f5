------------------------------- MODULE MCPages -------------------------------
(***************************************************************************)
(* Every page with a small server behind it.                               *)
(***************************************************************************)
EXTENDS Pages

(* All requests and only the pending ones of one direction, and the page of *)
(* a request of the other.                                                  *)
MCPlaces ==
    {[page |-> "list", of |-> {1}, status |-> ""],
     [page |-> "list", of |-> {1}, status |-> "PENDING"],
     [page |-> "request", of |-> {2}, status |-> ""]}

(* A match with a skill that both teach and both learn; it loses that skill *)
(* on one side, and then the other side.                                    *)
MCMatches ==
    {[teach |-> {"go", "ux"}, learn |-> {"ux"}, formats |-> {"ONLINE"}],
     [teach |-> {"go"}, learn |-> {"ux"}, formats |-> {"ONLINE"}],
     [teach |-> {"go"}, learn |-> {}, formats |-> {"ONLINE"}]}

MCCatalogue == [teaching |-> {1}, learning |-> {1, 2}]
MCLevels == [teaching |-> {"BEGINNER", "ADVANCED"}, learning |-> {"BEGINNER"}]

(* A new student, and one who comes back with skills chosen. *)
MCRows(levels) == UNION {[rows -> levels] : rows \in SUBSET {1}}
MCNewProfiles ==
    [city : BOOLEAN, formats : {{}},
     teaching : MCRows(MCLevels.teaching), learning : MCRows(MCLevels.learning)]
=============================================================================

------------------------------ MODULE Patches -------------------------------
(***************************************************************************)
(* The calls that change part of a row of one student, or one skill of the *)
(* catalogue, from several tabs at once: PATCH /me/profile, /me/privacy    *)
(* and /admin/skills, the student's list of skills, and the deletion of    *)
(* the account.                                                            *)
(*                                                                         *)
(* A patch is one transaction at READ COMMITTED: it reads the row without  *)
(* locking it, applies the fields it was sent, checks the result, writes   *)
(* every column and reads the row again.  The first read is one step here; *)
(* the row lock the write takes makes the rest another.  A patch that is   *)
(* refused at its first step changes nothing and is not modelled.  Nor is  *)
(* the log of the catalogue, which no call reads back.                     *)
(***************************************************************************)
EXTENDS Naturals, FiniteSets

CONSTANTS
    Calls,          \* bound: the calls in flight at a time
    MaxSent,        \* bound: the fields one patch sends
    Universities, Faculties,
    UniversityOf,   \* the university of a faculty
    NoFaculty,
    Names           \* what a skill of the catalogue is called

ASSUME FacultyAssumption ==
    /\ UniversityOf \in [Faculties -> Universities]
    /\ NoFaculty \notin Faculties

ASSUME BoundAssumption == MaxSent \in Nat

VARIABLES
    table,      \* the committed rows
    deleted,    \* users.deleted_at is set
    held,       \* the rows the deletion has written and not committed
    call        \* what each call has read and is about to write

vars == <<table, deleted, held, call>>

Profile == [university : Universities, faculty : Faculties \union {NoFaculty},
            city : BOOLEAN, offline : BOOLEAN]
Privacy == [isDiscoverable : BOOLEAN, acceptsRequests : BOOLEAN]
Skill == [name : Names, isActive : BOOLEAN]
Listed == {"never", "listed", "removed"}

(* An offline lesson needs a city, a faculty is one of the university's. *)
validProfile(p) ==
    /\ p.offline => p.city
    /\ p.faculty # NoFaculty => UniversityOf[p.faculty] = p.university

valid(row, r) == row = "profile" => validProfile(r)

(* A patch that sends nothing writes what one does that sends what is there. *)
Sent(fields) == {sent \in (SUBSET fields) \ {{}} : Cardinality(sent) <= MaxSent}

Idle == [row |-> "none"]

Init ==
    /\ \E p \in Profile, s \in Skill, l \in Listed :
        /\ validProfile(p)
        /\ table = [profile |-> p,
                    privacy |-> [isDiscoverable |-> TRUE, acceptsRequests |-> TRUE],
                    skill |-> s,
                    list |-> l]
    /\ deleted = FALSE /\ held = {}
    /\ call = [c \in Calls |-> Idle]

-----------------------------------------------------------------------------
(* The patches. *)

(* What is sent replaces what was read.  Another university takes the old    *)
(* faculty away.                                                             *)
applyPatch(current, sent, new) ==
    LET moved == "university" \in sent /\ new.university # current.university
    IN [f \in DOMAIN current |->
           IF f \in sent THEN new[f]
           ELSE IF f = "faculty" /\ moved THEN NoFaculty ELSE current[f]]

(* Mutant: neither the WHERE of the update nor the last read asks whether    *)
(* the account is deleted.                                                   *)
ExistsAnyway(row) == TRUE

(* The student's rows are read only while the account exists; the catalogue  *)
(* is the administrators'.                                                   *)
Exists(row) == row = "skill" \/ ~deleted

ReadRow(c, row, sent, new) ==
    LET update == applyPatch(table[row], sent, new)
    IN /\ call[c] = Idle
       /\ Exists(row)
       /\ valid(row, update)
       /\ call' = [call EXCEPT ![c] = [row |-> row, sent |-> sent, update |-> update]]
       /\ UNCHANGED <<table, deleted, held>>

(* Mutant: the UPDATE sets the columns that were sent. *)
WrittenIfSent(c) ==
    [f \in DOMAIN table[call[c].row] |->
        IF f \in call[c].sent THEN call[c].update[f] ELSE table[call[c].row][f]]

(* Mutant: the row is replaced by what was sent. *)
WrittenAlone(c) == [f \in call[c].sent |-> call[c].update[f]]

(* The columns the UPDATE sets: all of them. *)
Written(c) == call[c].update

(* A write waits for a row the deletion holds, and then finds no account, in *)
(* its WHERE or in the read that ends the transaction.                       *)
WriteRow(c, row) ==
    /\ call[c].row = row
    /\ row \notin held
    /\ table' = IF Exists(row) THEN [table EXCEPT ![row] = Written(c)] ELSE table
    /\ call' = [call EXCEPT ![c] = Idle]
    /\ UNCHANGED <<deleted, held>>

UpdateProfile(c) ==
    \/ \E sent \in Sent({"university", "faculty", "city", "offline"}), new \in Profile :
          ReadRow(c, "profile", sent, new)
    \/ WriteRow(c, "profile")

UpdatePrivacy(c) ==
    \/ \E sent \in Sent({"isDiscoverable", "acceptsRequests"}), new \in Privacy :
          ReadRow(c, "privacy", sent, new)
    \/ WriteRow(c, "privacy")

UpdateSkill(c) ==
    \/ \E sent \in Sent({"name", "isActive"}), new \in Skill :
          ReadRow(c, "skill", sent, new)
    \/ WriteRow(c, "skill")

-----------------------------------------------------------------------------
(* The list of skills. *)

ActiveSkillExists(c) ==
    /\ call[c] = Idle
    /\ Exists("list")
    /\ table.skill.isActive
    /\ call' = [call EXCEPT ![c] = [row |-> "list"]]
    /\ UNCHANGED <<table, deleted, held>>

(* The foreign key of a new row waits for the student's row.  A removed row  *)
(* is only updated, and waits if the deletion has removed it.                *)
AddUserSkill(c) ==
    /\ call[c].row = "list"
    /\ (IF table.list = "never" THEN "profile" ELSE "list") \notin held
    /\ table' = IF Exists("list") THEN [table EXCEPT !.list = "listed"] ELSE table
    /\ call' = [call EXCEPT ![c] = Idle]
    /\ UNCHANGED <<deleted, held>>

RemoveUserSkill ==
    /\ Exists("list") /\ "list" \notin held
    /\ table.list = "listed"
    /\ table' = [table EXCEPT !.list = "removed"]
    /\ UNCHANGED <<deleted, held, call>>

-----------------------------------------------------------------------------
(* The deletion of the account. *)

Anonymized(t) ==
    [profile |-> [university |-> t.profile.university, faculty |-> NoFaculty,
                  city |-> FALSE, offline |-> FALSE],
     privacy |-> [isDiscoverable |-> FALSE, acceptsRequests |-> FALSE],
     skill |-> t.skill,
     list |-> IF "list" \in held THEN "removed" ELSE t.list]

(* Its statements, which hold the rows they write.  The one on the lists     *)
(* takes what its snapshot shows listed, and passes a removed row by.        *)
AnonymizeUser ==
    /\ ~deleted /\ held = {}
    /\ held' = {"profile", "privacy"}
                \union (IF table.list = "listed" THEN {"list"} ELSE {})
    /\ UNCHANGED <<table, deleted, call>>

DeletionCommits ==
    /\ held # {}
    /\ table' = Anonymized(table)
    /\ deleted' = TRUE /\ held' = {}
    /\ UNCHANGED call

Next ==
    \/ \E c \in Calls :
        \/ UpdateProfile(c) \/ UpdatePrivacy(c) \/ UpdateSkill(c)
        \/ ActiveSkillExists(c) \/ AddUserSkill(c)
    \/ RemoveUserSkill
    \/ AnonymizeUser \/ DeletionCommits

Spec == Init /\ [][Next]_vars
=============================================================================

------------------------------ MODULE Profiles ------------------------------
(***************************************************************************)
(* internal/profile: the skill lists and privacy settings requests depend  *)
(* on.  These calls take no lock on the user's row and end with a read of  *)
(* the profile, which fails for a deleted account and so undoes the        *)
(* change.  Each is one step here; their reads and writes are apart, and   *)
(* overlap a deletion, in Patches.                                         *)
(***************************************************************************)
EXTENDS Tables

ChangeSkills(row, rows) ==
    /\ account[row[1]] # "DELETED"
    /\ skills' = rows
    /\ UNCHANGED <<account, blocked, privacy, request, exchange, signed, lesson, now>>

AddSkill(row) == row \notin skills /\ ChangeSkills(row, skills \cup {row})

RemoveSkill(row) == row \in skills /\ ChangeSkills(row, skills \ {row})

UpdatePrivacy(u, setting) ==
    /\ account[u] # "DELETED"
    /\ setting # privacy[u]
    /\ privacy' = [privacy EXCEPT ![u] = setting]
    /\ UNCHANGED <<account, blocked, skills, request, exchange, signed, lesson, now>>
=============================================================================

----------------------------- MODULE MCPatches ------------------------------
(***************************************************************************)
(* What the overlapping patches of one student promise.                    *)
(***************************************************************************)
EXTENDS Patches, TLC

CONSTANTS knu, kpi, law, go, a, b

MCUniversityOf == [f \in Faculties |-> knu]

TypeOK ==
    /\ table \in [profile : Profile, privacy : Privacy, skill : Skill, list : Listed]
    /\ deleted \in BOOLEAN
    /\ held \subseteq {"profile", "privacy", "list"}
    /\ \A c \in Calls : call[c].row \in {"none", "profile", "privacy", "skill", "list"}

(* validProfile checks what one call has merged, without a lock: whatever    *)
(* the calls of other tabs write in between, the row keeps a city for its    *)
(* offline lessons and a faculty of its own university.                      *)
RowIsValid == validProfile(table.profile)

(* AnonymizeUser clears the profile and hides the account: no patch that had *)
(* read the row before brings any of it back.                                *)
DeletedStaysBlank ==
    deleted => /\ table.profile.faculty = NoFaculty
               /\ ~table.profile.city /\ ~table.profile.offline
               /\ ~table.privacy.isDiscoverable /\ ~table.privacy.acceptsRequests

(* backend/README.md, "Account deletion": the skill lists are removed.       *)
DeletedHasNoSkills == deleted => table.list # "listed"

MCCalls == Permutations(Calls)
=============================================================================

--------------------------- MODULE PatchesProofs ----------------------------
(***************************************************************************)
(* What overlapping patches leave behind, for any number of calls in       *)
(* flight, universities, faculties and fields sent.                        *)
(*                                                                         *)
(* The invariant has to speak of what a call is about to write: that it    *)
(* was checked when it was merged, and is a whole row.                     *)
(***************************************************************************)
EXTENDS MCPatches, TLAPS

(* What a call that has read the row is about to write. *)
Merged(r) ==
    /\ r.row = "profile" => r.update \in Profile /\ validProfile(r.update)
    /\ r.row = "privacy" => r.update \in Privacy
    /\ r.row = "skill" => r.update \in Skill

IInv ==
    /\ TypeOK
    /\ call = [c \in Calls |-> call[c]]
    /\ \A c \in Calls : Merged(call[c])
    /\ RowIsValid
    /\ DeletedStaysBlank

-----------------------------------------------------------------------------
(* Merging what is sent into a row gives a row. *)

LEMMA ProfilePatched ==
    ASSUME NEW p \in Profile, NEW new \in Profile, NEW sent
    PROVE  applyPatch(p, sent, new) \in Profile
<1> DEFINE u == applyPatch(p, sent, new)
<1>1. /\ p = [university |-> p.university, faculty |-> p.faculty,
              city |-> p.city, offline |-> p.offline]
      /\ DOMAIN p = {"university", "faculty", "city", "offline"}
      /\ p.university \in Universities /\ p.faculty \in Faculties \union {NoFaculty}
      /\ p.city \in BOOLEAN /\ p.offline \in BOOLEAN
  BY DEF Profile
<1>2. /\ new.university \in Universities /\ new.faculty \in Faculties \union {NoFaculty}
      /\ new.city \in BOOLEAN /\ new.offline \in BOOLEAN
  BY DEF Profile
<1>3. u = [f \in {"university", "faculty", "city", "offline"} |-> u[f]]
  BY <1>1 DEF applyPatch
<1>4. /\ u["university"] \in Universities
      /\ u["faculty"] \in Faculties \union {NoFaculty}
  BY <1>1, <1>2 DEF applyPatch
<1>5. u["city"] \in BOOLEAN /\ u["offline"] \in BOOLEAN
  BY <1>1, <1>2 DEF applyPatch
<1> QED  BY <1>3, <1>4, <1>5 DEF Profile

LEMMA PrivacyPatched ==
    ASSUME NEW p \in Privacy, NEW new \in Privacy, NEW sent
    PROVE  applyPatch(p, sent, new) \in Privacy
<1> DEFINE u == applyPatch(p, sent, new)
<1>1. /\ DOMAIN p = {"isDiscoverable", "acceptsRequests"}
      /\ p.isDiscoverable \in BOOLEAN /\ p.acceptsRequests \in BOOLEAN
      /\ new.isDiscoverable \in BOOLEAN /\ new.acceptsRequests \in BOOLEAN
  BY DEF Privacy
<1>2. u = [f \in {"isDiscoverable", "acceptsRequests"} |-> u[f]]
  BY <1>1 DEF applyPatch
<1>3. u["isDiscoverable"] \in BOOLEAN /\ u["acceptsRequests"] \in BOOLEAN
  BY <1>1 DEF applyPatch
<1> QED  BY <1>2, <1>3 DEF Privacy

LEMMA SkillPatched ==
    ASSUME NEW p \in Skill, NEW new \in Skill, NEW sent
    PROVE  applyPatch(p, sent, new) \in Skill
<1> DEFINE u == applyPatch(p, sent, new)
<1>1. /\ DOMAIN p = {"name", "isActive"}
      /\ p.name \in Names /\ p.isActive \in BOOLEAN
      /\ new.name \in Names /\ new.isActive \in BOOLEAN
  BY DEF Skill
<1>2. u = [f \in {"name", "isActive"} |-> u[f]]
  BY <1>1 DEF applyPatch
<1>3. u["name"] \in Names /\ u["isActive"] \in BOOLEAN
  BY <1>1 DEF applyPatch
<1> QED  BY <1>2, <1>3 DEF Skill

-----------------------------------------------------------------------------
(* The steps.  A read changes one call, a write one row. *)

(* A call gets a new record and the rows stay. *)
LEMMA CallChanges ==
    ASSUME IInv, NEW c \in Calls, NEW r, Merged(r),
           r.row \in {"none", "profile", "privacy", "skill", "list"},
           call' = [call EXCEPT ![c] = r]
    PROVE  /\ call' = [d \in Calls |-> call'[d]]
           /\ \A d \in Calls : Merged(call'[d])
           /\ \A d \in Calls :
                 call'[d].row \in {"none", "profile", "privacy", "skill", "list"}
<1>1. call' = [d \in Calls |-> IF d = c THEN r ELSE call[d]]
  BY DEF IInv
<1>2. \A d \in Calls : call'[d] = r \/ call'[d] = call[d]
  BY <1>1
<1>3. \A d \in Calls :
        /\ Merged(call[d])
        /\ call[d].row \in {"none", "profile", "privacy", "skill", "list"}
  BY DEF IInv, TypeOK
<1> QED  BY <1>1, <1>2, <1>3

LEMMA ReadKeeps ==
    ASSUME IInv, NEW c \in Calls, NEW row \in {"profile", "privacy", "skill"},
           NEW sent, NEW new, ReadRow(c, row, sent, new),
           Merged([row |-> row, sent |-> sent,
                   update |-> applyPatch(table[row], sent, new)])
    PROVE  IInv'
<1> DEFINE r == [row |-> row, sent |-> sent, update |-> applyPatch(table[row], sent, new)]
<1>1. /\ call' = [call EXCEPT ![c] = r]
      /\ UNCHANGED <<table, deleted, held>>
  BY DEF ReadRow
<1>2. r.row \in {"none", "profile", "privacy", "skill", "list"} /\ Merged(r)
  OBVIOUS
<1> HIDE DEF r
<1>3. /\ call' = [d \in Calls |-> call'[d]]
      /\ \A d \in Calls : Merged(call'[d])
      /\ \A d \in Calls :
            call'[d].row \in {"none", "profile", "privacy", "skill", "list"}
  BY <1>1, <1>2, CallChanges
<1> QED  BY <1>1, <1>3 DEF IInv, TypeOK, RowIsValid, DeletedStaysBlank

LEMMA IdleMerged == Merged(Idle) /\ Idle.row = "none"
  BY DEF Merged, Idle

(* A write puts in a row that was checked, and never into a deleted account. *)
LEMMA WriteKeeps ==
    ASSUME IInv, NEW c \in Calls, NEW row \in {"profile", "privacy", "skill"},
           WriteRow(c, row)
    PROVE  IInv'
<1>1. /\ call' = [call EXCEPT ![c] = Idle]
      /\ UNCHANGED <<deleted, held>>
      /\ call[c].row = row /\ Merged(call[c])
  BY DEF WriteRow, IInv
<1>2. /\ call' = [d \in Calls |-> call'[d]]
      /\ \A d \in Calls : Merged(call'[d])
      /\ \A d \in Calls :
            call'[d].row \in {"none", "profile", "privacy", "skill", "list"}
  BY <1>1, IdleMerged, CallChanges
<1>3. CASE table' = table
  BY <1>1, <1>2, <1>3 DEF IInv, TypeOK, RowIsValid, DeletedStaysBlank
<1>4. CASE Exists(row) /\ table' = [table EXCEPT ![row] = call[c].update]
  <2>1. CASE row = "skill"
    BY <1>1, <1>2, <1>4, <2>1 DEF IInv, TypeOK, RowIsValid, DeletedStaysBlank, Merged
  <2>2. CASE row = "privacy"
    BY <1>1, <1>2, <1>4, <2>2 DEF IInv, TypeOK, RowIsValid, DeletedStaysBlank, Merged, Exists
  <2>3. CASE row = "profile"
    BY <1>1, <1>2, <1>4, <2>3 DEF IInv, TypeOK, RowIsValid, DeletedStaysBlank, Merged, Exists
  <2> QED  BY <2>1, <2>2, <2>3
<1> QED  BY <1>3, <1>4 DEF WriteRow, Written

LEMMA ListKeeps ==
    ASSUME IInv,
           \/ \E c \in Calls : ActiveSkillExists(c) \/ AddUserSkill(c)
           \/ RemoveUserSkill
    PROVE  IInv'
<1>1. ASSUME NEW c \in Calls, ActiveSkillExists(c)  PROVE IInv'
  <2>1. Merged([row |-> "list"]) /\ [row |-> "list"].row = "list"
    BY DEF Merged
  <2>2. /\ call' = [d \in Calls |-> call'[d]]
        /\ \A d \in Calls : Merged(call'[d])
        /\ \A d \in Calls :
              call'[d].row \in {"none", "profile", "privacy", "skill", "list"}
    BY <1>1, <2>1, CallChanges DEF ActiveSkillExists
  <2> QED  BY <1>1, <2>2 DEF ActiveSkillExists, IInv, TypeOK, RowIsValid, DeletedStaysBlank
<1>2. ASSUME NEW c \in Calls, AddUserSkill(c)  PROVE IInv'
  <2>1. /\ call' = [d \in Calls |-> call'[d]]
        /\ \A d \in Calls : Merged(call'[d])
        /\ \A d \in Calls :
              call'[d].row \in {"none", "profile", "privacy", "skill", "list"}
    BY <1>2, IdleMerged, CallChanges DEF AddUserSkill
  <2> QED  BY <1>2, <2>1
           DEF AddUserSkill, IInv, TypeOK, RowIsValid, DeletedStaysBlank, Listed
<1>3. CASE RemoveUserSkill
  BY <1>3 DEF RemoveUserSkill, IInv, TypeOK, RowIsValid, DeletedStaysBlank, Listed
<1> QED  BY <1>1, <1>2, <1>3

LEMMA DeletionKeeps ==
    ASSUME IInv, AnonymizeUser \/ DeletionCommits
    PROVE  IInv'
<1>1. CASE AnonymizeUser
  BY <1>1 DEF AnonymizeUser, IInv, TypeOK, RowIsValid, DeletedStaysBlank
<1>2. CASE DeletionCommits
  <2>1. table' \in [profile : Profile, privacy : Privacy, skill : Skill, list : Listed]
    BY <1>2 DEF DeletionCommits, Anonymized, IInv, TypeOK, Profile, Privacy, Listed
  <2>2. DeletedStaysBlank' /\ RowIsValid'
    BY <1>2 DEF DeletionCommits, Anonymized, IInv, TypeOK, Profile, Privacy,
                DeletedStaysBlank, RowIsValid, validProfile
  <2> QED  BY <1>2, <2>1, <2>2 DEF DeletionCommits, IInv, TypeOK
<1> QED  BY <1>1, <1>2

LEMMA StepKeeps ==
    ASSUME IInv, [Next]_vars
    PROVE  IInv'
<1>0. table.profile \in Profile /\ table.privacy \in Privacy /\ table.skill \in Skill
  BY DEF IInv, TypeOK
<1>1. ASSUME NEW c \in Calls, UpdateProfile(c)  PROVE IInv'
  <2>1. CASE WriteRow(c, "profile")
    BY <2>1, WriteKeeps
  <2>2. ASSUME NEW sent, NEW new \in Profile, ReadRow(c, "profile", sent, new)
        PROVE  IInv'
    <3>1. /\ applyPatch(table.profile, sent, new) \in Profile
          /\ validProfile(applyPatch(table.profile, sent, new))
      BY <1>0, <2>2, ProfilePatched DEF ReadRow, valid
    <3>2. Merged([row |-> "profile", sent |-> sent,
                  update |-> applyPatch(table["profile"], sent, new)])
      BY <3>1 DEF Merged
    <3> QED  BY <2>2, <3>2, ReadKeeps
  <2> QED  BY <1>1, <2>1, <2>2 DEF UpdateProfile
<1>2. ASSUME NEW c \in Calls, UpdatePrivacy(c)  PROVE IInv'
  <2>1. CASE WriteRow(c, "privacy")
    BY <2>1, WriteKeeps
  <2>2. ASSUME NEW sent, NEW new \in Privacy, ReadRow(c, "privacy", sent, new)
        PROVE  IInv'
    <3>1. Merged([row |-> "privacy", sent |-> sent,
                  update |-> applyPatch(table["privacy"], sent, new)])
      BY <1>0, PrivacyPatched DEF Merged
    <3> QED  BY <2>2, <3>1, ReadKeeps
  <2> QED  BY <1>2, <2>1, <2>2 DEF UpdatePrivacy
<1>3. ASSUME NEW c \in Calls, UpdateSkill(c)  PROVE IInv'
  <2>1. CASE WriteRow(c, "skill")
    BY <2>1, WriteKeeps
  <2>2. ASSUME NEW sent, NEW new \in Skill, ReadRow(c, "skill", sent, new)
        PROVE  IInv'
    <3>1. Merged([row |-> "skill", sent |-> sent,
                  update |-> applyPatch(table["skill"], sent, new)])
      BY <1>0, SkillPatched DEF Merged
    <3> QED  BY <2>2, <3>1, ReadKeeps
  <2> QED  BY <1>3, <2>1, <2>2 DEF UpdateSkill
<1>4. CASE UNCHANGED vars
  BY <1>4 DEF vars, IInv, TypeOK, RowIsValid, DeletedStaysBlank
<1> QED  BY <1>1, <1>2, <1>3, <1>4, ListKeeps, DeletionKeeps DEF Next

LEMMA InitHolds == Init => IInv
<1> SUFFICES ASSUME Init PROVE IInv
  OBVIOUS
<1>1. \A c \in Calls : call[c] = Idle /\ Merged(call[c]) /\ call[c].row = "none"
  BY IdleMerged DEF Init
<1>2. table \in [profile : Profile, privacy : Privacy, skill : Skill, list : Listed]
  BY DEF Init, Privacy
<1>3. validProfile(table.profile)
  BY DEF Init
<1> QED  BY <1>1, <1>2, <1>3 DEF Init, IInv, TypeOK, RowIsValid, DeletedStaysBlank

(* Every merged, written or deleted row is a whole row of its table, and a   *)
(* deletion only holds rows of its own student.                              *)
THEOREM TypeOKHolds == Spec => []TypeOK
<1>1. IInv => TypeOK
  BY DEF IInv
<1> QED  BY InitHolds, StepKeeps, <1>1, PTL DEF Spec

(* UpdateProfile checks what it has merged and writes all of it, so calls    *)
(* that overlap never leave offline lessons without a city nor a faculty of  *)
(* another university.                                                       *)
THEOREM RowIsValidHolds == Spec => []RowIsValid
<1>1. IInv => RowIsValid
  BY DEF IInv
<1> QED  BY InitHolds, StepKeeps, <1>1, PTL DEF Spec

(* DeleteAccount: nothing a call had read before comes back afterwards,      *)
(* because each write looks at deleted_at again.                             *)
THEOREM DeletedStaysBlankHolds == Spec => []DeletedStaysBlank
<1>1. IInv => DeletedStaysBlank
  BY DEF IInv
<1> QED  BY InitHolds, StepKeeps, <1>1, PTL DEF Spec
=============================================================================

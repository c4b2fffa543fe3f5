----------------------------- MODULE ProfilePage -----------------------------
(***************************************************************************)
(* The student's own profile: an editor that saves a whole draft, and      *)
(* lists of skills each of whose changes is saved at once.  Every answer   *)
(* carries the whole profile and replaces the one the page shows.  The two *)
(* parts of the page each have their own lock, so both may have a request  *)
(* in flight; after a failed change of a skill the page reads the profile  *)
(* again, because the change may have been made.                           *)
(***************************************************************************)
EXTENDS FiniteSets

CONSTANTS
    Abouts,    \* bound: the values of the editor's fields
    Invalid,   \* those of them the form refuses
    Entries,   \* bound: a skill of the catalogue in one of the two lists
    Levels     \* bound: the levels of a skill

VARIABLES
    stored,     \* server: the profile
    shown,      \* the profile the page shows
    draft,      \* the editor's fields
    saving,     \* the editor's request
    mutating,   \* the request of the lists of skills
    late,       \* bound: at most one write the page gave up on and the server may still make
    adding,     \* the catalogue is open
    certain     \* the answer taken last had the profile to itself

profileVars ==
    <<stored, shown, draft, saving, mutating, late, adding, certain>>

Absent == "ABSENT"
Profiles == [about : Abouts \ Invalid, skills : [Entries -> Levels \union {Absent}]]
None == [phase |-> "none"]

(* A save of the editor, and a change of one skill. *)
Saves == [op : {"PATCH profile"}, about : Abouts \ Invalid]
Changes == [op : {"POST", "PATCH", "DELETE"}, entry : Entries, level : Levels]

(* A request: whether nothing else has touched the profile since it left,  *)
(* and, once the server answered, the profile of the answer.               *)
Requests(W) ==
    {None} \union [phase : {"asked", "refused", "failed"}, write : W, alone : BOOLEAN]
    \union [phase : {"answered", "read"}, write : W, alone : BOOLEAN, profile : Profiles]

ProfileTypeOK ==
    /\ {stored, shown} \subseteq Profiles
    /\ draft \in Abouts
    /\ saving \in Requests(Saves)
    /\ mutating \in Requests(Changes)
    /\ late \subseteq Saves \union Changes
    /\ {adding, certain} \subseteq BOOLEAN

ProfileInit ==
    /\ stored \in Profiles
    /\ shown = stored
    /\ draft = stored.about
    /\ saving = None /\ mutating = None
    /\ late = {}
    /\ adding = FALSE
    /\ certain = TRUE

Idle == saving = None /\ mutating = None /\ late = {}
NotAlone(r) == IF r = None THEN r ELSE [r EXCEPT !.alone = FALSE]

-----------------------------------------------------------------------------
(* The server.                                                             *)

(* A skill is added to a list that has not got it, changed or removed in one that has. *)
changeAllowed(w) ==
    w.op = "PATCH profile" \/ (w.op = "POST" <=> stored.skills[w.entry] = Absent)

Written(w) ==
    CASE w.op = "PATCH profile" -> [stored EXCEPT !.about = w.about]
      [] w.op = "DELETE" -> [stored EXCEPT !.skills[w.entry] = Absent]
      [] OTHER -> [stored EXCEPT !.skills[w.entry] = w.level]

Answer(r) ==
    IF changeAllowed(r.write)
    THEN [phase |-> "answered", write |-> r.write, alone |-> r.alone, profile |-> Written(r.write)]
    ELSE [r EXCEPT !.phase = "refused"]

ServeSave ==
    /\ saving.phase = "asked"
    /\ saving' = Answer(saving)
    /\ stored' = Written(saving.write)
    /\ UNCHANGED <<shown, draft, mutating, late, adding, certain>>

ServeSkill ==
    /\ mutating.phase = "asked"
    /\ mutating' = Answer(mutating)
    /\ stored' = IF changeAllowed(mutating.write) THEN Written(mutating.write) ELSE stored
    /\ UNCHANGED <<shown, draft, saving, late, adding, certain>>

ServeLate == \E w \in late :
    /\ late' = late \ {w}
    /\ stored' = IF changeAllowed(w) THEN Written(w) ELSE stored
    /\ saving' = NotAlone(saving) /\ mutating' = NotAlone(mutating)
    /\ certain' = FALSE
    /\ UNCHANGED <<shown, draft, adding>>

(* The profile is changed in another tab. *)
OtherTab == \E p \in Profiles :
    /\ late = {} /\ p.about = stored.about   \* bound: skills only
    /\ Cardinality({e \in Entries : p.skills[e] # stored.skills[e]}) = 1
    /\ stored' = p
    /\ saving' = NotAlone(saving) /\ mutating' = NotAlone(mutating)
    /\ certain' = FALSE
    /\ UNCHANGED <<shown, draft, late, adding>>

-----------------------------------------------------------------------------
(* The editor.                                                             *)

dirty == draft # shown.about
MayEdit == saving = None

change == \E about \in Abouts \ {draft} :
    /\ MayEdit
    /\ draft' = about
    /\ UNCHANGED <<stored, shown, saving, mutating, late, adding, certain>>

discard ==
    /\ saving = None /\ dirty
    /\ draft' = shown.about
    /\ UNCHANGED <<stored, shown, saving, mutating, late, adding, certain>>

submit ==
    /\ MayEdit /\ dirty /\ draft \notin Invalid
    /\ saving' = [phase |-> "asked", write |-> [op |-> "PATCH profile", about |-> draft],
                  alone |-> mutating = None /\ late = {}]
    /\ mutating' = NotAlone(mutating)
    /\ UNCHANGED <<stored, shown, draft, late, adding, certain>>

Saved ==
    /\ saving.phase = "answered"
    /\ shown' = saving.profile
    /\ draft' = saving.profile.about
    /\ certain' = saving.alone
    /\ saving' = None
    /\ UNCHANGED <<stored, mutating, late, adding>>

(* The answer does not come: the save was not made, was made, or will be. *)
SaveFails ==
    /\ saving.phase \in {"asked", "answered"}
    /\ late' \in IF saving.phase = "asked" /\ late = {} THEN {{}, {saving.write}} ELSE {late}
    /\ certain' = FALSE
    /\ saving' = None
    /\ mutating' = NotAlone(mutating)
    /\ UNCHANGED <<stored, shown, draft, adding>>

-----------------------------------------------------------------------------
(* The lists of skills.                                                    *)

MayChange == mutating = None

showCatalog ==
    /\ \/ ~adding /\ MayChange
       \/ adding
    /\ adding' = ~adding
    /\ UNCHANGED <<stored, shown, draft, saving, mutating, late, certain>>

(* The controls the page shows: a skill in its list, or one of the catalogue. *)
Offered(w) ==
    IF w.op = "POST" THEN adding /\ shown.skills[w.entry] = Absent
    ELSE shown.skills[w.entry] \notin {Absent, IF w.op = "PATCH" THEN w.level ELSE Absent}

mutate == \E w \in Changes :
    /\ MayChange /\ Offered(w)
    /\ mutating' = [phase |-> "asked", write |-> w, alone |-> saving = None /\ late = {}]
    /\ saving' = NotAlone(saving)
    /\ UNCHANGED <<stored, shown, draft, late, adding, certain>>

Mutated ==
    /\ mutating.phase = "answered"
    /\ shown' = mutating.profile
    /\ adding' = (adding /\ mutating.write.op # "POST")
    /\ certain' = mutating.alone
    /\ mutating' = None
    /\ UNCHANGED <<stored, draft, saving, late>>

(* A refused or lost change: the page asks for the profile. *)
MutateFails ==
    /\ mutating.phase \in {"asked", "answered", "refused"}
    /\ late' \in IF mutating.phase = "asked" /\ late = {} THEN {{}, {mutating.write}} ELSE {late}
    /\ certain' = FALSE
    /\ mutating' = [phase |-> "failed", write |-> mutating.write,
                    alone |-> mutating.alone /\ late' = {}]
    /\ saving' = NotAlone(saving)
    /\ UNCHANGED <<stored, shown, draft, adding>>

ServeReread ==
    /\ mutating.phase = "failed"
    /\ mutating' = [phase |-> "read", write |-> mutating.write, alone |-> mutating.alone,
                    profile |-> stored]
    /\ UNCHANGED <<stored, shown, draft, saving, late, adding, certain>>

(* Mutant: the profile read after a failure is not shown. *)
ReconciledUnseen ==
    /\ mutating.phase = "read"
    /\ certain' = mutating.alone
    /\ mutating' = None
    /\ UNCHANGED <<stored, shown, draft, saving, late, adding>>

Reconciled ==
    /\ mutating.phase = "read"
    /\ shown' = mutating.profile
    /\ certain' = mutating.alone
    /\ mutating' = None
    /\ UNCHANGED <<stored, draft, saving, late, adding>>

RereadFails ==
    /\ mutating.phase \in {"failed", "read"}
    /\ mutating' = None
    /\ UNCHANGED <<stored, shown, draft, saving, late, adding, certain>>

-----------------------------------------------------------------------------
ProfileNext ==
    \/ ServeSave \/ ServeSkill \/ ServeLate \/ OtherTab
    \/ change \/ discard \/ submit \/ Saved \/ SaveFails
    \/ showCatalog \/ mutate \/ Mutated \/ MutateFails
    \/ ServeReread \/ Reconciled \/ RereadFails

(* Once an answer that the page took had the profile to itself (no other    *)
(* request of the page, no lost write still to be made and no change from   *)
(* another tab since it was asked for), the page shows the profile that the *)
(* server has, until the next of these.  After a change of a skill that     *)
(* failed, that answer is the reread.  Nothing is promised when the reread  *)
(* fails too (ProfileSkills.tsx:49), nor after a save of the editor whose   *)
(* answer was lost, which rereads nothing (ProfileEditor.tsx:111): the page *)
(* goes on from the profile it showed before.                               *)
ProfileIsCurrent == Idle /\ certain => shown = stored
=============================================================================

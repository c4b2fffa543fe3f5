--------------------------- MODULE OnboardingPage ---------------------------
(***************************************************************************)
(* The four steps that fill in a new profile.  A step of skills is saved   *)
(* with one request per skill that differs from the server's list, and any *)
(* of them may fail before or after the server handled it; the step is     *)
(* then sent again from the beginning.  The profile is not edited in       *)
(* another tab meanwhile.                                                  *)
(***************************************************************************)
EXTENDS Naturals, Sequences, SequencesExt, Lists, Query

CONSTANTS
    Catalogue,    \* bound: list -> the skills it may get, numbered by name
    Levels,       \* bound: list -> the levels chosen in it
    MaxSelected,  \* the most skills that can be picked for a list
    NewProfiles   \* bound: the profiles the student starts from

SkillLists == {"teaching", "learning"}
Rows(list) == UNION {[S -> Levels[list]] : S \in SUBSET Catalogue[list]}
Picks(list) == [id : Catalogue[list], level : Levels[list]]
Formats == {"ONLINE", "OFFLINE"}
StoredProfiles ==
    [city : BOOLEAN, formats : SUBSET Formats,
     teaching : Rows("teaching"), learning : Rows("learning")]

OnboardingAssumption ==
    /\ \A list \in SkillLists : "BEGINNER" \in Levels[list]
    /\ \A list \in SkillLists : Catalogue[list] \subseteq Nat /\ IsFiniteSet(Catalogue[list])
    /\ MaxSelected \in Nat
    /\ NewProfiles \subseteq StoredProfiles

VARIABLES
    stored,    \* server: the profile
    loading,   \* the requests of the page before its first step
    step,      \* 0 profile, 1 teaching, 2 learning, 3 formats, 4 done
    fields,    \* the form: a city was typed, the selections, the formats
    save       \* the save in flight

onboardingVars == <<stored, loading, step, fields, save>>

Idle == [phase |-> "idle"]
Saves ==
    [phase : {"read", "asked", "handled", "refused"}, list : SkillLists,
     existing : UNION {Rows(list) : list \in SkillLists},
     deletes : UNION {SUBSET Catalogue[list] : list \in SkillLists},
     puts : UNION {Seq(Picks(list)) : list \in SkillLists}]
    \union [phase : {"patch", "patched", "refused"}, body : {"fields", "formats"}]

OnboardingTypeOK ==
    /\ stored \in StoredProfiles
    /\ loading \in Queries({"onboarding"}, StoredProfiles)
    /\ step \in 0 .. 4
    /\ fields \in [city : BOOLEAN, formats : SUBSET Formats,
                   teaching : Seq(Picks("teaching")), learning : Seq(Picks("learning"))]
    /\ save \in Saves \union {Idle}

-----------------------------------------------------------------------------
(* The server lists skills by name and keeps no other order of them.        *)
selectedSkills(row) ==
    [n \in 1 .. Cardinality(DOMAIN row) |->
        LET s == Nth(DOMAIN row, n) IN [id |-> s, level |-> row[s]]]

Selected(list) == {p.id : p \in ToSet(fields[list])}
AsRow(seq) ==
    [s \in {p.id : p \in ToSet(seq)} |-> (CHOOSE p \in ToSet(seq) : p.id = s).level]

EligibleForMatching(p) ==
    /\ DOMAIN p.teaching # {} /\ DOMAIN p.learning # {} /\ p.formats # {}
    /\ "OFFLINE" \in p.formats => p.city

(* validProfile: offline lessons need a city.                               *)
Valid(p) == "OFFLINE" \in p.formats => p.city

Blank == [city |-> FALSE, formats |-> {}, teaching |-> <<>>, learning |-> <<>>]

OnboardingInit ==
    /\ stored \in {p \in NewProfiles : ~EligibleForMatching(p)}
    /\ loading = Load("onboarding")
    /\ step = 0 /\ fields = Blank /\ save = Idle

-----------------------------------------------------------------------------
LoadProfile ==
    /\ \/ Asked(loading) /\ loading' = Served(loading, stored) /\ UNCHANGED fields
       \/ /\ Arriving(loading)
          /\ loading' = Taken(loading)
          /\ LET p == loading.answer
             IN  fields' = [city |-> p.city, formats |-> p.formats,
                            teaching |-> selectedSkills(p.teaching),
                            learning |-> selectedSkills(p.learning)]
       \/ InFlight(loading) /\ loading' = Failed(loading) /\ UNCHANGED fields
       \/ Shows(loading) = "error" /\ loading' = Retry(loading) /\ UNCHANGED fields
    /\ UNCHANGED <<stored, step, save>>

(* The fieldset is disabled while a save is pending.                        *)
Editing(s) == Ready(loading) /\ step = s /\ save = Idle
Edit(form) ==
    /\ fields' = form
    /\ UNCHANGED <<stored, loading, step, save>>

changeField(city) == Editing(0) /\ Edit([fields EXCEPT !.city = city])
setFormat(formats) == Editing(3) /\ Edit([fields EXCEPT !.formats = formats])

StepOf(list) == IF list = "teaching" THEN 1 ELSE 2

toggleSkill(list, s) ==
    /\ Editing(StepOf(list))
    /\ IF s \in Selected(list)
       THEN Edit([fields EXCEPT ![list] = Kept(@, {p \in Picks(list) : p.id # s})])
       ELSE /\ Len(fields[list]) < MaxSelected
            /\ Edit([fields EXCEPT ![list] = Append(@, [id |-> s, level |-> "BEGINNER"])])

setLevel(list, i, level) ==
    /\ Editing(StepOf(list))
    /\ Edit([fields EXCEPT ![list][i].level = level])

(* Only the skills to learn have a priority to change.                      *)
moveSkill(i, j) ==
    /\ Editing(2) /\ i # j
    /\ LET others == RemoveAt(fields.learning, i)
       IN  Edit([fields EXCEPT !.learning = InsertAt(others, j, fields.learning[i])])

changeStep(next) ==
    /\ step' = next
    /\ save' = Idle

Back ==
    /\ Ready(loading) /\ save = Idle /\ step \in 1 .. 3
    /\ changeStep(step - 1)
    /\ UNCHANGED <<stored, loading, fields>>

-----------------------------------------------------------------------------
handleNext ==
    /\ Ready(loading) /\ save = Idle
    /\ \/ step = 0 /\ save' = [phase |-> "patch", body |-> "fields"]
       \/ step = 3 /\ fields.formats # {} /\ save' = [phase |-> "patch", body |-> "formats"]
       \/ \E list \in SkillLists :
             /\ step = StepOf(list) /\ fields[list] # <<>>
             /\ save' = [phase |-> "read", list |-> list, existing |-> <<>>,
                         deletes |-> {}, puts |-> <<>>]
    /\ UNCHANGED <<stored, loading, step, fields>>

Patched(p) ==
    IF save.body = "fields" THEN [p EXCEPT !.city = fields.city]
    ELSE [p EXCEPT !.formats = fields.formats]

UpdateProfile ==
    /\ save.phase = "patch"
    /\ IF Valid(Patched(stored))
       THEN stored' = Patched(stored) /\ save' = [save EXCEPT !.phase = "patched"]
       ELSE save' = [save EXCEPT !.phase = "refused"] /\ UNCHANGED stored
    /\ UNCHANGED <<loading, step, fields>>

Missing(list, existing) ==
    {p \in Picks(list) : ~(p.id \in DOMAIN existing /\ existing[p.id] = p.level)}

(* Mutant: works from the profile the page loaded. *)
saveSkillsSinceLoading(list, existing) ==
    LET before == loading.data[list]
    IN  [phase |-> "asked", list |-> list, existing |-> before,
         deletes |-> DOMAIN before \ Selected(list),
         puts |-> Kept(fields[list], Missing(list, before))]

(* saveSkills reads the server's list first, and works from it: what is     *)
(* selected no more is deleted, what is new or has another level is put.    *)
saveSkills(list, existing) ==
    [phase |-> "asked", list |-> list, existing |-> existing,
     deletes |-> DOMAIN existing \ Selected(list),
     puts |-> Kept(fields[list], Missing(list, existing))]

ReadProfile ==
    /\ save.phase = "read"
    /\ save' = saveSkills(save.list, stored[save.list])
    /\ UNCHANGED <<stored, loading, step, fields>>

(* One request of the two loops, as the server handles it.                  *)
WriteSkill ==
    /\ save.phase = "asked"
    /\ LET row == stored[save.list]
           drop == CHOOSE s \in save.deletes : \A t \in save.deletes : s <= t
           put == Head(save.puts)
           set(s, rows) == stored' = [stored EXCEPT ![save.list] = rows]
           done == save' = [save EXCEPT !.phase = "handled"]
           refused == save' = [save EXCEPT !.phase = "refused"] /\ UNCHANGED stored
       IN  IF save.deletes # {}
           THEN IF drop \in DOMAIN row
                THEN set(drop, [s \in DOMAIN row \ {drop} |-> row[s]]) /\ done
                ELSE refused
           ELSE /\ save.puts # <<>>
                /\ IF put.id \in DOMAIN row <=> put.id \in DOMAIN save.existing
                   THEN set(put.id, [s \in DOMAIN row \union {put.id} |->
                                        IF s = put.id THEN put.level ELSE row[s]]) /\ done
                   ELSE refused
    /\ UNCHANGED <<loading, step, fields>>

NextWrite ==
    /\ save.phase = "handled"
    /\ save' = [save EXCEPT !.phase = "asked",
          !.deletes = IF @ = {} THEN {} ELSE @ \ {CHOOSE s \in @ : \A t \in @ : s <= t},
          !.puts = IF save.deletes # {} THEN @ ELSE Tail(@)]
    /\ UNCHANGED <<stored, loading, step, fields>>

(* Everything was answered: the next step, or the end.                      *)
Advance ==
    /\ \/ save.phase = "patched"
       \/ save.phase = "asked" /\ save.deletes = {} /\ save.puts = <<>>
    /\ changeStep(step + 1)
    /\ UNCHANGED <<stored, loading, fields>>

(* A refusal, or a request or answer that is lost: the step stays.          *)
SaveFails ==
    /\ save # Idle
    /\ save' = Idle
    /\ UNCHANGED <<stored, loading, step, fields>>

OnboardingNext ==
    \/ LoadProfile \/ Back \/ handleNext \/ UpdateProfile \/ ReadProfile \/ WriteSkill
    \/ NextWrite \/ Advance \/ SaveFails
    \/ \E city \in BOOLEAN : changeField(city)
    \/ \E formats \in (SUBSET Formats) \ {{}} : setFormat(formats)
    \/ \E i, j \in DOMAIN fields.learning : moveSkill(i, j)
    \/ \E list \in SkillLists :
          \/ \E s \in Catalogue[list] : toggleSkill(list, s)
          \/ \E i \in DOMAIN fields[list], level \in Levels[list] : setLevel(list, i, level)

-----------------------------------------------------------------------------
(* However many requests of a step failed, were lost or were sent again: a  *)
(* student past a step of skills has on the server exactly the skills and   *)
(* levels selected in it.                                                   *)
PassedIsSaved ==
    \A list \in SkillLists : step > StepOf(list) => stored[list] = AsRow(fields[list])

(* Whoever reaches the end can be matched.                                  *)
FinishedIsEligible == step = 4 => EligibleForMatching(stored)
=============================================================================
